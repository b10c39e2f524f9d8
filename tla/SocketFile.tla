----------------------------- MODULE SocketFile -----------------------------
(***************************************************************************)
(* The file of an AF_UNIX socket in the life of the servers that listen on *)
(* it: socket_bind and Service of src/dev/common/src/SockServerClient.cpp, *)
(* one action per system call.  A server is a process with one             *)
(* SocketServer; it can be killed at any point, which leaves its file      *)
(* behind, and be started again.  ServerLifecycle has the rest of a        *)
(* server's life, for one server.                                          *)
(***************************************************************************)
EXTENDS Naturals

CONSTANTS
    Servers,        \* processes that serve on the same file
    NoFile, Stale,  \* there is no file; it names a socket that is closed
    MaxErrors,      \* SOCK_MAX_ERRORS_CNT
    MaxFailures     \* how often socket, listen or accept may fail, in all

ASSUME FileAssumption == NoFile # Stale /\ {NoFile, Stale} \cap Servers = {}
ASSUME FailuresAssumption == MaxErrors \in Nat /\ MaxFailures \in Nat

VARIABLES
    pc,                 \* where each service thread is
    server_sock,        \* whether it has a socket that listens
    m_stop, m_instance_active, err_cnt_start,
    file,               \* the server whose socket the file names
    failures,           \* failures so far
    alone               \* history: no other server ran since this one's Start

vars == <<pc, server_sock, m_stop, m_instance_active, err_cnt_start, file, failures, alone>>

Down == {"off", "killed"}
PCs  == Down \cup {"top", "open", "unlink", "bind", "listen", "serve", "close", "cleanup",
                   "inactive"}

Goto(s, to) == pc' = [pc EXCEPT ![s] = to]

\* A socket that is closed leaves its file
Closed(s) == IF file = s THEN Stale ELSE file

Init ==
    /\ pc = [s \in Servers |-> "off"]
    /\ server_sock = [s \in Servers |-> FALSE]
    /\ m_stop = [s \in Servers |-> FALSE] /\ m_instance_active = [s \in Servers |-> FALSE]
    /\ err_cnt_start = [s \in Servers |-> 0]
    /\ file = NoFile /\ failures = 0
    /\ alone = [s \in Servers |-> TRUE]

-----------------------------------------------------------------------------
(* The application and the system *)

Start(s) ==
    /\ pc[s] \in Down
    /\ Goto(s, "top")
    /\ m_stop' = [m_stop EXCEPT ![s] = FALSE]
    /\ err_cnt_start' = [err_cnt_start EXCEPT ![s] = 0]
    /\ alone' = [o \in Servers |-> o = s /\ \A p \in Servers \ {s} : pc[p] \in Down]
    /\ UNCHANGED <<server_sock, m_instance_active, file, failures>>

\* A Stop that comes during a Start waits for it
Stop(s) ==
    /\ m_instance_active[s] /\ ~m_stop[s]
    /\ m_stop' = [m_stop EXCEPT ![s] = TRUE]
    /\ UNCHANGED <<pc, server_sock, m_instance_active, err_cnt_start, file, failures, alone>>

Kill(s) ==
    /\ pc[s] \notin Down
    /\ Goto(s, "killed")
    /\ m_instance_active' = [m_instance_active EXCEPT ![s] = FALSE]
    /\ server_sock' = [server_sock EXCEPT ![s] = FALSE]
    /\ file' = Closed(s)
    /\ UNCHANGED <<m_stop, err_cnt_start, failures, alone>>

-----------------------------------------------------------------------------
(* The service thread *)

\* Seeded fault: the service gives up one failure later
ServiceTopTolerant(s) ==
    /\ pc[s] = "top"
    /\ Goto(s, IF m_stop[s] \/ err_cnt_start[s] > MaxErrors + 1 THEN "close"
               ELSE IF server_sock[s] THEN "serve" ELSE "open")
    /\ UNCHANGED <<server_sock, m_stop, m_instance_active, err_cnt_start, file, failures, alone>>

ServiceTop(s) ==
    /\ pc[s] = "top"
    /\ Goto(s, IF m_stop[s] \/ err_cnt_start[s] > MaxErrors THEN "close"
               ELSE IF server_sock[s] THEN "serve" ELSE "open")
    /\ UNCHANGED <<server_sock, m_stop, m_instance_active, err_cnt_start, file, failures, alone>>

\* One of socket_open, socket_bind and socket_listen has failed
InitFails(s) ==
    /\ Goto(s, "top")
    /\ err_cnt_start' = [err_cnt_start EXCEPT ![s] = @ + 1]
    /\ file' = Closed(s)
    /\ UNCHANGED <<server_sock, m_stop, m_instance_active, alone>>

\* A call of the system that may fail, and otherwise goes on
MayFail(s, to) ==
    \/ /\ Goto(s, to)
       /\ UNCHANGED <<server_sock, m_stop, m_instance_active, err_cnt_start, file, failures, alone>>
    \/ failures < MaxFailures /\ failures' = failures + 1 /\ InitFails(s)

socket_open(s) == pc[s] = "open" /\ MayFail(s, "unlink")

\* Seeded fault: a file left by another server is kept
socket_bind_keeps(s) ==
    /\ pc[s] = "unlink"
    /\ Goto(s, "bind")
    /\ UNCHANGED <<server_sock, m_stop, m_instance_active, err_cnt_start, file, failures, alone>>

\* socket_bind removes the file, whoever it belongs to, and makes its own
socket_bind_unlink(s) ==
    /\ pc[s] = "unlink"
    /\ file' = NoFile
    /\ Goto(s, "bind")
    /\ UNCHANGED <<server_sock, m_stop, m_instance_active, err_cnt_start, failures, alone>>

\* Seeded fault: the file is removed once the socket is bound
socket_bind_removed(s) ==
    /\ pc[s] = "bind"
    /\ file' = NoFile
    /\ Goto(s, "listen")
    /\ UNCHANGED <<server_sock, m_stop, m_instance_active, err_cnt_start, failures, alone>>

socket_bind(s) ==
    /\ pc[s] = "bind"
    /\ \/ /\ file = NoFile
          /\ file' = s
          /\ Goto(s, "listen")
          /\ UNCHANGED <<server_sock, m_stop, m_instance_active, err_cnt_start, alone>>
       \/ file # NoFile /\ InitFails(s)
    /\ UNCHANGED failures

socket_listen(s) == pc[s] = "listen" /\ MayFail(s, "serve")

\* The socket listens; one round of waiting and accepting, which may fail
ServiceServe(s) ==
    /\ pc[s] = "serve"
    /\ server_sock' = [server_sock EXCEPT ![s] = TRUE]
    /\ err_cnt_start' = [err_cnt_start EXCEPT ![s] = 0]
    /\ m_instance_active' = [m_instance_active EXCEPT ![s] = TRUE]
    /\ \/ Goto(s, "top") /\ UNCHANGED failures
       \/ failures < MaxFailures /\ failures' = failures + 1 /\ Goto(s, "close")
    /\ UNCHANGED <<m_stop, file, alone>>

ServiceClose(s) ==
    /\ pc[s] = "close"
    /\ server_sock' = [server_sock EXCEPT ![s] = FALSE]
    /\ file' = Closed(s)
    /\ Goto(s, "cleanup")
    /\ UNCHANGED <<m_stop, m_instance_active, err_cnt_start, failures, alone>>

\* The file is removed, whoever it belongs to by now
ServiceUnlink(s) ==
    /\ pc[s] = "cleanup"
    /\ file' = NoFile
    /\ Goto(s, "inactive")
    /\ UNCHANGED <<server_sock, m_stop, m_instance_active, err_cnt_start, failures, alone>>

ServiceInactive(s) ==
    /\ pc[s] = "inactive"
    /\ m_instance_active' = [m_instance_active EXCEPT ![s] = FALSE]
    /\ Goto(s, "off")
    /\ UNCHANGED <<server_sock, m_stop, err_cnt_start, file, failures, alone>>

ServiceStep(s) ==
    \/ ServiceTop(s) \/ socket_open(s) \/ socket_bind_unlink(s) \/ socket_bind(s)
    \/ socket_listen(s) \/ ServiceServe(s) \/ ServiceClose(s) \/ ServiceUnlink(s)
    \/ ServiceInactive(s)

Next == \E s \in Servers : Start(s) \/ Stop(s) \/ Kill(s) \/ ServiceStep(s)

Spec == Init /\ [][Next]_vars

\* The service threads run; nobody owes a Start, a Stop or a Kill
FairSpec == Spec /\ \A s \in Servers : WF_vars(ServiceStep(s))

-----------------------------------------------------------------------------
(* Properties *)

\* Types, and how often a service tries before it gives up.
TypeOK ==
    /\ pc \in [Servers -> PCs] /\ server_sock \in [Servers -> BOOLEAN]
    /\ m_stop \in [Servers -> BOOLEAN] /\ m_instance_active \in [Servers -> BOOLEAN]
    /\ err_cnt_start \in [Servers -> 0 .. MaxErrors + 1]
    /\ file \in Servers \cup {NoFile, Stale}
    /\ failures \in 0 .. MaxFailures /\ alone \in [Servers -> BOOLEAN]

\* A server that was never together with another one can be reached by its
\* file while it listens, whatever was killed before it, and leaves no file
\* when it ends in order, whether it served or not.  Of two servers that run
\* together, either may remove the other's file in socket_bind and at its end.
FileIsOwn ==
    \A s \in Servers : alone[s] =>
        /\ server_sock[s] => file = s
        /\ pc[s] = "inactive" => file = NoFile

\* A server that is alone gets its file, also the one that a killed server
\* left, within the failures allowed.
StartsOverStaleFile ==
    \A s \in Servers :
        pc[s] = "top" /\ alone[s] /\ ~m_stop[s]
            ~> m_instance_active[s] \/ m_stop[s] \/ ~alone[s] \/ pc[s] = "killed"

=============================================================================
