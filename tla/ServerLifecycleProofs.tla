----------------------- MODULE ServerLifecycleProofs -----------------------
(***************************************************************************)
(* Theorems about ServerLifecycle, and about ServerReentry, where handlers *)
(* call the server, for every value of their constants.  The steps that    *)
(* both have are shared: the invariant is over j, which says that the      *)
(* handler of some shell is in StopMe and waits for the service thread.    *)
(* ServerLifecycle by itself is the case of j = FALSE.                     *)
(*                                                                         *)
(* Both implement Service, one service at a time.                          *)
(***************************************************************************)
EXTENDS ServerReentry, FiniteSetTheorems, TLAPS

USE NoneAssumption, ShellsAssumption, ErrorsAssumption

-----------------------------------------------------------------------------
(* The invariant *)

\* TypeOK, but for the sign of g_sockets_cnt, which Counted gives
Flags ==
    /\ m_stop \in BOOLEAN /\ m_instance_active \in BOOLEAN
    /\ server_sock \in BOOLEAN /\ died \in BOOLEAN

Places ==
    /\ apc \in [Apps -> AppPCs] /\ lock \in Apps \cup Shells \cup {None}
    /\ thread \in {"none", "running", "finished"} /\ svc \in SvcPCs
    /\ err_cnt_start \in Nat
    /\ shells \in [Shells -> ShellPCs]
    /\ m_clients \subseteq Shells
    /\ g_sockets_cnt \in Int /\ bindFailures \in 0 .. MaxBindFailures
    /\ terminated \in {"no", "assign", "async"}

Types == Flags /\ Places

\* m_access_controller: who is in a call owns it
Excluded == \A a \in Apps : apc[a] # "idle" => lock = a

\* Where the service thread is, and what it has told
ServiceRuns == thread = "running" <=> svc # "off"

ActiveUntilEnd == m_instance_active => svc \notin {"off", "exit"}

SockUntilDown ==
    /\ svc \in {"serve", "wait", "spawn"} => server_sock
    /\ svc \in {"open", "inactive", "exit", "off"} => ~server_sock

\* A service that is not active yet is awaited by a Start
Awaited ==
    thread = "running" /\ ~m_instance_active /\ svc # "exit" =>
        \E a \in Apps : apc[a] = "startWait"

\* m_stop tells a thread to end only while a Stop waits for it
StopWaits(j) == m_stop /\ thread # "none" => j \/ \E a \in Apps : apc[a] = "joining"

\* A service that has ended died, or a Stop waits for it
EndedOrDied(j) ==
    thread # "none" /\ svc \in {"exit", "off"} =>
        died \/ j \/ \E a \in Apps : apc[a] = "joining"

\* The Stop of a handler owns the mutex, as any other
OwnedByShell(j) == j => lock \in Shells

\* What Stop has done so far
Joined == \A a \in Apps : apc[a] \in {"getting", "stopped"} => thread = "none"
Cleared == \A a \in Apps : apc[a] = "stopped" => m_clients = {}

\* No shell without a future
Futures == m_clients = {s \in Shells : shells[s] # "none"}

\* The count: the listening socket, one accepted but not given to a shell yet,
\* and those of the shells
Busy == {s \in Shells : shells[s] \notin {"none", "done"}}
Listens == IF server_sock THEN 1 ELSE 0
Accepted == IF svc = "spawn" THEN 1 ELSE 0
Counted == g_sockets_cnt = Listens + Accepted + Cardinality(Busy)

Control(j) ==
    /\ Types /\ Excluded
    /\ ServiceRuns /\ ActiveUntilEnd /\ SockUntilDown
    /\ Awaited /\ StopWaits(j) /\ EndedOrDied(j) /\ OwnedByShell(j)
    /\ Joined /\ Cleared /\ Futures
    /\ AssignOnlyAfterDeath

-----------------------------------------------------------------------------
(* Control *)

LEMMA ControlInit == Init => Control(FALSE)
<1>1. Init => Types
  <2>1. Init => Flags
    BY DEF Init, Flags
  <2>2. Init => Places
    BY DEF Init, Places, AppPCs, SvcPCs, ShellPCs
  <2> QED BY <2>1, <2>2 DEF Types
<1> QED
  BY <1>1 DEF Init, Control, Excluded, ServiceRuns, ActiveUntilEnd, SockUntilDown,
              Awaited, StopWaits, EndedOrDied, OwnedByShell, Joined, Cleared, Futures, AssignOnlyAfterDeath

\* The parts of Control that a step of the service can touch
LEMMA ControlService ==
    ASSUME NEW j \in BOOLEAN, Control(j), ServiceStep PROVE Control(j)'
<1> USE DEF Control, Types
<1>1. UNCHANGED <<apc, lock, m_stop>> /\ thread = "running" /\ terminated # "assign"
      /\ terminated' # "assign"
  BY DEF ServiceStep, ServiceTop, ServiceOpen, ServiceServe, ServiceWait, StartClient,
         ServiceDown, ServiceInactive, ServiceExit, appVars, ServiceRuns, Alive
<1>2. Types'
  <2>1. Flags'
    BY DEF Flags, ServiceStep, ServiceTop, ServiceOpen, ServiceServe, ServiceWait,
           StartClient, ServiceDown, ServiceInactive, ServiceExit
  <2>2. CASE ServiceTop
    BY <2>1, <2>2 DEF ServiceTop, Places, SvcPCs, appVars
  <2>3. CASE ServiceOpen
    BY <2>1, <2>3 DEF ServiceOpen, Places, SvcPCs, appVars
  <2>4. CASE ServiceServe \/ ServiceWait
    BY <2>1, <2>4 DEF ServiceServe, ServiceWait, Places, SvcPCs, appVars
  <2>5. CASE StartClient
    BY <2>1, <2>5 DEF StartClient, Places, SvcPCs, ShellPCs, appVars
  <2>6. CASE ServiceDown \/ ServiceInactive \/ ServiceExit
    BY <2>1, <2>6 DEF ServiceDown, ServiceInactive, ServiceExit, Places, SvcPCs, appVars
  <2> QED BY <2>1, <2>2, <2>3, <2>4, <2>5, <2>6 DEF ServiceStep
<1>3. Excluded' /\ OwnedByShell(j)' /\ AssignOnlyAfterDeath'
  BY <1>1 DEF Excluded, OwnedByShell, AssignOnlyAfterDeath
<1>4. ServiceRuns' /\ ActiveUntilEnd' /\ SockUntilDown'
  BY <1>1 DEF Places, ServiceRuns, ActiveUntilEnd, SockUntilDown, ServiceStep, ServiceTop,
         ServiceOpen, ServiceServe, ServiceWait, StartClient, ServiceDown, ServiceInactive,
         ServiceExit
<1>5. Awaited'
  BY <1>1 DEF Awaited, ServiceStep, ServiceTop, ServiceOpen, ServiceServe, ServiceWait,
         StartClient, ServiceDown, ServiceInactive, ServiceExit
<1>6. StopWaits(j)'
  BY <1>1 DEF StopWaits
<1>7. EndedOrDied(j)'
  BY <1>1 DEF Places, StopWaits, EndedOrDied, ServiceStep, ServiceTop, ServiceOpen, ServiceServe,
         ServiceWait, StartClient, ServiceDown, ServiceInactive, ServiceExit
<1>8. Joined' /\ Cleared'
  BY <1>1 DEF Joined, Cleared
<1>9. Futures'
  BY DEF Places, Futures, ServiceStep, ServiceTop, ServiceOpen, ServiceServe, ServiceWait,
         StartClient, ServiceDown, ServiceInactive, ServiceExit
<1> QED BY <1>2, <1>3, <1>4, <1>5, <1>6, <1>7, <1>8, <1>9

LEMMA ControlShell ==
    ASSUME NEW j \in BOOLEAN, Control(j), NEW s \in Shells, ShellStep(s) PROVE Control(j)'
<1> USE DEF Control, Types
<1>1. /\ UNCHANGED <<appVars, svcVars, m_stop, m_instance_active, m_clients, terminated>>
      /\ shells[s] # "none"
      /\ \E pc \in {"top", "serving", "reading", "done"} :
            /\ shells' = [shells EXCEPT ![s] = pc]
            /\ g_sockets_cnt' = IF pc = "done" THEN g_sockets_cnt - 1 ELSE g_sockets_cnt
  BY DEF ShellStep, ShellTop, ShellServe, ShellHasRead, ShellGoto
<1>2. Types'
  BY <1>1 DEF Flags, Places, ShellPCs, appVars, svcVars
<1>3. Futures'
  BY <1>1 DEF Places, Futures
<1> QED
  BY <1>1, <1>2, <1>3
     DEF Excluded, ServiceRuns, ActiveUntilEnd, SockUntilDown, Awaited, StopWaits, EndedOrDied,
         OwnedByShell, Joined, Cleared, AssignOnlyAfterDeath, appVars, svcVars

LEMMA ControlApp ==
    ASSUME NEW j \in BOOLEAN, Control(j), NEW a \in Apps, AppCall(a) \/ AppStep(a)
    PROVE  Control(j)'
<1> USE DEF Control, Types
\* No handler is in StopMe: it would own the mutex
<1>0. lock \notin Shells /\ ~j /\ OwnedByShell(j)'
  BY DEF Excluded, OwnedByShell, AppCall, Enter, AppStep, StartMe, StartWait, StopSignal, StopJoin,
         StopGet, Return
\* The others are outside, before and after
<1>1. ASSUME NEW b \in Apps, b # a PROVE apc[b] = "idle" /\ apc'[b] = "idle"
  BY <1>1 DEF Places, Excluded, AppCall, Enter, AppStep, StartMe, StartWait, StopSignal, StopJoin,
         StopGet, Return, Leave, Goto, appVars
<1>2. apc' \in [Apps -> AppPCs] /\ lock' \in Apps \cup Shells \cup {None} /\ Excluded'
  <2>1. apc' \in [Apps -> AppPCs] /\ lock' \in Apps \cup Shells \cup {None}
    BY DEF Places, AppPCs, AppCall, Enter, AppStep, StartMe, StartWait, StopSignal, StopJoin,
           StopGet, Return, Leave, Goto, appVars
  <2>2. apc'[a] # "idle" => lock' = a
    BY DEF Places, Excluded, AppCall, Enter, AppStep, StartMe, StartWait, StopSignal, StopJoin,
           StopGet, Return, Leave, Goto, appVars
  <2> QED BY <1>1, <2>1, <2>2 DEF Excluded
<1>3. CASE AppCall(a) \/ StartWait(a) \/ StopSignal(a) \/ Return(a)
  <2>1. /\ UNCHANGED <<svcVars, m_instance_active, shells, m_clients, g_sockets_cnt, terminated>>
        /\ terminated = "no" /\ apc[a] \notin {"joining", "getting"}
        /\ apc'[a] \notin {"getting", "stopped"}
        /\ apc[a] = "startWait" => m_instance_active
        /\ m_stop' = m_stop \/ (m_stop' = TRUE /\ apc'[a] = "joining")
    BY <1>3 DEF Places, AppCall, Enter, StartWait, StopSignal, Return, Leave, Goto, Alive
  <2>2. Types' /\ ServiceRuns' /\ ActiveUntilEnd' /\ SockUntilDown' /\ Futures'
        /\ AssignOnlyAfterDeath'
    BY <1>2, <2>1 DEF Flags, Places, svcVars, ServiceRuns, ActiveUntilEnd, SockUntilDown, Futures,
       AssignOnlyAfterDeath
  <2>3. Awaited' /\ StopWaits(j)' /\ EndedOrDied(j)'
    BY <1>1, <2>1 DEF svcVars, Awaited, StopWaits, EndedOrDied
  <2>4. Joined' /\ Cleared'
    BY <1>1, <2>1 DEF Joined, Cleared
  <2> QED BY <1>0, <1>2, <2>2, <2>3, <2>4
<1>4. CASE StartMe(a)
  <2>1. /\ UNCHANGED <<m_instance_active, shells, m_clients, g_sockets_cnt>>
        /\ terminated = "no" /\ apc[a] = "starting" /\ apc'[a] \notin {"getting", "stopped", "joining"}
    BY <1>4 DEF Places, StartMe, Leave, Goto, Alive, appVars
  <2>2. Joined' /\ Cleared'
    BY <1>1, <2>1 DEF Joined, Cleared
  <2>3. CASE m_instance_active /\ UNCHANGED <<m_stop, svcVars, terminated>>
    BY <1>0, <1>1, <1>2, <2>1, <2>2, <2>3
       DEF Flags, Places, svcVars, ServiceRuns, ActiveUntilEnd, SockUntilDown, Futures, Awaited, StopWaits,
           EndedOrDied, AssignOnlyAfterDeath
  <2>4. CASE /\ ~m_instance_active /\ thread = "none" /\ m_stop' = FALSE
             /\ thread' = "running" /\ svc' = "top" /\ err_cnt_start' = 0
             /\ server_sock' = FALSE /\ died' = FALSE /\ UNCHANGED <<bindFailures, terminated>>
             /\ Goto(a, "startWait")
    <3>1. apc'[a] = "startWait"
      BY <2>4 DEF Places, Goto
    <3> QED
      BY <1>0, <1>2, <2>1, <2>2, <2>4, <3>1
         DEF Flags, Places, SvcPCs, ServiceRuns, ActiveUntilEnd, SockUntilDown, Futures, Awaited, StopWaits,
             EndedOrDied, AssignOnlyAfterDeath
  <2>5. CASE ~m_instance_active /\ m_stop' = FALSE /\ UNCHANGED <<svcVars, terminated>>
    <3>1. ~ \E b \in Apps : apc[b] \in {"startWait", "joining"}
      BY <1>1, <2>1
    <3> QED
      BY <1>0, <1>2, <2>1, <2>2, <2>5, <3>1
         DEF Flags, Places, svcVars, ServiceRuns, ActiveUntilEnd, SockUntilDown, Futures, Awaited,
             StopWaits, EndedOrDied, AssignOnlyAfterDeath
  <2>6. CASE /\ ~m_instance_active /\ thread # "none" /\ m_stop' = FALSE /\ terminated' = "assign"
             /\ UNCHANGED <<appVars, svcVars>>
    <3>1. ~ \E b \in Apps : apc[b] \in {"startWait", "joining"}
      BY <1>1, <2>1
    <3>2. died
      BY <1>0, <2>6, <3>1 DEF Places, Awaited, ServiceRuns, EndedOrDied
    <3> QED
      BY <1>0, <1>2, <2>1, <2>2, <2>6, <3>2
         DEF Flags, Places, svcVars, appVars, ServiceRuns, ActiveUntilEnd, SockUntilDown, Futures, Awaited,
             StopWaits, EndedOrDied, AssignOnlyAfterDeath
  <2> QED BY <1>4, <2>3, <2>4, <2>5, <2>6 DEF StartMe
<1>5. CASE StopJoin(a)
  <2>1. /\ UNCHANGED <<svc, err_cnt_start, server_sock, bindFailures, died, m_stop,
                       m_instance_active, shells, m_clients, g_sockets_cnt, terminated>>
        /\ terminated = "no" /\ thread # "running" /\ thread' = "none" /\ apc'[a] = "getting"
    BY <1>5 DEF Places, StopJoin, Goto, Alive
  <2> QED
    BY <1>0, <1>1, <1>2, <2>1
       DEF Flags, Places, ServiceRuns, ActiveUntilEnd, SockUntilDown, Futures, Awaited, StopWaits,
           EndedOrDied, AssignOnlyAfterDeath, Joined, Cleared
<1>6. CASE StopGet(a)
  <2>1. /\ UNCHANGED <<svcVars, m_stop, m_instance_active, g_sockets_cnt, terminated>>
        /\ terminated = "no" /\ thread = "none" /\ apc'[a] = "stopped" /\ m_clients' = {}
        /\ shells' = [s \in Shells |-> IF s \in m_clients THEN "none" ELSE shells[s]]
    BY <1>6 DEF Places, StopGet, Goto, Alive, Joined
  <2>2. Types' /\ Futures'
    BY <1>2, <2>1 DEF Flags, Places, svcVars, ShellPCs, Futures
  <2> QED
    BY <1>0, <1>1, <1>2, <2>1, <2>2
       DEF svcVars, ServiceRuns, ActiveUntilEnd, SockUntilDown, Awaited, StopWaits,
           EndedOrDied, AssignOnlyAfterDeath, Joined, Cleared
<1> QED BY <1>3, <1>4, <1>5, <1>6 DEF AppStep

LEMMA ControlStutter == ASSUME NEW j \in BOOLEAN, Control(j), UNCHANGED vars PROVE Control(j)'
BY DEF vars, appVars, svcVars, Control, Types, Flags, Places, Excluded, ServiceRuns, ActiveUntilEnd,
         SockUntilDown, Awaited, StopWaits, EndedOrDied, OwnedByShell, Joined, Cleared, Futures,
         AssignOnlyAfterDeath

-----------------------------------------------------------------------------
(* The count *)

LEMMA BusyFinite == IsFiniteSet(Busy) /\ Cardinality(Busy) \in Nat
<1>1. Busy \subseteq Shells
  BY DEF Busy
<1> QED BY <1>1, FS_Subset, FS_CardinalityType

LEMMA Numbers == Listens \in {0, 1} /\ Accepted \in {0, 1}
BY DEF Listens, Accepted

LEMMA CountedService ==
    ASSUME NEW j \in BOOLEAN, Control(j), Counted, ServiceStep PROVE Counted'
<1> USE BusyFinite, Numbers DEF Control
<1>1. CASE StartClient
  <2>1. CASE UNCHANGED <<shells, svc, server_sock, g_sockets_cnt>>
    BY <2>1 DEF Counted, Busy, Listens, Accepted
  <2>2. ASSUME NEW s \in Shells, shells[s] = "none", shells' = [shells EXCEPT ![s] = "top"],
               svc = "spawn", svc' = "top", UNCHANGED <<server_sock, g_sockets_cnt>>
        PROVE  Counted'
    <3>1. Busy' = Busy \cup {s} /\ s \notin Busy
      BY <2>2 DEF Busy, Types, Places
    <3>2. Cardinality(Busy') = Cardinality(Busy) + 1
      BY <3>1, FS_AddElement
    <3>3. Accepted = 1 /\ Accepted' = 0 /\ Listens' = Listens
      BY <2>2 DEF Accepted, Listens
    <3> QED BY <2>2, <3>2, <3>3 DEF Counted
  <2> QED BY <1>1, <2>1, <2>2 DEF StartClient
<1>2. CASE ~StartClient
  <2>1. Busy' = Busy
    BY <1>2 DEF Busy, ServiceStep, ServiceTop, ServiceOpen, ServiceServe, ServiceWait, ServiceDown,
           ServiceInactive, ServiceExit
  <2>2. g_sockets_cnt' = g_sockets_cnt + Listens' - Listens + Accepted' - Accepted
    <3>1. g_sockets_cnt \in Int
      BY DEF Types, Places
    <3>2. CASE ServiceTop \/ ServiceServe \/ ServiceInactive \/ ServiceExit
      BY <3>1, <3>2 DEF ServiceTop, ServiceServe, ServiceInactive, ServiceExit, Listens, Accepted
    <3>3. CASE ServiceOpen
      BY <3>1, <3>3 DEF ServiceOpen, SockUntilDown, Listens, Accepted
    <3>4. CASE ServiceWait \/ ServiceDown
      BY <3>1, <3>4 DEF ServiceWait, ServiceDown, Listens, Accepted
    <3> QED BY <1>2, <3>2, <3>3, <3>4 DEF ServiceStep
  <2>3. Listens' \in {0, 1} /\ Accepted' \in {0, 1}
    BY DEF Listens, Accepted
  <2> QED BY <2>1, <2>2, <2>3 DEF Counted
<1> QED BY <1>1, <1>2

LEMMA CountedShell ==
    ASSUME NEW j \in BOOLEAN, Control(j), Counted, NEW s \in Shells, ShellStep(s) PROVE Counted'
<1> USE BusyFinite, Numbers DEF Control
<1>1. /\ UNCHANGED <<svc, server_sock>> /\ s \in Busy
      /\ \E pc \in {"top", "serving", "reading", "done"} :
            /\ shells' = [shells EXCEPT ![s] = pc]
            /\ g_sockets_cnt' = IF pc = "done" THEN g_sockets_cnt - 1 ELSE g_sockets_cnt
  BY DEF ShellStep, ShellTop, ShellServe, ShellHasRead, ShellGoto, svcVars, Busy
<1>2. UNCHANGED <<Listens, Accepted>>
  BY <1>1 DEF Listens, Accepted
<1>3. CASE UNCHANGED g_sockets_cnt /\ Busy' = Busy
  BY <1>2, <1>3 DEF Counted
<1>4. CASE g_sockets_cnt' = g_sockets_cnt - 1 /\ Busy' = Busy \ {s}
  <2>1. Cardinality(Busy') = Cardinality(Busy) - 1
    BY <1>1, <1>4, FS_RemoveElement
  <2> QED BY <1>2, <1>4, <2>1 DEF Counted
<1> QED BY <1>1, <1>3, <1>4 DEF Busy, Types, Places

LEMMA CountedApp ==
    ASSUME NEW j \in BOOLEAN, Control(j), Counted, NEW a \in Apps, AppCall(a) \/ AppStep(a)
    PROVE  Counted'
<1> USE DEF Control
<1>1. UNCHANGED g_sockets_cnt
  BY DEF AppCall, Enter, AppStep, StartMe, StartWait, StopSignal, StopJoin, StopGet, Return
<1>2. UNCHANGED <<Listens, Accepted>>
  BY DEF AppCall, Enter, AppStep, StartMe, StartWait, StopSignal, StopJoin, StopGet, Return,
         svcVars, Listens, Accepted, SockUntilDown, ServiceRuns
<1>3. Busy' = Busy
  BY DEF AppCall, Enter, AppStep, StartMe, StartWait, StopSignal, StopJoin, StopGet, Return,
         Busy, Types, Places
<1> QED BY <1>1, <1>2, <1>3 DEF Counted

LEMMA CountedStutter == ASSUME Counted, UNCHANGED vars PROVE Counted'
BY DEF vars, svcVars, Counted, Listens, Accepted, Busy

LEMMA CountedInit == Init => Counted
<1> SUFFICES ASSUME Init PROVE Counted
  OBVIOUS
<1>1. Busy = {}
  BY DEF Init, Busy
<1> QED BY <1>1, FS_EmptySet DEF Init, Counted, Listens, Accepted

-----------------------------------------------------------------------------
(* One service at a time.  k says that the handler of some shell is in       *)
(* StopMe and waits for the shells, its own among them.                      *)

\* A server without a service thread has no shell that nobody waits for
Drained(k) == thread = "none" /\ m_clients # {} => k \/ \E a \in Apps : apc[a] = "getting"

\* Before its first socket a service has neither shells nor told a Start
Fresh ==
    thread = "running" /\ svc \in {"top", "open"} /\ ~server_sock =>
        m_clients = {} /\ ~m_instance_active

\* A service that listens has forgotten its failures, so that it goes down
\* when it is told to or when accept fails, and not for those
Errorless == server_sock /\ svc # "serve" => err_cnt_start = 0

ToldOrDied == svc = "down" /\ server_sock /\ ~m_stop => "ACCEPT" \in Faults

Turns(k) == Drained(k) /\ OwnedByShell(k) /\ Fresh /\ Errorless /\ ToldOrDied

LEMMA TurnsInit == Init => Turns(FALSE)
BY DEF Init, Turns, Drained, OwnedByShell, Fresh, Errorless, ToldOrDied

LEMMA TurnsService ==
    ASSUME NEW j \in BOOLEAN, Control(j), NEW k \in BOOLEAN, Turns(k), ServiceStep
    PROVE  Turns(k)'
<1> USE DEF Turns, Control
<1>1. UNCHANGED <<apc, lock, m_stop>> /\ thread = "running" /\ thread' # "none"
  BY DEF ServiceStep, ServiceTop, ServiceOpen, ServiceServe, ServiceWait, StartClient,
         ServiceDown, ServiceInactive, ServiceExit, appVars, ServiceRuns
<1>2. Drained(k)' /\ OwnedByShell(k)'
  BY <1>1 DEF Drained, OwnedByShell
<1>3. Fresh'
  BY DEF Fresh, SockUntilDown, ServiceStep, ServiceTop, ServiceOpen, ServiceServe, ServiceWait,
         StartClient, ServiceDown, ServiceInactive, ServiceExit
<1>4. Errorless'
  BY DEF Errorless, SockUntilDown, ServiceStep, ServiceTop, ServiceOpen, ServiceServe, ServiceWait,
         StartClient, ServiceDown, ServiceInactive, ServiceExit
<1>5. ToldOrDied'
  <2>1. CASE ServiceTop
    <3>1. server_sock => ~(err_cnt_start > MaxErrors)
      BY <2>1 DEF ServiceTop, Errorless
    <3> QED BY <1>1, <2>1, <3>1 DEF ServiceTop, ToldOrDied
  <2>2. CASE ~ServiceTop
    BY <1>1, <2>2 DEF ToldOrDied, ServiceStep, ServiceOpen, ServiceServe, ServiceWait,
           StartClient, ServiceDown, ServiceInactive, ServiceExit
  <2> QED BY <2>1, <2>2
<1> QED BY <1>2, <1>3, <1>4, <1>5

LEMMA TurnsKept ==
    ASSUME NEW k \in BOOLEAN, Turns(k),
           UNCHANGED <<appVars, svcVars, m_stop, m_instance_active, m_clients>>
    PROVE  Turns(k)'
BY DEF Turns, Drained, OwnedByShell, Fresh, Errorless, ToldOrDied, appVars, svcVars

LEMMA TurnsShell ==
    ASSUME NEW k \in BOOLEAN, Turns(k), NEW s \in Shells, ShellStep(s) PROVE Turns(k)'
BY TurnsKept DEF ShellStep, ShellTop, ShellServe, ShellHasRead, ShellGoto

\* What a call of the application finds: the others are outside
LEMMA AloneInCall ==
    ASSUME NEW j \in BOOLEAN, Control(j), NEW k \in BOOLEAN, Turns(k),
           NEW a \in Apps, AppCall(a) \/ AppStep(a)
    PROVE  /\ ~j /\ ~k /\ \A b \in Apps \ {a} : apc[b] = "idle"
           /\ apc[a] = "starting" /\ ~m_instance_active /\ thread # "none" => ~server_sock /\ ~m_stop
           /\ thread = "none" => ~server_sock /\ svc = "off"
           /\ thread = "none" /\ apc[a] # "getting" => m_clients = {}
<1> USE DEF Control
<1>1. lock = a \/ lock = None
  BY DEF Excluded, AppCall, Enter, AppStep, StartMe, StartWait, StopSignal, StopJoin, StopGet, Return
<1>2. ~j /\ ~k
  BY <1>1 DEF OwnedByShell, Turns
<1>3. \A b \in Apps \ {a} : apc[b] = "idle"
  BY <1>1 DEF Excluded
<1>4. thread = "none" => ~server_sock /\ svc = "off"
  BY DEF ServiceRuns, SockUntilDown, Types, Places
<1>5. thread = "none" /\ apc[a] # "getting" => m_clients = {}
  BY <1>2, <1>3 DEF Turns, Drained
<1>6. apc[a] = "starting" /\ ~m_instance_active /\ thread # "none" => ~server_sock /\ ~m_stop
  <2>1. apc[a] = "starting" => ~ \E b \in Apps : apc[b] \in {"startWait", "joining"}
    BY <1>3
  <2> QED BY <1>2, <2>1 DEF Awaited, StopWaits, ServiceRuns, SockUntilDown, Types, Places
<1> QED BY <1>2, <1>3, <1>4, <1>5, <1>6

LEMMA TurnsApp ==
    ASSUME NEW j \in BOOLEAN, Control(j), NEW k \in BOOLEAN, Turns(k),
           NEW a \in Apps, AppCall(a) \/ AppStep(a)
    PROVE  Turns(k)'
<1> USE AloneInCall DEF Turns
<1>0. OwnedByShell(k)' /\ apc \in [Apps -> AppPCs]
  BY DEF OwnedByShell, Control, Types, Places
<1>1. CASE AppCall(a) \/ StartWait(a) \/ Return(a)
  <2>1. UNCHANGED <<svcVars, m_stop, m_instance_active, m_clients>> /\ apc[a] # "getting"
    BY <1>0, <1>1 DEF AppCall, Enter, StartWait, Return
  <2>2. Drained(k)'
    BY <2>1 DEF Drained, svcVars
  <2> QED BY <1>0, <2>1, <2>2 DEF Fresh, Errorless, ToldOrDied, svcVars
<1>2. CASE StartMe(a)
  <2>1. apc[a] = "starting" /\ UNCHANGED <<m_instance_active, m_clients>>
    BY <1>2 DEF StartMe
  <2>2. Drained(k)'
    BY <1>2, <2>1 DEF StartMe, Drained, svcVars
  <2>3. Fresh' /\ Errorless'
    BY <1>2, <2>1 DEF StartMe, Fresh, Errorless, svcVars
  <2>4. ToldOrDied'
    <3>1. \/ UNCHANGED <<m_stop, svcVars>>
          \/ svc' = "top"
          \/ ~server_sock /\ UNCHANGED svcVars
      BY <1>2, <2>1 DEF StartMe
    <3> QED BY <3>1 DEF ToldOrDied, svcVars
  <2> QED BY <1>0, <2>2, <2>3, <2>4
<1>3. CASE StopSignal(a)
  <2>1. UNCHANGED <<svcVars, m_instance_active, m_clients>> /\ apc[a] = "stopping" /\ m_stop' = TRUE
    BY <1>3 DEF StopSignal
  <2>2. Drained(k)'
    BY <2>1 DEF Drained, svcVars
  <2> QED BY <1>0, <2>1, <2>2 DEF Fresh, Errorless, ToldOrDied, svcVars
<1>4. CASE StopJoin(a)
  <2>1. apc'[a] = "getting" /\ thread' = "none"
        /\ UNCHANGED <<svc, err_cnt_start, server_sock, m_stop, m_instance_active, m_clients>>
    BY <1>0, <1>4 DEF StopJoin, Goto
  <2> QED BY <1>0, <2>1 DEF Drained, Fresh, Errorless, ToldOrDied
<1>5. CASE StopGet(a)
  <2>1. m_clients' = {} /\ UNCHANGED <<svcVars, m_stop, m_instance_active>>
    BY <1>5 DEF StopGet
  <2> QED BY <1>0, <2>1 DEF Drained, Fresh, Errorless, ToldOrDied, svcVars
<1> QED BY <1>1, <1>2, <1>3, <1>4, <1>5 DEF AppStep

\* The steps of Service, and of the shells as it sees them
LEMMA PromiseStep ==
    ASSUME \/ UNCHANGED <<server_sock, m_stop, Seen>>
           \/ Promise!Open \/ Promise!Lower \/ Promise!Tell \/ Promise!Down
           \/ \E s \in Shells : Promise!ShellStep(s)
    PROVE  [Promise!Next]_Promise!vars
BY DEF Promise!Next, Promise!vars

LEMMA SeenGoto ==
    ASSUME shells \in [Shells -> ShellPCs], NEW s \in Shells, NEW pc \in ShellPCs, NEW see,
           shells' = [shells EXCEPT ![s] = pc],
           see = CASE pc \in {"none", "done"} -> "none"
                   [] pc \in {"serving", "reading"} -> "busy"
                   [] OTHER -> pc
    PROVE  Seen' = [Seen EXCEPT ![s] = see]
<1>1. shells'[s] = pc /\ \A t \in Shells \ {s} : shells'[t] = shells[t]
  OBVIOUS
<1> QED BY <1>1 DEF Seen

LEMMA PromiseShell ==
    ASSUME NEW j \in BOOLEAN, Control(j), NEW s \in Shells, ShellStep(s)
    PROVE  [Promise!Next]_Promise!vars
<1> USE DEF ShellPCs
<1>1. shells \in [Shells -> ShellPCs] /\ UNCHANGED <<server_sock, m_stop>>
  BY DEF Control, Types, Places, ShellStep, ShellTop, ShellServe, ShellHasRead, ShellGoto, svcVars
<1>2. CASE ShellTop(s)
  <2>1. CASE m_stop
    <3>1. shells[s] = "top" /\ Seen[s] = "top" /\ Seen' = [Seen EXCEPT ![s] = "none"]
      BY <1>1, <1>2, <2>1, SeenGoto DEF ShellTop, ShellGoto, Seen
    <3>2. Promise!ShellStep(s)
      BY <1>1, <2>1, <3>1 DEF Promise!ShellStep, Promise!End, Promise!MayLeave, Promise!Goto
    <3> QED BY <3>2, PromiseStep
  <2>2. CASE ~m_stop
    <3>1. Seen[s] = "top" /\ Seen' = [Seen EXCEPT ![s] = "busy"]
      BY <1>1, <1>2, <2>2, SeenGoto DEF ShellTop, ShellGoto, Seen
    <3>2. Promise!ShellStep(s)
      BY <1>1, <2>2, <3>1 DEF Promise!ShellStep, Promise!Take, Promise!Goto
    <3> QED BY <3>2, PromiseStep
  <2> QED BY <2>1, <2>2
<1>3. CASE ShellServe(s) \/ ShellHasRead(s)
  <2>1. PICK pc \in {"top", "reading", "done"} : shells' = [shells EXCEPT ![s] = pc]
    BY <1>3 DEF ShellServe, ShellHasRead, ShellGoto
  <2>2. Seen[s] = "busy"
    BY <1>3 DEF ShellServe, ShellHasRead, Seen
  <2>3. CASE pc = "reading"
    <3>1. Seen' = [Seen EXCEPT ![s] = "busy"]
      BY <1>1, <2>1, <2>3, SeenGoto
    <3>2. Seen' = Seen
      BY <2>2, <3>1 DEF Seen
    <3> QED BY <1>1, <3>2, PromiseStep
  <2>4. CASE pc # "reading"
    <3>1. Seen' = [Seen EXCEPT ![s] = "top"] \/ Seen' = [Seen EXCEPT ![s] = "none"]
      BY <1>1, <2>1, <2>4, SeenGoto
    <3>2. Promise!ShellStep(s)
      BY <1>1, <2>2, <3>1
         DEF Promise!ShellStep, Promise!Done, Promise!End, Promise!MayLeave, Promise!Goto
    <3> QED BY <3>2, PromiseStep
  <2> QED BY <2>3, <2>4
<1> QED BY <1>2, <1>3 DEF ShellStep

\* Nobody is left when the service has no future
LEMMA GoneIs == ASSUME NEW j \in BOOLEAN, Control(j), m_clients = {} PROVE Promise!AllGone
BY DEF Control, Futures, Promise!AllGone, Seen

LEMMA PromiseService ==
    ASSUME NEW j \in BOOLEAN, Control(j), NEW k \in BOOLEAN, Turns(k), ServiceStep
    PROVE  [Promise!Next]_Promise!vars
<1> USE DEF Control
<1>1. CASE ServiceTop \/ ServiceServe \/ ServiceWait \/ ServiceInactive \/ ServiceExit
  <2>1. UNCHANGED <<server_sock, m_stop, Seen>>
    BY <1>1 DEF ServiceTop, ServiceServe, ServiceWait, ServiceInactive, ServiceExit, Seen
  <2> QED BY <2>1, PromiseStep
<1>2. CASE ServiceOpen
  <2>1. svc = "open" /\ ~server_sock /\ thread = "running" /\ UNCHANGED <<m_stop, shells>>
    BY <1>2 DEF ServiceOpen, SockUntilDown, ServiceRuns
  <2>2. m_clients = {} /\ ~m_instance_active
    BY <2>1 DEF Turns, Fresh
  <2>3. PICK a \in Apps : apc[a] = "startWait"
    BY <2>1, <2>2 DEF Awaited
  <2>4. ~m_stop
    BY <2>1, <2>3 DEF Excluded, StopWaits, OwnedByShell
  <2>5. UNCHANGED Seen /\ Promise!AllGone
    BY <2>1, <2>2, GoneIs DEF Seen
  <2>6. CASE server_sock' = TRUE
    BY <2>1, <2>4, <2>5, <2>6, PromiseStep DEF Promise!Open, Types, Flags
  <2>7. CASE UNCHANGED server_sock
    BY <2>1, <2>5, <2>7, PromiseStep
  <2> QED BY <1>2, <2>6, <2>7 DEF ServiceOpen
<1>3. CASE StartClient
  <2>1. svc = "spawn" /\ server_sock /\ UNCHANGED <<server_sock, m_stop>>
    BY <1>3 DEF StartClient, SockUntilDown
  <2>2. CASE UNCHANGED shells
    BY <2>1, <2>2, PromiseStep DEF Seen
  <2>3. ASSUME NEW s \in Shells, shells[s] = "none", shells' = [shells EXCEPT ![s] = "top"]
        PROVE  [Promise!Next]_Promise!vars
    <3>1. Seen[s] = "none" /\ Seen' = [Seen EXCEPT ![s] = "top"]
      BY <2>3, SeenGoto DEF Types, Places, ShellPCs, Seen
    <3>2. Promise!ShellStep(s)
      BY <2>1, <3>1 DEF Promise!ShellStep, Promise!Accept, Promise!Goto
    <3> QED BY <3>2, PromiseStep
  <2> QED BY <1>3, <2>2, <2>3 DEF StartClient
<1>4. CASE ServiceDown
  <2>1. svc = "down" /\ server_sock' = FALSE /\ UNCHANGED <<m_stop, Seen>>
    BY <1>4 DEF ServiceDown, Seen
  <2>2. CASE server_sock
    <3>1. m_stop \/ "ACCEPT" \in Faults
      BY <2>1, <2>2 DEF Turns, ToldOrDied
    <3>2. Promise!Down
      BY <2>1, <2>2, <3>1 DEF Promise!Down
    <3> QED BY <3>2, PromiseStep
  <2>3. CASE ~server_sock
    BY <2>1, <2>3, PromiseStep DEF Types, Flags
  <2> QED BY <2>2, <2>3
<1> QED BY <1>1, <1>2, <1>3, <1>4 DEF ServiceStep

LEMMA PromiseApp ==
    ASSUME NEW j \in BOOLEAN, Control(j), NEW k \in BOOLEAN, Turns(k),
           NEW a \in Apps, AppCall(a) \/ AppStep(a)
    PROVE  [Promise!Next]_Promise!vars
<1>1. CASE AppCall(a) \/ StartWait(a) \/ Return(a) \/ StopJoin(a)
  <2>1. UNCHANGED <<server_sock, m_stop, Seen>>
    BY <1>1 DEF AppCall, Enter, StartWait, Return, StopJoin, svcVars, Seen
  <2> QED BY <2>1, PromiseStep
<1>2. CASE StopGet(a)
  <2>1. UNCHANGED <<server_sock, m_stop>>
    BY <1>2 DEF StopGet, svcVars
  <2>2. \A s \in Shells : shells'[s] = shells[s] \/ (shells[s] = "done" /\ shells'[s] = "none")
    BY <1>2 DEF StopGet
  <2>3. UNCHANGED Seen
    BY <2>2 DEF Seen
  <2> QED BY <2>1, <2>3, PromiseStep
<1>3. CASE StopSignal(a)
  <2>1. m_stop' = TRUE /\ UNCHANGED <<server_sock, Seen>>
    BY <1>3 DEF StopSignal, svcVars, Seen
  <2> QED BY <2>1, PromiseStep DEF Promise!Tell
<1>4. CASE StartMe(a)
  <2>1. apc[a] = "starting" /\ UNCHANGED Seen
    BY <1>4 DEF StartMe, Seen
  <2>2. CASE UNCHANGED <<m_stop, svcVars>>
    BY <2>1, <2>2, PromiseStep DEF svcVars
  <2>3. CASE thread = "none" /\ m_stop' = FALSE /\ (server_sock' = FALSE \/ UNCHANGED svcVars)
    <3>1. ~server_sock /\ m_clients = {}
      BY <2>1, <2>3, AloneInCall
    <3>2. UNCHANGED server_sock
      BY <2>3, <3>1 DEF svcVars, Control, Types, Flags
    <3>3. Promise!Lower
      BY <2>1, <2>3, <3>1, <3>2, GoneIs DEF Promise!Lower
    <3> QED BY <3>3, PromiseStep
  <2>4. CASE ~m_instance_active /\ thread # "none" /\ m_stop' = FALSE /\ UNCHANGED svcVars
    <3>1. UNCHANGED <<server_sock, m_stop>>
      BY <2>1, <2>4, AloneInCall DEF svcVars, Control, Types, Flags
    <3> QED BY <2>1, <3>1, PromiseStep
  <2> QED BY <1>4, <2>2, <2>3, <2>4 DEF StartMe
<1> QED BY <1>1, <1>2, <1>3, <1>4 DEF AppStep

LEMMA PromiseInit == Init => Promise!Init
BY DEF Init, Promise!Init, Seen

-----------------------------------------------------------------------------
(* Handlers that call the server *)

HandlerJoins == \E s \in Shells : hpc[s] = "joining"

\* The handler that is inside a call owns the mutex
InCall == {"setHandler", "starting", "stopping", "joining", "getting"}

HandlerOwns ==
    /\ hpc \in [Shells -> HandlerPCs]
    /\ \A s \in Shells : hpc[s] \in InCall => lock = s

ReentryInv ==
    /\ HandlerJoins => Control(TRUE)
    /\ ~HandlerJoins => Control(FALSE)
    /\ Counted /\ HandlerOwns

\* The steps that ServerLifecycle has as well
LEMMA ReentryShared ==
    ASSUME ReentryInv, UNCHANGED hpc,
           \/ ServiceStep \/ UNCHANGED vars
           \/ \E s \in Shells : ShellStep(s)
           \/ \E a \in Apps : AppCall(a) \/ AppStep(a)
    PROVE  ReentryInv'
<1>1. HandlerJoins' <=> HandlerJoins
  BY DEF HandlerJoins
<1>2. ASSUME NEW j \in BOOLEAN, Control(j) PROVE Control(j)' /\ Counted'
  <2>1. Control(j)'
    BY <1>2, ControlService, ControlStutter, ControlShell, ControlApp
  <2>2. Counted'
    BY <1>2, CountedService, CountedStutter, CountedShell, CountedApp DEF ReentryInv
  <2> QED BY <2>1, <2>2
<1>3. ASSUME NEW s \in Shells, hpc[s] \in InCall PROVE lock' = s
  <2>1. lock = s /\ \E j \in BOOLEAN : Control(j)
    BY <1>3 DEF ReentryInv, HandlerOwns
  <2> QED
    BY <2>1 DEF Control, Excluded, ServiceStep, ServiceTop, ServiceOpen, ServiceServe, ServiceWait,
        StartClient, ServiceDown, ServiceInactive, ServiceExit, appVars, vars,
        ShellStep, ShellTop, ShellServe, ShellHasRead, ShellGoto, AppCall, Enter, AppStep,
        StartMe, StartWait, StopSignal, StopJoin, StopGet, Return
<1>4. HandlerOwns'
  BY <1>3 DEF ReentryInv, HandlerOwns
<1>5. CASE HandlerJoins
  BY <1>1, <1>2, <1>4, <1>5 DEF ReentryInv
<1>6. CASE ~HandlerJoins
  BY <1>1, <1>2, <1>4, <1>6 DEF ReentryInv
<1> QED BY <1>5, <1>6

\* What a handler does leaves alone what is counted, and the service's own
LEMMA HandlerKeeps ==
    ASSUME ReentryInv, NEW s \in Shells, HandlerAsks(s) \/ HandlerStep(s)
    PROVE  /\ UNCHANGED serverRest /\ Counted'
           /\ hpc' \in [Shells -> HandlerPCs]
           /\ \A t \in Shells \ {s} : hpc'[t] = hpc[t]
<1> USE HandlerCallsAssumption
<1>1. UNCHANGED serverRest
  BY DEF HandlerAsks, HandlerStep, HandlerLocks, HandlerSets, HandlerStarts, HandlerStopSignal,
         HandlerStopJoin, serverRest, vars, appVars, svcVars
<1>2. Counted'
  BY <1>1 DEF serverRest, ReentryInv, Counted, Listens, Accepted, Busy
<1>3. /\ hpc' \in [Shells -> HandlerPCs]
      /\ \A t \in Shells \ {s} : hpc'[t] = hpc[t]
  BY DEF HandlerAsks, HandlerStep, HandlerLocks, HandlerSets, HandlerStarts, HandlerStopSignal,
         HandlerStopJoin, HandlerGoto, Inside, HandlerPCs, ReentryInv, HandlerOwns
<1> QED BY <1>1, <1>2, <1>3

\* Nobody else is in a call while a handler is
LEMMA OnlyHandler ==
    ASSUME ReentryInv, NEW s \in Shells, hpc[s] \in InCall
    PROVE  /\ lock = s /\ \A a \in Apps : apc[a] = "idle"
           /\ \A t \in Shells \ {s} : hpc[t] \notin InCall
<1>1. lock = s /\ \E j \in BOOLEAN : Control(j)
  BY DEF ReentryInv, HandlerOwns
<1> QED BY <1>1 DEF Control, Excluded, ReentryInv, HandlerOwns

LEMMA ReentryHandler ==
    ASSUME ReentryInv, NEW s \in Shells, HandlerAsks(s) \/ HandlerStep(s)
    PROVE  ReentryInv'
<1> USE DEF ReentryInv
<1>1. /\ UNCHANGED serverRest /\ Counted' /\ hpc' \in [Shells -> HandlerPCs]
      /\ \A t \in Shells \ {s} : hpc'[t] = hpc[t]
  BY HandlerKeeps
<1>2. CASE HandlerAsks(s)
  <2>1. UNCHANGED vars /\ hpc[s] = "no" /\ hpc'[s] \in {"SetHandler", "Start", "Stop"}
    BY <1>2, HandlerCallsAssumption DEF HandlerAsks, HandlerGoto, HandlerOwns
  <2>2. HandlerOwns' /\ (HandlerJoins' <=> HandlerJoins)
    BY <1>1, <2>1 DEF HandlerOwns, HandlerJoins, InCall, vars, appVars
  <2> QED BY <1>1, <2>1, <2>2, ControlStutter
<1>3. CASE HandlerLocks(s)
  <2>1. /\ lock = None /\ lock' = s /\ hpc'[s] \in {"setHandler", "starting", "stopping"}
        /\ UNCHANGED <<serverRest, m_stop, thread, terminated>>
    <3>1. hpc[s] \in {"SetHandler", "Start", "Stop"} /\ hpc'[s] = Inside[hpc[s]]
      BY <1>3, HandlerCallsAssumption DEF HandlerLocks, HandlerGoto, HandlerOwns
    <3>2. hpc'[s] \in {"setHandler", "starting", "stopping"}
      BY <3>1 DEF Inside
    <3> QED BY <1>3, <3>2 DEF HandlerLocks
  <2>2. ~HandlerJoins /\ ~HandlerJoins' /\ HandlerOwns'
    BY <1>1, <2>1 DEF HandlerJoins, HandlerOwns, InCall
  <2>3. Control(FALSE)'
    BY <2>1, <2>2
       DEF serverRest, Control, Types, Flags, Places, Excluded, ServiceRuns, ActiveUntilEnd,
           SockUntilDown, Awaited, StopWaits, EndedOrDied, OwnedByShell, Joined, Cleared,
           Futures, AssignOnlyAfterDeath
  <2> QED BY <1>1, <2>2, <2>3
\* The others own the mutex
<1>4. ASSUME hpc[s] \in InCall
      PROVE  /\ lock = s /\ \A a \in Apps : apc[a] = "idle" /\ apc'[a] = "idle"
             /\ HandlerJoins <=> hpc[s] = "joining"
             /\ HandlerJoins' <=> hpc'[s] = "joining"
             /\ \A t \in Shells \ {s} : hpc'[t] \notin InCall
  BY <1>1, <1>4, OnlyHandler DEF HandlerJoins, InCall, serverRest
<1>5. CASE HandlerSets(s)
  <2>1. /\ hpc[s] = "setHandler" /\ hpc'[s] = "no" /\ lock' = None
        /\ UNCHANGED <<serverRest, m_stop, thread, terminated>>
    BY <1>5 DEF HandlerSets, HandlerGoto, HandlerOwns
  <2>2. ~HandlerJoins /\ ~HandlerJoins' /\ HandlerOwns'
    BY <1>1, <1>4, <2>1 DEF HandlerOwns, InCall
  <2>3. Control(FALSE)'
    BY <1>4, <2>1, <2>2
       DEF serverRest, Control, Types, Flags, Places, Excluded, ServiceRuns, ActiveUntilEnd,
           SockUntilDown, Awaited, StopWaits, EndedOrDied, OwnedByShell, Joined, Cleared,
           Futures, AssignOnlyAfterDeath, InCall
  <2> QED BY <1>1, <2>2, <2>3
<1>6. CASE HandlerStarts(s)
  <2>1. hpc[s] = "starting" /\ UNCHANGED <<serverRest, thread>> /\ terminated = "no"
    BY <1>6 DEF HandlerStarts, Alive
  <2>2. ~HandlerJoins /\ Control(FALSE)
    BY <1>4, <2>1 DEF InCall
  <2>3. CASE /\ m_instance_active /\ lock' = None /\ HandlerGoto(s, "no")
             /\ UNCHANGED <<m_stop, terminated>>
    <3>1. hpc'[s] = "no"
      BY <2>3 DEF HandlerGoto, HandlerOwns
    <3>2. ~HandlerJoins' /\ HandlerOwns'
      BY <1>1, <1>4, <2>1, <3>1 DEF HandlerOwns, InCall
    <3>3. Control(FALSE)'
      BY <1>4, <2>1, <2>2, <2>3
         DEF serverRest, Control, Types, Flags, Places, Excluded, ServiceRuns, ActiveUntilEnd,
             SockUntilDown, Awaited, StopWaits, EndedOrDied, OwnedByShell, Joined, Cleared,
             Futures, AssignOnlyAfterDeath, InCall
    <3> QED BY <1>1, <3>2, <3>3
  <2>5. CASE /\ ~m_instance_active /\ thread # "none" /\ m_stop' = FALSE /\ lock' = None
             /\ HandlerGoto(s, "no") /\ UNCHANGED terminated
    <3>1. hpc'[s] = "no"
      BY <2>5 DEF HandlerGoto, HandlerOwns
    <3>2. ~HandlerJoins' /\ HandlerOwns'
      BY <1>1, <1>4, <2>1, <3>1 DEF HandlerOwns, InCall
    <3>3. Control(FALSE)'
      BY <1>4, <2>1, <2>2, <2>5
         DEF serverRest, Control, Types, Flags, Places, Excluded, ServiceRuns, ActiveUntilEnd,
             SockUntilDown, Awaited, StopWaits, EndedOrDied, OwnedByShell, Joined, Cleared,
             Futures, AssignOnlyAfterDeath, InCall
    <3> QED BY <1>1, <3>2, <3>3
  \* Nobody waits for a Start or a Stop: the service has died
  <2>4. CASE /\ ~m_instance_active /\ thread # "none" /\ m_stop' = FALSE /\ terminated' = "assign"
             /\ UNCHANGED <<lock, hpc>>
    <3>1. died
      BY <1>4, <2>1, <2>2, <2>4
         DEF InCall, Control, Types, Places, Awaited, ServiceRuns, EndedOrDied
    <3>2. ~HandlerJoins' /\ HandlerOwns'
      BY <2>2, <2>4 DEF HandlerOwns, HandlerJoins
    <3>3. Control(FALSE)'
      BY <1>4, <2>1, <2>2, <2>4, <3>1
         DEF serverRest, Control, Types, Flags, Places, Excluded, ServiceRuns, ActiveUntilEnd,
             SockUntilDown, Awaited, StopWaits, EndedOrDied, OwnedByShell, Joined, Cleared,
             Futures, AssignOnlyAfterDeath, InCall
    <3> QED BY <1>1, <3>2, <3>3
  <2> QED BY <1>6, <2>3, <2>4, <2>5 DEF HandlerStarts
<1>7. CASE HandlerStopSignal(s)
  <2>1. /\ hpc[s] = "stopping" /\ hpc'[s] = "joining" /\ m_stop' = TRUE
        /\ UNCHANGED <<serverRest, lock, thread, terminated>>
    BY <1>7 DEF HandlerStopSignal, HandlerGoto, HandlerOwns
  <2>2. ~HandlerJoins /\ Control(FALSE) /\ HandlerJoins' /\ HandlerOwns'
    BY <1>1, <1>4, <2>1 DEF HandlerOwns, InCall
  <2>3. Control(TRUE)'
    BY <1>4, <2>1, <2>2
       DEF serverRest, Control, Types, Flags, Places, Excluded, ServiceRuns, ActiveUntilEnd,
           SockUntilDown, Awaited, StopWaits, EndedOrDied, OwnedByShell, Joined, Cleared,
           Futures, AssignOnlyAfterDeath, InCall
  <2> QED BY <1>1, <2>2, <2>3
<1>8. CASE HandlerStopJoin(s)
  <2>1. /\ hpc[s] = "joining" /\ hpc'[s] = "getting" /\ thread # "running" /\ thread' = "none"
        /\ UNCHANGED <<serverRest, lock, m_stop, terminated>>
    BY <1>8 DEF HandlerStopJoin, HandlerGoto, HandlerOwns
  <2>2. HandlerJoins /\ Control(TRUE) /\ ~HandlerJoins' /\ HandlerOwns'
    BY <1>1, <1>4, <2>1 DEF HandlerOwns, InCall
  <2>3. Control(FALSE)'
    BY <1>4, <2>1, <2>2
       DEF serverRest, Control, Types, Flags, Places, Excluded, ServiceRuns, ActiveUntilEnd,
           SockUntilDown, Awaited, StopWaits, EndedOrDied, OwnedByShell, Joined, Cleared,
           Futures, AssignOnlyAfterDeath, InCall
  <2> QED BY <1>1, <2>2, <2>3
<1> QED BY <1>2, <1>3, <1>5, <1>6, <1>7, <1>8 DEF HandlerStep

\* The Stop of a handler walks the list of futures after the join, too
HandlerJoined == \A s \in Shells : hpc[s] = "getting" => thread = "none"

LEMMA HandlerJoinedStays ==
    ASSUME ReentryInv, HandlerJoined, [ReentryNext]_allVars PROVE HandlerJoined'
<1> SUFFICES ASSUME NEW s \in Shells, hpc'[s] = "getting" PROVE thread' = "none"
  BY DEF HandlerJoined
\* It owns the mutex, and so nobody creates another service thread
<1>1. CASE hpc[s] = "getting"
  <2>1. /\ thread = "none" /\ \A a \in Apps : apc[a] = "idle"
        /\ \A t \in Shells \ {s} : hpc[t] \notin InCall
    BY <1>1, OnlyHandler DEF HandlerJoined, InCall
  <2>2. ~ServiceStep
    <3>1. svc = "off"
      BY <2>1 DEF ReentryInv, Control, ServiceRuns
    <3> QED
      BY <3>1 DEF ServiceStep, ServiceTop, ServiceOpen, ServiceServe, ServiceWait, StartClient,
                  ServiceDown, ServiceInactive, ServiceExit
  <2>3. \A a \in Apps : ~AppStep(a)
    BY <2>1 DEF AppStep, StartMe, StartWait, StopSignal, StopJoin, StopGet, Return
  <2>4. ASSUME NEW a \in Apps, AppCall(a) PROVE thread' = "none"
    BY <2>1, <2>4 DEF AppCall, Enter, svcVars
  <2>5. ASSUME NEW t \in Shells, ShellStep(t) PROVE thread' = "none"
    BY <2>1, <2>5 DEF ShellStep, ShellTop, ShellServe, ShellHasRead, ShellGoto, svcVars
  <2>6. ASSUME NEW t \in Shells, HandlerAsks(t) \/ HandlerStep(t) PROVE thread' = "none"
    BY <2>1, <2>6
       DEF HandlerAsks, HandlerStep, HandlerLocks, HandlerSets, HandlerStarts, HandlerStopSignal,
           HandlerStopJoin, vars, svcVars
  <2>7. CASE UNCHANGED allVars
    BY <2>1, <2>7 DEF allVars, vars, svcVars
  <2> QED BY <2>2, <2>3, <2>4, <2>5, <2>6, <2>7 DEF ReentryNext, Others, AppGoesOn, ShellGoesOn
\* It has just joined the thread
<1>2. CASE hpc[s] # "getting"
  <2>1. PICK t \in Shells : HandlerAsks(t) \/ HandlerStep(t)
    BY <1>2 DEF ReentryNext, allVars, Others, AppGoesOn, ShellGoesOn
  <2>2. t = s /\ hpc \in [Shells -> HandlerPCs]
    BY <1>2, <2>1, HandlerKeeps DEF ReentryInv, HandlerOwns
  <2>3. ~HandlerAsks(s)
    BY <2>2, HandlerCallsAssumption DEF HandlerAsks, HandlerGoto
  <2>4. ~HandlerLocks(s)
    <3>1. HandlerLocks(s) => hpc[s] \in {"SetHandler", "Start", "Stop"} /\ hpc'[s] = Inside[hpc[s]]
      BY <2>2, HandlerCallsAssumption DEF HandlerLocks, HandlerGoto
    <3> QED BY <3>1 DEF Inside
  <2>5. ~HandlerSets(s) /\ ~HandlerStarts(s) /\ ~HandlerStopSignal(s)
    BY <1>2, <2>2 DEF HandlerSets, HandlerStarts, HandlerStopSignal, HandlerGoto
  <2>6. HandlerStopJoin(s)
    BY <2>1, <2>2, <2>3, <2>4, <2>5 DEF HandlerStep
  <2> QED BY <2>6 DEF HandlerStopJoin
<1> QED BY <1>1, <1>2

-----------------------------------------------------------------------------
(* One service at a time, also when handlers call the server *)

HandlerGets == \E s \in Shells : hpc[s] = "getting"

ReentryTurns ==
    /\ HandlerGets => Turns(TRUE)
    /\ ~HandlerGets => Turns(FALSE)

\* The steps that ServerLifecycle has as well
LEMMA TurnsShared ==
    ASSUME ReentryInv, ReentryTurns, UNCHANGED hpc,
           \/ ServiceStep \/ UNCHANGED vars
           \/ \E s \in Shells : ShellStep(s)
           \/ \E a \in Apps : AppCall(a) \/ AppStep(a)
    PROVE  ReentryTurns' /\ [Promise!Next]_Promise!vars
<1>1. PICK j \in BOOLEAN : Control(j)
  BY DEF ReentryInv
<1>2. HandlerGets' <=> HandlerGets
  BY DEF HandlerGets
<1>3. ASSUME NEW k \in BOOLEAN, Turns(k) PROVE Turns(k)' /\ [Promise!Next]_Promise!vars
  <2>1. CASE UNCHANGED vars
    <3>1. UNCHANGED <<server_sock, m_stop, Seen>>
      BY <2>1 DEF vars, svcVars, Seen
    <3>2. Turns(k)'
      BY <1>3, <2>1, TurnsKept DEF vars
    <3> QED BY <3>1, <3>2, PromiseStep
  <2>2. CASE ~UNCHANGED vars
    BY <1>1, <1>3, <2>2, TurnsService, TurnsShell, TurnsApp, PromiseService, PromiseShell, PromiseApp
  <2> QED BY <2>1, <2>2
<1>4. CASE HandlerGets
  BY <1>2, <1>3, <1>4 DEF ReentryTurns
<1>5. CASE ~HandlerGets
  BY <1>2, <1>3, <1>5 DEF ReentryTurns
<1> QED BY <1>4, <1>5

LEMMA TurnsHandler ==
    ASSUME ReentryInv, ReentryTurns, NEW s \in Shells, HandlerAsks(s) \/ HandlerStep(s)
    PROVE  ReentryTurns' /\ [Promise!Next]_Promise!vars
<1>1. /\ UNCHANGED serverRest /\ hpc' \in [Shells -> HandlerPCs]
      /\ \A t \in Shells \ {s} : hpc'[t] = hpc[t]
      /\ UNCHANGED <<server_sock, Seen>>
  BY HandlerKeeps DEF serverRest, Seen
\* While nobody is in StopMe the flag is not raised over a thread, and a
\* service that is not active has closed its socket
<1>2. ASSUME hpc[s] \in {"setHandler", "starting", "stopping", "joining"}
      PROVE  /\ lock = s /\ Turns(FALSE)
             /\ HandlerGets' <=> hpc'[s] = "getting"
             /\ hpc[s] = "starting" /\ ~m_instance_active /\ thread # "none" => ~server_sock /\ ~m_stop
  <2>1. /\ lock = s /\ \A a \in Apps : apc[a] = "idle"
        /\ \A t \in Shells \ {s} : hpc[t] \notin InCall
    BY <1>2, OnlyHandler DEF InCall
  <2>2. ~HandlerGets /\ (HandlerGets' <=> hpc'[s] = "getting")
    BY <1>1, <1>2, <2>1 DEF HandlerGets, InCall
  <2>3. Turns(FALSE)
    BY <2>2 DEF ReentryTurns
  <2>4. hpc[s] = "starting" /\ ~m_instance_active /\ thread # "none" => ~server_sock /\ ~m_stop
    <3>1. hpc[s] = "starting" => Control(FALSE)
      BY <2>1 DEF HandlerJoins, ReentryInv, InCall
    <3> QED
      BY <2>1, <3>1
         DEF Control, Awaited, StopWaits, ServiceRuns, SockUntilDown, Types, Places
  <2> QED BY <2>1, <2>2, <2>3, <2>4
<1>3. CASE UNCHANGED <<lock, m_stop, thread>> /\ (HandlerGets' <=> HandlerGets)
  <2>1. ASSUME NEW k \in BOOLEAN, Turns(k) PROVE Turns(k)'
    BY <1>1, <1>3, <2>1, TurnsKept DEF serverRest, appVars, svcVars
  <2>2. ReentryTurns'
    BY <1>3, <2>1 DEF ReentryTurns
  <2> QED BY <1>1, <1>3, <2>2, PromiseStep
<1>4. CASE HandlerAsks(s)
  <2>1. hpc[s] = "no" /\ hpc'[s] # "getting" /\ UNCHANGED <<lock, m_stop, thread>>
    BY <1>4, HandlerCallsAssumption
       DEF HandlerAsks, HandlerGoto, ReentryInv, HandlerOwns, vars, appVars, svcVars
  <2>2. HandlerGets' <=> HandlerGets
    BY <1>1, <2>1 DEF HandlerGets
  <2> QED BY <1>3, <2>1, <2>2
<1>5. CASE HandlerLocks(s)
  <2>1. lock = None /\ lock' = s /\ UNCHANGED <<m_stop, thread>> /\ hpc[s] # "getting" /\ hpc'[s] # "getting"
    <3>1. hpc[s] \in {"SetHandler", "Start", "Stop"} /\ hpc'[s] = Inside[hpc[s]]
      BY <1>5, HandlerCallsAssumption DEF HandlerLocks, HandlerGoto, ReentryInv, HandlerOwns
    <3>2. hpc[s] # "getting" /\ hpc'[s] # "getting"
      BY <3>1 DEF Inside
    <3> QED BY <1>5, <3>2 DEF HandlerLocks
  <2>2. ~HandlerGets
    BY <2>1 DEF HandlerGets, ReentryInv, HandlerOwns, InCall
  <2>3. ~HandlerGets'
    BY <1>1, <2>1, <2>2 DEF HandlerGets
  <2>4. Turns(FALSE)'
    BY <1>1, <2>1, <2>2
       DEF ReentryTurns, serverRest, Turns, Drained, OwnedByShell, Fresh, Errorless, ToldOrDied
  <2> QED BY <1>1, <2>1, <2>3, <2>4, PromiseStep DEF ReentryTurns
<1>6. CASE HandlerSets(s) \/ HandlerStarts(s)
  <2>1. /\ hpc[s] \in {"setHandler", "starting"} /\ UNCHANGED thread /\ hpc'[s] # "getting"
        /\ \/ UNCHANGED m_stop
           \/ hpc[s] = "starting" /\ ~m_instance_active /\ thread # "none" /\ m_stop' = FALSE
    BY <1>6 DEF HandlerSets, HandlerStarts, HandlerGoto, ReentryInv, HandlerOwns
  <2>2. UNCHANGED m_stop
    BY <1>2, <2>1 DEF ReentryInv, Control, Types, Flags
  <2>3. Turns(FALSE)'
    BY <1>1, <1>2, <2>1, <2>2
       DEF serverRest, Turns, Drained, OwnedByShell, Fresh, Errorless, ToldOrDied
  <2>4. ~HandlerGets'
    BY <1>2, <2>1
  <2> QED BY <1>1, <2>2, <2>3, <2>4, PromiseStep DEF ReentryTurns
<1>7. CASE HandlerStopSignal(s)
  <2>1. hpc[s] = "stopping" /\ hpc'[s] = "joining" /\ m_stop' = TRUE /\ UNCHANGED <<lock, thread>>
    BY <1>7 DEF HandlerStopSignal, HandlerGoto, ReentryInv, HandlerOwns
  <2>2. Turns(FALSE)' /\ ~HandlerGets'
    BY <1>1, <1>2, <2>1
       DEF serverRest, Turns, Drained, OwnedByShell, Fresh, Errorless, ToldOrDied
  <2>3. Promise!Tell
    BY <1>1, <2>1 DEF Promise!Tell
  <2> QED BY <2>2, <2>3, PromiseStep DEF ReentryTurns
<1>8. CASE HandlerStopJoin(s)
  <2>1. hpc[s] = "joining" /\ hpc'[s] = "getting" /\ thread' = "none" /\ UNCHANGED <<lock, m_stop>>
    BY <1>8 DEF HandlerStopJoin, HandlerGoto, ReentryInv, HandlerOwns
  <2>2. Turns(TRUE)' /\ HandlerGets'
    BY <1>1, <1>2, <2>1
       DEF serverRest, Turns, Drained, OwnedByShell, Fresh, Errorless, ToldOrDied
  <2> QED BY <1>1, <2>1, <2>2, PromiseStep DEF ReentryTurns
<1> QED BY <1>4, <1>5, <1>6, <1>7, <1>8 DEF HandlerStep

-----------------------------------------------------------------------------
(* The theorems *)

\* What both specifications keep
Safe == (\E j \in BOOLEAN : Control(j)) /\ Counted

LEMMA AlwaysSafe == Spec => []Safe
<1>1. Control(FALSE) /\ Counted /\ [Next]_vars => Control(FALSE)' /\ Counted'
  BY ControlService, ControlStutter, ControlShell, ControlApp,
     CountedService, CountedStutter, CountedShell, CountedApp DEF Next
<1>2. Control(FALSE) /\ Counted => Safe
  BY DEF Safe
<1> QED BY <1>1, <1>2, ControlInit, CountedInit, PTL DEF Spec

\* The invariant for handlers that call
LEMMA AlwaysReentryInv == ReentrySpec => []ReentryInv
<1>1. ReentryInit => ReentryInv
  <2>1. ReentryInit => ~HandlerJoins /\ HandlerOwns
    BY DEF ReentryInit, HandlerJoins, HandlerOwns, HandlerPCs, InCall
  <2> QED BY <2>1, ControlInit, CountedInit DEF ReentryInit, ReentryInv
<1>2. ReentryInv /\ [ReentryNext]_allVars => ReentryInv'
  BY ReentryShared, ReentryHandler
     DEF ReentryNext, allVars, Others, AppGoesOn, ShellGoesOn
<1> QED BY <1>1, <1>2, PTL DEF ReentrySpec

LEMMA AlwaysSafeReentry == ReentrySpec => []Safe
<1>1. ReentryInv => Safe
  BY DEF ReentryInv, Safe
<1> QED BY <1>1, AlwaysReentryInv, PTL

\* Every variable keeps its type: no more sockets are counted as closed than
\* were opened, and no more failures than allowed are counted.
THEOREM TypeCorrect == (Spec => []TypeOK) /\ (ReentrySpec => []TypeOK)
<1>1. Safe => TypeOK
  BY BusyFinite, Numbers DEF Safe, Control, Counted, Types, Flags, Places, TypeOK
<1> QED BY <1>1, AlwaysSafe, AlwaysSafeReentry, PTL

\* StopMe, which the application calls or a handler, reads m_clients only when
\* the service thread, which appends to it, has ended.
THEOREM NotShared == ReentrySpec => []ListNotShared
<1>1. Safe /\ HandlerJoined => ListNotShared
  BY DEF Safe, Control, Joined, HandlerJoined, ServiceRuns, ListNotShared
<1>2. ReentryInit => HandlerJoined
  BY DEF ReentryInit, HandlerJoined
<1>3. ReentryInv /\ HandlerJoined /\ [ReentryNext]_allVars => HandlerJoined'
  BY HandlerJoinedStays
<1> QED BY <1>1, <1>2, <1>3, AlwaysReentryInv, AlwaysSafeReentry, PTL DEF ReentrySpec

\* StopMe leaves no service thread, no future, no shell and no socket, for any
\* number of callers, connections and failures, and whatever handlers call.
THEOREM NothingLeft == (Spec => []StopLeavesNothing) /\ (ReentrySpec => []StopLeavesNothing)
<1>1. Safe => StopLeavesNothing
  <2> SUFFICES ASSUME Safe, NEW a \in Apps, apc[a] = "stopped"
               PROVE  /\ thread = "none" /\ svc = "off" /\ m_clients = {}
                      /\ \A s \in Shells : shells[s] = "none"
                      /\ g_sockets_cnt = 0
    BY DEF StopLeavesNothing
  <2>1. thread = "none" /\ svc = "off" /\ m_clients = {}
    BY DEF Safe, Control, Joined, Cleared, ServiceRuns
  <2>2. \A s \in Shells : shells[s] = "none"
    BY <2>1 DEF Safe, Control, Futures
  <2>3. Busy = {} /\ Listens = 0 /\ Accepted = 0
    BY <2>1, <2>2 DEF Safe, Busy, Listens, Accepted, Control, SockUntilDown
  <2> QED BY <2>1, <2>2, <2>3, FS_EmptySet DEF Safe, Counted
<1> QED BY <1>1, AlwaysSafe, AlwaysSafeReentry, PTL

\* Start, of the application or of a handler, assigns to a thread that was not
\* joined only after the service ended by itself: a running service is never
\* replaced.
THEOREM AssignsToTheDead ==
    (Spec => []AssignOnlyAfterDeath) /\ (ReentrySpec => []AssignOnlyAfterDeath)
<1>1. Safe => AssignOnlyAfterDeath
  BY DEF Safe, Control
<1> QED BY <1>1, AlwaysSafe, AlwaysSafeReentry, PTL

\* m_instance_active, which StartMe believes, is never set without a service
\* thread that runs.
THEOREM ActiveServed == (Spec => []ActiveIsServed) /\ (ReentrySpec => []ActiveIsServed)
<1>1. Safe => ActiveIsServed
  BY DEF Safe, Control, ActiveUntilEnd, ServiceRuns, ActiveIsServed
<1> QED BY <1>1, AlwaysSafe, AlwaysSafeReentry, PTL

\* One service at a time: whatever the application and its handlers call, and
\* whatever fails, a service listens, and the stop flag is lowered, only when
\* no shell of an earlier service is left; and a shell that is told to stop
\* begins no other request.
THEOREM ServesInTurn == (Spec => OneServiceAtATime) /\ (ReentrySpec => OneServiceAtATime)
<1>1. Spec => OneServiceAtATime
  <2> DEFINE Inv == Control(FALSE) /\ Turns(FALSE)
  <2>1. Init => Inv /\ Promise!Init
    BY ControlInit, TurnsInit, PromiseInit
  <2>2. Inv /\ [Next]_vars => Inv' /\ [Promise!Next]_Promise!vars
    <3> SUFFICES ASSUME Inv, [Next]_vars PROVE Inv' /\ [Promise!Next]_Promise!vars
      OBVIOUS
    <3>1. CASE UNCHANGED vars
      <4>1. UNCHANGED <<server_sock, m_stop, Seen>>
        BY <3>1 DEF vars, svcVars, Seen
      <4>2. Inv'
        BY <3>1, ControlStutter, TurnsKept DEF vars
      <4> QED BY <4>1, <4>2, PromiseStep
    <3>2. CASE Next
      BY <3>2, ControlService, ControlShell, ControlApp, TurnsService, TurnsShell, TurnsApp,
         PromiseService, PromiseShell, PromiseApp DEF Next
    <3> QED BY <3>1, <3>2
  <2> QED BY <2>1, <2>2, PTL DEF Spec, OneServiceAtATime, Promise!Spec
<1>2. ReentrySpec => OneServiceAtATime
  <2>1. ReentryInit => ReentryTurns /\ Promise!Init
    <3>1. ReentryInit => ~HandlerGets
      BY DEF ReentryInit, HandlerGets
    <3> QED BY <3>1, TurnsInit, PromiseInit DEF ReentryInit, ReentryTurns
  <2>2. ReentryInv /\ ReentryTurns /\ [ReentryNext]_allVars =>
          ReentryTurns' /\ [Promise!Next]_Promise!vars
    BY TurnsShared, TurnsHandler DEF ReentryNext, allVars, Others, AppGoesOn, ShellGoesOn
  <2> QED BY <2>1, <2>2, AlwaysReentryInv, PTL DEF ReentrySpec, OneServiceAtATime, Promise!Spec
<1> QED BY <1>1, <1>2

=============================================================================
