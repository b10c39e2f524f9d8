-------------------------- MODULE SocketFileProofs --------------------------
(***************************************************************************)
(* Type correctness of SocketFile and FileIsOwn, for any number of servers *)
(* and any bound on their failures.                                        *)
(***************************************************************************)
EXTENDS SocketFile, TLAPS

USE FileAssumption, FailuresAssumption

-----------------------------------------------------------------------------
(* The invariant *)

Types ==
    /\ pc \in [Servers -> PCs] /\ server_sock \in [Servers -> BOOLEAN]
    /\ m_stop \in [Servers -> BOOLEAN] /\ m_instance_active \in [Servers -> BOOLEAN]
    /\ err_cnt_start \in [Servers -> Nat]
    /\ file \in Servers \cup {NoFile, Stale}
    /\ failures \in 0 .. MaxFailures /\ alone \in [Servers -> BOOLEAN]

Opening == {"open", "unlink", "bind", "listen"}

\* A service opens a socket only while it has failures left
Errors(s) ==
    /\ err_cnt_start[s] <= MaxErrors + 1
    /\ pc[s] \in Opening => err_cnt_start[s] <= MaxErrors

\* Where a service has a socket that listens
SockUntilClose(s) == server_sock[s] => pc[s] \in {"top", "serve", "close"}

\* No other server runs beside one that is alone
OthersDown(s) == \A o \in Servers \ {s} : pc[o] \in Down

\* What a server that is alone has made of the file
Owned(s) ==
    /\ pc[s] \in {"bind", "inactive"} => file = NoFile
    /\ pc[s] \in {"listen", "serve"} \/ server_sock[s] => file = s

Inv ==
    /\ Types
    /\ \A s \in Servers :
         Errors(s) /\ SockUntilClose(s) /\ (alone[s] => OthersDown(s) /\ Owned(s))

-----------------------------------------------------------------------------
(* One step *)

LEMMA InvInit == Init => Inv
BY DEF Init, Inv, Types, PCs, Down, Errors, Opening, SockUntilClose, OthersDown, Owned

\* What a server does to its own place, and what it leaves to the others: a
\* server that is down can only be started
LEMMA Others ==
    ASSUME Types, NEW s \in Servers, Start(s) \/ Stop(s) \/ Kill(s) \/ ServiceStep(s)
    PROVE  /\ \A o \in Servers \ {s} :
                /\ pc'[o] = pc[o] /\ server_sock'[o] = server_sock[o]
                /\ err_cnt_start'[o] = err_cnt_start[o]
           /\ pc[s] \in Down => Start(s) \/ Stop(s)
           /\ ~Start(s) => alone' = alone
<1> USE DEF Types
<1>1. CASE Start(s) \/ Stop(s) \/ Kill(s)
  BY <1>1 DEF Start, Stop, Kill, Goto
<1>2. CASE ServiceStep(s)
  BY <1>2 DEF ServiceStep, ServiceTop, socket_open, socket_bind_unlink, socket_bind, socket_listen,
              ServiceServe, ServiceClose, ServiceUnlink, ServiceInactive, MayFail, InitFails, Goto,
              Down
<1> QED BY <1>1, <1>2

LEMMA ClosedType ==
    ASSUME NEW s \in Servers, Types PROVE Closed(s) \in Servers \cup {NoFile, Stale}
BY DEF Closed, Types

\* The parts of the invariant that are about the server that makes the step
Own(s) == Errors(s) /\ SockUntilClose(s) /\ (alone[s] => Owned(s))

LEMMA TypesStep ==
    ASSUME Inv, NEW s \in Servers, Start(s) \/ Stop(s) \/ Kill(s) \/ ServiceStep(s)
    PROVE  Types'
<1> USE ClosedType DEF Inv, Types, PCs, Down, Goto
<1>1. CASE Start(s)
  <2>1. alone' \in [Servers -> BOOLEAN]
    BY <1>1, Zenon DEF Start
  <2> QED BY <1>1, <2>1 DEF Start
<1>2. CASE Stop(s)
  BY <1>2 DEF Stop
<1>8. CASE Kill(s)
  BY <1>8 DEF Kill
<1>3. CASE ServiceTop(s)
  BY <1>3 DEF ServiceTop
<1>4. CASE ServiceServe(s)
  <2>1. failures' \in 0 .. MaxFailures /\ pc' \in [Servers -> PCs]
    BY <1>4 DEF ServiceServe
  <2> QED BY <1>4, <2>1 DEF ServiceServe
<1>5. CASE ServiceClose(s)
  BY <1>5 DEF ServiceClose
<1>6. CASE socket_bind_unlink(s) \/ ServiceUnlink(s) \/ ServiceInactive(s)
  BY <1>6 DEF socket_bind_unlink, ServiceUnlink, ServiceInactive
<1>7. CASE socket_open(s) \/ socket_bind(s) \/ socket_listen(s)
  BY <1>7 DEF socket_open, socket_bind, socket_listen, MayFail, InitFails
<1> QED BY <1>1, <1>2, <1>3, <1>4, <1>5, <1>6, <1>7, <1>8 DEF ServiceStep

LEMMA OwnStep ==
    ASSUME Inv, NEW s \in Servers, Start(s) \/ Stop(s) \/ Kill(s) \/ ServiceStep(s)
    PROVE  Own(s)'
<1>0. Types /\ Own(s)
  BY DEF Inv, Own
<1> USE <1>0 DEF Types, Own, Errors, SockUntilClose, Owned, Opening, Goto
<1>1. CASE Start(s) \/ Stop(s) \/ Kill(s)
  BY <1>1 DEF Start, Stop, Kill, Down
<1>2. CASE ServiceTop(s)
  BY <1>2 DEF ServiceTop
<1>3. CASE ServiceServe(s) \/ ServiceClose(s)
  BY <1>3 DEF ServiceServe, ServiceClose
<1>4. CASE socket_bind_unlink(s) \/ ServiceUnlink(s) \/ ServiceInactive(s)
  BY <1>4 DEF socket_bind_unlink, ServiceUnlink, ServiceInactive
<1>5. CASE socket_open(s) \/ socket_bind(s) \/ socket_listen(s)
  BY <1>5 DEF socket_open, socket_bind, socket_listen, MayFail, InitFails
<1> QED BY <1>1, <1>2, <1>3, <1>4, <1>5 DEF ServiceStep

\* A server that is alone stays so, with its file, until another one starts
LEMMA AloneStep ==
    ASSUME Inv, NEW s \in Servers, Start(s) \/ Stop(s) \/ Kill(s) \/ ServiceStep(s),
           NEW o \in Servers, alone'[o]
    PROVE  OthersDown(o)' /\ Owned(o)'
<1>1. CASE Start(s)
  <2>1. o = s /\ \A p \in Servers \ {s} : pc[p] \in Down
    BY <1>1 DEF Start
  <2> QED BY <2>1, Others, OwnStep DEF Inv, OthersDown, Own
<1>2. CASE ~Start(s)
  <2>1. alone[o] /\ OthersDown(o) /\ Owned(o)
    BY <1>2, Others DEF Inv
  <2>2. CASE o = s
    BY <2>1, <2>2, Others, OwnStep DEF Inv, OthersDown, Own
  <2>3. CASE o # s
    <3>1. Stop(s)
      BY <1>2, <2>1, <2>3, Others DEF Inv, OthersDown
    <3> QED BY <2>1, <3>1 DEF Stop, OthersDown, Owned
  <2> QED BY <2>2, <2>3
<1> QED BY <1>1, <1>2

LEMMA InvStep == Inv /\ [Next]_vars => Inv'
<1> SUFFICES ASSUME Inv, [Next]_vars PROVE Inv'
  OBVIOUS
<1>1. CASE UNCHANGED vars
  BY <1>1 DEF vars, Inv, Types, Errors, SockUntilClose, OthersDown, Owned
<1>2. ASSUME NEW s \in Servers, Start(s) \/ Stop(s) \/ Kill(s) \/ ServiceStep(s) PROVE Inv'
  <2>1. ASSUME NEW o \in Servers PROVE Errors(o)' /\ SockUntilClose(o)'
    <3>1. CASE o = s
      BY <1>2, <3>1, OwnStep DEF Own
    <3>2. CASE o # s
      BY <1>2, <3>2, Others DEF Inv, Errors, SockUntilClose
    <3> QED BY <3>1, <3>2
  <2> QED BY <1>2, <2>1, TypesStep, AloneStep DEF Inv
<1> QED BY <1>1, <1>2 DEF Next

-----------------------------------------------------------------------------
(* The theorems *)

\* Every state has its types: a service tries to get its socket at most
\* SOCK_MAX_ERRORS_CNT + 1 times in a row.
THEOREM TypeCorrect == Spec => []TypeOK
<1>1. Inv => TypeOK
  <2> SUFFICES ASSUME Inv PROVE err_cnt_start \in [Servers -> 0 .. MaxErrors + 1]
    BY DEF Inv, Types, TypeOK
  <2>1. \A s \in Servers : err_cnt_start[s] \in 0 .. MaxErrors + 1
    <3> TAKE s \in Servers
    <3>1. err_cnt_start[s] \in Nat
      BY DEF Inv, Types
    <3>2. err_cnt_start[s] <= MaxErrors + 1
      BY DEF Inv, Errors
    <3> QED BY <3>1, <3>2
  <2> QED BY <2>1 DEF Inv, Types
<1> QED BY <1>1, InvInit, InvStep, PTL DEF Spec

\* A server that never ran beside another one is found by its file while it
\* listens, over whatever file killed servers left, and its ordered end leaves
\* none: whatever fails, is stopped, killed and started again before.
THEOREM OwnFile == Spec => []FileIsOwn
<1>1. Inv => FileIsOwn
  BY DEF Inv, Owned, FileIsOwn
<1> QED BY <1>1, InvInit, InvStep, PTL DEF Spec

=============================================================================
