----------------------- MODULE SockTransactionProofs -----------------------
(* Theorems about SockTransaction, for every value of its constants *)
EXTENDS SockTransaction, FiniteSetTheorems, TLAPS

USE ConnsAssumption, MaxOpsAssumption DEF Ops

-----------------------------------------------------------------------------
(* Units and streams *)

LEMMA PrefixType ==
    ASSUME NEW cmd \in Cmds, NEW id \in Ops, NEW len \in {0, 1}
    PROVE  Prefix(cmd, id, len) \in Prefixes /\ Prefix(cmd, id, len) \in Units
BY DEF Prefix, Prefixes, Units

LEMMA PayloadType == ASSUME NEW id \in Ops PROVE Payload(id) \in Units
BY DEF Payload, Units

LEMMA NoPrefixType == NoPrefix \in Prefixes
BY DEF NoPrefix, Prefix, Prefixes, Cmds

LEMMA UnitType ==
    ASSUME NEW u \in Units
    PROVE  /\ IsPrefix(u) => u \in Prefixes
           /\ u.id \in Ops
BY DEF Units, Prefixes, IsPrefix, Cmds

LEMMA NewTrType ==
    NewTr \in [state : ConnStates, inp : Prefixes, pay : Ops, out : Prefixes]
BY NoPrefixType DEF NewTr, ConnStates

LEMMA TakeType ==
    ASSUME NEW q \in [Conns -> Seq(Units)], NEW c \in Conns, q[c] # <<>>
    PROVE  /\ Head(q[c]) \in Units
           /\ [q EXCEPT ![c] = Tail(@)] \in [Conns -> Seq(Units)]
OBVIOUS

LEMMA PutType ==
    ASSUME NEW q \in [Conns -> Seq(Units)], NEW c \in Conns, NEW u \in Units
    PROVE  [q EXCEPT ![c] = Append(@, u)] \in [Conns -> Seq(Units)]
OBVIOUS

LEMMA BumpType ==
    ASSUME NEW f \in [Ops -> Nat], NEW o \in Ops
    PROVE  [f EXCEPT ![o] = @ + 1] \in [Ops -> Nat]
OBVIOUS

-----------------------------------------------------------------------------
(* Type correctness, by the part of the state *)

Trs == [state : ConnStates, inp : Prefixes, pay : Ops, out : Prefixes]

LEMMA StageType ==
    ASSUME TypeOK, NEW c \in Conns, NEW t \in Trs, NEW res \in ConnStates,
           NEW pc \in ShellPCs, Stage(c, t, res, pc)
    PROVE  spc' \in [Conns -> ShellPCs] /\ tr' \in [Conns -> Trs]
<1>1. NoPrefix \in Prefixes
  BY NoPrefixType
<1>2. Reset(t) \in Trs
  <2>1. [t.out EXCEPT !.len = 0] \in Prefixes
    BY DEF Trs, Prefixes
  <2> QED BY <1>1, <2>1 DEF Reset, Trs, ConnStates
<1>3. [Reset(t) EXCEPT !.state = res] \in Trs
  BY <1>2 DEF Trs
<1>4. "close" \in ShellPCs
  BY DEF ShellPCs
<1> QED BY <1>2, <1>3, <1>4 DEF Stage, TypeOK, Trs

LEMMA SocketCloseType ==
    ASSUME TypeOK, socket_close
    PROVE  /\ m_sock' \in Conns \cup {NoSock} /\ copen' \subseteq Conns
           /\ down' \in [Conns -> Seq(Units)] /\ g_sockets_cnt' \in Int
BY DEF TypeOK, socket_close

LEMMA ConnectType ==
    ASSUME TypeOK, NEW res \in {"OK", "OPEN", "CONNECT"}, connect(res)
    PROVE  /\ m_sock' \in Conns \cup {NoSock} /\ copen' \subseteq Conns
           /\ down' \in [Conns -> Seq(Units)] /\ up' \in [Conns -> Seq(Units)]
           /\ g_sockets_cnt' \in Int /\ spc' \in [Conns -> ShellPCs]
           /\ tainted' \subseteq Conns
<1>1. CASE \E c \in FreeConns : ConnectOn(c, res)
  <2>1. PICK c \in Conns : ConnectOn(c, res)
    BY <1>1 DEF FreeConns
  <2>2. {"backlog", "refused"} \subseteq ShellPCs
    BY DEF ShellPCs
  <2>3. <<>> \in Seq(Units)
    OBVIOUS
  <2> QED BY <2>1, <2>2, <2>3 DEF ConnectOn, TypeOK
<1>2. CASE socket_close /\ UNCHANGED <<up, spc, tainted>>
  BY <1>2, SocketCloseType DEF TypeOK
<1> QED BY <1>1, <1>2 DEF connect

LEMMA ClientTxType ==
    ASSUME TypeOK, NEW u \in Units, NEW res, ClientTx(u, res)
    PROVE  up' \in [Conns -> Seq(Units)]
<1>1. CASE UNCHANGED up
  BY <1>1 DEF TypeOK
<1>2. CASE m_sock \in Conns /\ up' = [up EXCEPT ![m_sock] = Append(@, u)]
  BY <1>2, PutType DEF TypeOK
<1> QED BY <1>1, <1>2 DEF TypeOK, ClientTx, Peer

LEMMA ShellTxType ==
    ASSUME TypeOK, NEW c \in Conns, NEW u \in Units, NEW res, ShellTx(c, u, res)
    PROVE  down' \in [Conns -> Seq(Units)]
<1>1. CASE UNCHANGED down
  BY <1>1 DEF TypeOK
<1>2. CASE down' = [down EXCEPT ![c] = Append(@, u)]
  BY <1>2, PutType DEF TypeOK
<1> QED BY <1>1, <1>2 DEF ShellTx

\* While an exchange is under way, m_sock has a stream to receive from
LEMMA ClientTakesType ==
    ASSUME TypeOK, NEW u, ClientTakes(u), m_sock \in Conns
    PROVE  u \in Units /\ down' \in [Conns -> Seq(Units)]
BY TakeType DEF TypeOK, ClientTakes

LEMMA ShellTakesType ==
    ASSUME TypeOK, NEW c \in Conns, NEW u, ShellTakes(c, u)
    PROVE  u \in Units /\ up' \in [Conns -> Seq(Units)]
BY TakeType DEF TypeOK, ShellTakes

-----------------------------------------------------------------------------
(* The client has a socket wherever it receives *)

SockHeld == cpc \in {"txPay", "rxHdr", "rxHdrLoop", "rxPay", "rxPayLoop"} => m_sock \in Conns

Typing == TypeOK /\ SockHeld

LEMMA TypingInit == Init => Typing
<1> SUFFICES ASSUME Init PROVE Typing
  OBVIOUS
<1>1. TypeOK
  <2>1. <<>> \in Seq(Units) /\ 0 \in Ops
    OBVIOUS
  <2>2. [c \in Conns |-> <<>>] \in [Conns -> Seq(Units)]
    BY <2>1
  <2>3. [c \in Conns |-> "done"] \in [Conns -> ShellPCs]
    BY DEF ShellPCs
  <2>4. [c \in Conns |-> NewTr] \in [Conns -> Trs]
    BY NewTrType DEF Trs
  <2>5. /\ up \in [Conns -> Seq(Units)] /\ down \in [Conns -> Seq(Units)]
        /\ spc \in [Conns -> ShellPCs] /\ tr \in [Conns -> Trs] /\ got \in Prefixes
    BY <2>2, <2>3, <2>4, NoPrefixType DEF Init
  <2>6. /\ cpc \in ClientPCs /\ state \in ConnStates /\ call \in {"TRANSACTION", "SYNC"}
        /\ op \in Ops /\ outLen \in {0, 1} /\ pay \in Ops
        /\ m_sock \in Conns \cup {NoSock} /\ copen \subseteq Conns /\ tainted \subseteq Conns
        /\ g_sockets_cnt \in Int
    BY DEF Init, ClientPCs, ConnStates
  <2>8. listening \in BOOLEAN /\ m_stop \in BOOLEAN
    BY DEF Init
  <2>7. attempts \in [Ops -> 0 .. 2] /\ execs \in [Ops -> Nat]
    BY DEF Init
  <2> QED
    BY <2>5, <2>6, <2>7, <2>8 DEF TypeOK, Trs
<1>2. SockHeld
  BY DEF Init, SockHeld
<1> QED BY <1>1, <1>2 DEF Typing

\* What an action of the application or of the client leaves to be shown
ClientTyped ==
    /\ cpc' \in ClientPCs /\ call' \in {"TRANSACTION", "SYNC"}
    /\ op' \in Ops /\ outLen' \in {0, 1} /\ state' \in ConnStates
    /\ got' \in Prefixes /\ pay' \in Ops /\ attempts' \in [Ops -> 0 .. 2]
    /\ m_sock' \in Conns \cup {NoSock} /\ g_sockets_cnt' \in Int

NetworkTyped ==
    /\ up' \in [Conns -> Seq(Units)] /\ down' \in [Conns -> Seq(Units)]
    /\ copen' \subseteq Conns /\ tainted' \subseteq Conns

ServerTyped ==
    /\ listening' \in BOOLEAN /\ m_stop' \in BOOLEAN
    /\ spc' \in [Conns -> ShellPCs] /\ tr' \in [Conns -> Trs]
    /\ execs' \in [Ops -> Nat]

LEMMA TypeOKParts == ClientTyped /\ NetworkTyped /\ ServerTyped => TypeOK'
BY DEF ClientTyped, NetworkTyped, ServerTyped, TypeOK, Trs

LEMMA TypingAppCall == Typing /\ AppCall => Typing'
<1> SUFFICES ASSUME Typing, AppCall PROVE Typing'
  OBVIOUS
<1> USE DEF Typing, ClientPCs
<1>1. CASE Connect
  <2>1. ClientTyped /\ NetworkTyped /\ ServerTyped
    BY <1>1, ConnectType DEF Connect, client, ClientTyped, NetworkTyped, ServerTyped, TypeOK, Trs
  <2>2. SockHeld'
    BY <1>1 DEF Connect, client, SockHeld
  <2> QED BY <2>1, <2>2, TypeOKParts
<1>2. CASE Close
  <2>1. ClientTyped /\ NetworkTyped /\ ServerTyped
    BY <1>2, SocketCloseType
       DEF Close, client, server, ClientTyped, NetworkTyped, ServerTyped, TypeOK, Trs
  <2>2. SockHeld'
    BY <1>2 DEF Close, client, SockHeld
  <2> QED BY <2>1, <2>2, TypeOKParts
<1>3. ASSUME NEW kind \in {"TRANSACTION", "SYNC"}, NEW len \in {0, 1}, Begin(kind, len)
      PROVE  Typing'
  <2>1. ClientTyped /\ NetworkTyped /\ ServerTyped
    BY <1>3 DEF Begin, network, server, ClientTyped, NetworkTyped, ServerTyped, TypeOK, Trs
  <2>2. SockHeld'
    BY <1>3 DEF Begin, SockHeld
  <2> QED BY <2>1, <2>2, TypeOKParts
<1> QED BY <1>1, <1>2, <1>3 DEF AppCall, StartTransaction, StartSync

\* The frames a call exchanges
LEMMA GoType ==
    ASSUME NEW res \in ConnStates, NEW pc \in ClientPCs, Go(res, pc)
    PROVE  state' \in ConnStates /\ cpc' \in {pc, "end"} /\ cpc' \in ClientPCs
BY DEF Go, ClientPCs

LEMMA TypingClientStep == Typing /\ ClientStep => Typing'
<1> SUFFICES ASSUME Typing, ClientStep PROVE Typing'
  OBVIOUS
<1> USE DEF Typing, ClientPCs, ConnStates
<1>1. CASE SendPrefix
  <2>1. PICK res \in {"OK", "TX"} :
           /\ ClientTx(Prefix("REQUEST", op, outLen), res)
           /\ Go(res, IF outLen = 0 THEN "rxHdr" ELSE "txPay")
    BY <1>1 DEF SendPrefix
  <2>2. Prefix("REQUEST", op, outLen) \in Units
    BY PrefixType DEF TypeOK, Cmds
  <2>3. up' \in [Conns -> Seq(Units)]
    BY <2>1, <2>2, ClientTxType
  <2>4. ClientTyped /\ NetworkTyped /\ ServerTyped
    BY <1>1, <2>1, <2>3
       DEF SendPrefix, Go, server, ClientTyped, NetworkTyped, ServerTyped, TypeOK, Trs
  <2>5. SockHeld'
    BY <1>1, <2>1 DEF SendPrefix, Go, ClientTx, Peer, SockHeld, TypeOK
  <2> QED BY <2>4, <2>5, TypeOKParts
<1>2. CASE SendPayload
  <2>1. PICK res \in {"OK", "TX"} : ClientTx(Payload(op), res) /\ Go(res, "rxHdr")
    BY <1>2 DEF SendPayload
  <2>2. up' \in [Conns -> Seq(Units)]
    BY <2>1, PayloadType, ClientTxType DEF TypeOK
  <2>3. ClientTyped /\ NetworkTyped /\ ServerTyped
    BY <1>2, <2>1, <2>2
       DEF SendPayload, Go, server, ClientTyped, NetworkTyped, ServerTyped, TypeOK, Trs
  <2>4. SockHeld'
    BY <1>2, <2>1 DEF SendPayload, SockHeld
  <2> QED BY <2>3, <2>4, TypeOKParts
<1>3. CASE FrameRxEntry
  <2>1. ClientTyped /\ NetworkTyped /\ ServerTyped
    BY <1>3 DEF FrameRxEntry, Go, network, server, ClientTyped, NetworkTyped, ServerTyped, TypeOK, Trs
  <2>2. SockHeld'
    BY <1>3 DEF FrameRxEntry, SockHeld
  <2> QED BY <2>1, <2>2, TypeOKParts
<1>4. CASE RecvHeader
  <2>1. m_sock \in Conns
    BY <1>4 DEF RecvHeader, SockHeld
  <2> DEFINE u == Head(down[m_sock])
  <2>2. ClientTakes(u) => u \in Units /\ down' \in [Conns -> Seq(Units)]
    BY <2>1, ClientTakesType
  <2>3. /\ down' \in [Conns -> Seq(Units)] /\ got' \in Prefixes
        /\ state' \in ConnStates /\ cpc' \in ClientPCs /\ tainted' \subseteq Conns
    <3> HIDE DEF u
    <3>1. CASE ClientTakes(u) /\ UNCHANGED tainted
               /\ \/ IsPrefix(u) /\ got' = u /\ Go("OK", "rxPay")
                  \/ IsPrefix(u) /\ u.len = 1 /\ "ALLOC" \in Faults
                     /\ got' = u /\ Go("GENERAL", "end")
                  \/ ~IsPrefix(u) /\ got' = got /\ Go("SYNC", "end")
      BY <3>1, <2>2, UnitType DEF Go, TypeOK
    <3>2. CASE /\ \E res \in {"CLOSED", "RX", "TIMEOUT"} : ClientRxFails(res) /\ Go(res, "end")
               /\ UNCHANGED <<got, tainted>>
      BY <3>2 DEF ClientRxFails, Go, TypeOK
    <3>3. CASE /\ Go("SYNC", "end") \/ (got # NoPrefix /\ Go("OK", "rxPay"))
               /\ tainted' = tainted \cup {m_sock}
               /\ UNCHANGED <<got, down>>
      BY <3>3, <2>1 DEF Go, TypeOK
    <3> QED BY <1>4, <3>1, <3>2, <3>3 DEF RecvHeader, u
  <2>4. ClientTyped /\ NetworkTyped /\ ServerTyped
    BY <1>4, <2>3
       DEF RecvHeader, server, ClientTyped, NetworkTyped, ServerTyped, TypeOK, Trs
  <2>5. SockHeld'
    BY <1>4, <2>1 DEF RecvHeader, SockHeld
  <2> QED BY <2>4, <2>5, TypeOKParts
<1>5. CASE RecvPayload
  <2>1. m_sock \in Conns
    BY <1>5 DEF RecvPayload, SockHeld
  <2> DEFINE u == Head(down[m_sock])
  <2>2. ClientTakes(u) => u \in Units /\ down' \in [Conns -> Seq(Units)]
    BY <2>1, ClientTakesType
  <2>3. /\ down' \in [Conns -> Seq(Units)] /\ pay' \in Ops
        /\ state' \in ConnStates /\ cpc' = "end" /\ tainted' \subseteq Conns
    <3> HIDE DEF u
    <3>1. CASE /\ ClientTakes(u) /\ UNCHANGED tainted /\ Go("OK", "end")
               /\ pay' = IF IsPrefix(u) THEN 0 ELSE u.id
      BY <3>1, <2>2, UnitType DEF Go, TypeOK
    <3>2. CASE /\ \E res \in {"CLOSED", "RX", "TIMEOUT"} : ClientRxFails(res) /\ Go(res, "end")
               /\ UNCHANGED <<pay, tainted>>
      BY <3>2 DEF ClientRxFails, Go, TypeOK
    <3>3. CASE /\ Go("OK", "end") /\ tainted' = tainted \cup {m_sock}
               /\ UNCHANGED <<pay, down>>
      BY <3>3, <2>1 DEF Go, TypeOK
    <3> QED BY <1>5, <3>1, <3>2, <3>3 DEF RecvPayload, u
  <2>4. ClientTyped /\ NetworkTyped /\ ServerTyped
    BY <1>5, <2>3
       DEF RecvPayload, server, ClientTyped, NetworkTyped, ServerTyped, TypeOK, Trs
  <2>5. SockHeld'
    BY <2>3 DEF SockHeld
  <2> QED BY <2>4, <2>5, TypeOKParts
<1>6. CASE Reconnect
  <2>1. PICK res \in {"OK", "OPEN", "CONNECT"} : connect(res) /\ Go(res, "txHdr")
    BY <1>6 DEF Reconnect
  <2>2. ClientTyped /\ NetworkTyped /\ ServerTyped
    <3>1. /\ m_sock' \in Conns \cup {NoSock} /\ copen' \subseteq Conns
          /\ down' \in [Conns -> Seq(Units)] /\ up' \in [Conns -> Seq(Units)]
          /\ g_sockets_cnt' \in Int /\ spc' \in [Conns -> ShellPCs]
          /\ tainted' \subseteq Conns
      BY <2>1, ConnectType
    <3>2. state' \in ConnStates /\ cpc' \in ClientPCs
      BY <2>1 DEF Go
    <3>3. attempts' \in [Ops -> 0 .. 2]
      BY <1>6 DEF Reconnect, Retries, TypeOK
    <3> QED
      BY <1>6, <3>1, <3>2, <3>3
         DEF Reconnect, ClientTyped, NetworkTyped, ServerTyped, TypeOK, Trs
  <2>3. SockHeld'
    BY <2>1 DEF Go, SockHeld
  <2> QED BY <2>2, <2>3, TypeOKParts
<1>7. CASE TransactionEnd
  <2>1. ClientTyped /\ NetworkTyped /\ ServerTyped
    <3>1. /\ m_sock' \in Conns \cup {NoSock} /\ copen' \subseteq Conns
          /\ down' \in [Conns -> Seq(Units)] /\ g_sockets_cnt' \in Int
      BY <1>7, SocketCloseType DEF TransactionEnd, TypeOK
    <3>2. ClientTyped
      BY <1>7, <3>1, NoPrefixType DEF TransactionEnd, Return, ClientTyped, TypeOK
    <3>3. NetworkTyped /\ ServerTyped
      <4>1. UNCHANGED <<up, server, execs>>
        BY <1>7 DEF TransactionEnd, Return
      <4> QED BY <1>7, <3>1, <4>1 DEF TransactionEnd, server, NetworkTyped, ServerTyped, TypeOK, Trs
    <3> QED BY <3>2, <3>3
  <2>2. SockHeld'
    BY <1>7 DEF TransactionEnd, Return, SockHeld
  <2> QED BY <2>1, <2>2, TypeOKParts
<1>8. CASE SyncSend
  <2>1. PICK res \in {"OK", "TX"} :
           /\ ClientTx(Prefix("PING_REQUEST", op, 0), res)
           /\ \/ /\ res = "OK" /\ Go("OK", "rxHdrLoop")
                 /\ UNCHANGED <<call, op, outLen, got, pay, attempts, tainted>>
              \/ res = "TX" /\ SyncEnd(FALSE)
    BY <1>8 DEF SyncSend
  <2>2. up' \in [Conns -> Seq(Units)]
    BY <2>1, PrefixType, ClientTxType DEF TypeOK, Cmds
  <2>3. ClientTyped /\ NetworkTyped /\ ServerTyped
    <3>1. ClientTyped /\ tainted' \subseteq Conns
      <4>1. CASE Go("OK", "rxHdrLoop") /\ UNCHANGED <<call, op, outLen, got, pay, attempts, tainted>>
        BY <1>8, <4>1 DEF SyncSend, Go, ClientTyped, TypeOK
      <4>2. CASE SyncEnd(FALSE)
        BY <1>8, <4>2, NoPrefixType DEF SyncSend, SyncEnd, Return, ClientTyped, TypeOK
      <4> QED BY <2>1, <4>1, <4>2
    <3> QED
      BY <1>8, <2>2, <3>1 DEF SyncSend, server, NetworkTyped, ServerTyped, TypeOK, Trs
  <2>4. SockHeld'
    BY <1>8, <2>1 DEF SyncSend, SyncEnd, Return, Go, ClientTx, Peer, SockHeld, TypeOK
  <2> QED BY <2>3, <2>4, TypeOKParts
<1>9. CASE SyncRecv
  <2>1. m_sock \in Conns
    BY <1>9 DEF SyncRecv, SockHeld
  <2>2. PICK ok \in BOOLEAN : SyncEnd(ok)
    BY <1>9 DEF SyncRecv
  <2>3. down' \in [Conns -> Seq(Units)]
    BY <1>9, <2>1, ClientTakesType DEF SyncRecv, ClientRxFails, TypeOK
  <2>4. ClientTyped /\ NetworkTyped /\ ServerTyped
    BY <1>9, <2>1, <2>2, <2>3, NoPrefixType
       DEF SyncRecv, SyncEnd, Return, server, ClientTyped, NetworkTyped, ServerTyped,
           TypeOK, Trs
  <2>5. SockHeld'
    BY <2>2 DEF SyncEnd, Return, SockHeld
  <2> QED BY <2>4, <2>5, TypeOKParts
<1> QED
  BY <1>1, <1>2, <1>3, <1>4, <1>5, <1>6, <1>7, <1>8, <1>9 DEF ClientStep

LEMMA TypingShellStep ==
    ASSUME Typing, NEW c \in Conns, ShellStep(c) \/ HandlerReturns(c)
    PROVE  Typing'
<1> USE DEF Typing, TypeOK
<1>0. tr[c] \in Trs /\ tr[c].inp \in Prefixes /\ tr[c].pay \in Ops /\ tr[c].out \in Prefixes
  BY DEF Trs
<1>1. CASE UNCHANGED <<client, m_sock, network, listening, m_stop, tr, g_sockets_cnt,
                       execs, tainted>>
           /\ spc' \in [Conns -> ShellPCs]
  BY <1>1 DEF client, network, SockHeld, Trs
<1> DEFINE Staged == spc' \in [Conns -> ShellPCs] /\ tr' \in [Conns -> Trs]
<1>2. ASSUME NEW t \in Trs, NEW res \in ConnStates, NEW pc \in ShellPCs, Stage(c, t, res, pc)
      PROVE  Staged
  BY <1>2, StageType
<1>3. ASSUME Staged, up' \in [Conns -> Seq(Units)], down' \in [Conns -> Seq(Units)],
             tainted' \subseteq Conns, execs' \in [Ops -> Nat],
             UNCHANGED <<client, m_sock, copen, listening, m_stop, g_sockets_cnt>>
      PROVE  Typing'
  BY <1>3 DEF client, SockHeld, Trs
<1> USE DEF ConnStates, ShellPCs
<1>4. CASE ShellTop(c)
  BY <1>1, <1>4 DEF ShellTop
<1>5. CASE FrameWait(c)
  BY <1>1, <1>5 DEF FrameWait
<1> HIDE DEF Staged
<1>6. CASE ShellRxEntry(c)
  <2>1. Staged
    BY <1>0, <1>2, <1>6 DEF ShellRxEntry
  <2> QED BY <2>1, <1>3, <1>6 DEF ShellRxEntry, network
<1>7. CASE ShellReadPrefix(c)
  <2> DEFINE u == Head(up[c])
  <2>1. CASE /\ ShellTakes(c, u)
             /\ \/ IsPrefix(u) /\ Stage(c, [tr[c] EXCEPT !.inp = u], "OK", "rxPay")
                \/ IsPrefix(u) /\ u.len = 1 /\ "ALLOC" \in Faults
                   /\ Stage(c, tr[c], "GENERAL", "close")
                \/ ~IsPrefix(u) /\ Stage(c, tr[c], "SYNC", "close")
    <3> HIDE DEF u
    <3>1. u \in Units /\ up' \in [Conns -> Seq(Units)]
      BY <2>1, ShellTakesType
    <3>2. IsPrefix(u) => [tr[c] EXCEPT !.inp = u] \in Trs
      BY <1>0, <3>1, UnitType DEF Trs
    <3>3. Staged
      BY <1>0, <1>2, <2>1, <3>2
    <3> QED BY <1>3, <1>7, <3>1, <3>3 DEF ShellReadPrefix
  <2>2. CASE UNCHANGED up /\ \E res \in {"CLOSED", "RX", "TIMEOUT", "SYNC"} :
                               Stage(c, tr[c], res, "close")
    <3>1. Staged
      BY <1>0, <1>2, <2>2
    <3> QED BY <1>3, <1>7, <2>2, <3>1 DEF ShellReadPrefix
  <2> QED BY <1>7, <2>1, <2>2 DEF ShellReadPrefix, ShellRxFails
<1>8. CASE ShellReadPayload(c)
  <2> DEFINE u == Head(up[c])
  <2>1. CASE ShellTakes(c, u) /\ Stage(c, [tr[c] EXCEPT !.pay = u.id], "OK", "exec")
             /\ UNCHANGED tainted
    <3> HIDE DEF u
    <3>1. u \in Units /\ up' \in [Conns -> Seq(Units)]
      BY <2>1, ShellTakesType
    <3>2. [tr[c] EXCEPT !.pay = u.id] \in Trs
      BY <1>0, <3>1, UnitType DEF Trs
    <3>3. Staged
      BY <1>2, <2>1, <3>2
    <3> QED BY <1>3, <1>8, <2>1, <3>1, <3>3 DEF ShellReadPayload
  <2>2. CASE /\ UNCHANGED up /\ tainted' \subseteq Conns
             /\ \/ \E res \in {"CLOSED", "RX", "TIMEOUT"} : Stage(c, tr[c], res, "close")
                \/ Stage(c, tr[c], "OK", "exec")
    <3>1. Staged
      BY <1>0, <1>2, <2>2
    <3> QED BY <1>3, <1>8, <2>2, <3>1 DEF ShellReadPayload
  <2> QED BY <1>8, <2>1, <2>2 DEF ShellReadPayload, ShellRxFails
<1>9. CASE ShellCmdExec(c)
  <2>1. [tr[c] EXCEPT !.out = Prefix("PING_RESPONSE", tr[c].inp.id, 0)] \in Trs
    <3>1. tr[c].inp.id \in Ops
      BY <1>0 DEF Prefixes
    <3>2. Prefix("PING_RESPONSE", tr[c].inp.id, 0) \in Prefixes
      BY <3>1, PrefixType DEF Cmds
    <3> QED BY <1>0, <3>2 DEF Trs
  <2>2. Staged
    BY <1>0, <1>2, <1>9, <2>1 DEF ShellCmdExec
  <2>3. execs' \in [Ops -> Nat]
    <3>1. tr[c].inp.id \in Ops
      BY <1>0 DEF Prefixes
    <3>2. \/ execs' = execs
          \/ execs' = [execs EXCEPT ![tr[c].inp.id] = @ + 1]
      BY <1>9 DEF ShellCmdExec
    <3>3. execs \in [Ops -> Nat]
      OBVIOUS
    <3> DEFINE o == tr[c].inp.id
    <3> HIDE DEF Typing, TypeOK, o
    <3>4. [execs EXCEPT ![o] = @ + 1] \in [Ops -> Nat]
      BY <3>1, <3>3, BumpType DEF o
    <3> QED BY <3>2, <3>3, <3>4 DEF o
  <2> QED BY <1>3, <1>9, <2>2, <2>3 DEF ShellCmdExec, network
<1>10. CASE HandlerReturns(c)
  <2> DEFINE whose == IF tr[c].inp.len = 0 THEN tr[c].inp.id ELSE tr[c].pay
  <2>1. \A len \in {0, 1} : [tr[c] EXCEPT !.out = Prefix("RESPONSE", whose, len)] \in Trs
    <3>1. whose \in Ops
      BY <1>0 DEF Prefixes
    <3>2. \A len \in {0, 1} : Prefix("RESPONSE", whose, len) \in Prefixes
      BY <3>1, PrefixType DEF Cmds
    <3> QED BY <1>0, <3>2 DEF Trs
  <2>2. Staged
    <3> HIDE DEF whose
    <3>1. CASE \E len \in {0, 1} :
                 Stage(c, [tr[c] EXCEPT !.out = Prefix("RESPONSE", whose, len)], "OK", "txHdr")
      BY <1>2, <2>1, <3>1
    <3>2. CASE Stage(c, tr[c], "EXEC", "close")
      BY <1>0, <1>2, <3>2
    <3> QED BY <1>10, <3>1, <3>2 DEF HandlerReturns, whose
  <2> QED BY <1>3, <1>10, <2>2 DEF HandlerReturns, network
<1>11. CASE ShellSendPrefix(c)
  <2>1. PICK res \in {"OK", "TX"} :
           /\ ShellTx(c, tr[c].out, res)
           /\ Stage(c, tr[c], res, IF tr[c].out.len = 0 THEN "top" ELSE "txPay")
    BY <1>11 DEF ShellSendPrefix
  <2>2. down' \in [Conns -> Seq(Units)]
    BY <1>0, <2>1, ShellTxType DEF Units
  <2>3. Staged
    BY <1>0, <1>2, <2>1
  <2> QED BY <1>3, <1>11, <2>2, <2>3 DEF ShellSendPrefix
<1>12. CASE ShellSendPayload(c)
  <2>1. PICK res \in {"OK", "TX"} :
           ShellTx(c, Payload(tr[c].out.id), res) /\ Stage(c, tr[c], res, "top")
    BY <1>12 DEF ShellSendPayload
  <2>2. Payload(tr[c].out.id) \in Units
    BY <1>0, PayloadType DEF Prefixes
  <2>3. down' \in [Conns -> Seq(Units)]
    BY <2>1, <2>2, ShellTxType
  <2>4. Staged
    BY <1>0, <1>2, <2>1
  <2> QED BY <1>3, <1>12, <2>3, <2>4 DEF ShellSendPayload
<1>13. CASE ShellClose(c)
  <2>1. Prefix("ERROR", 0, 0) \in Units
    BY PrefixType DEF Cmds
  <2>2. down' \in [Conns -> Seq(Units)]
    BY <1>13, <2>1, ShellTxType DEF ShellClose
  <2>3. spc' \in [Conns -> ShellPCs]
    BY <1>13 DEF ShellClose
  <2>4. UNCHANGED <<client, m_sock, up, copen, listening, m_stop, tr, g_sockets_cnt, execs, tainted>>
    BY <1>13 DEF ShellClose
  <2> QED BY <2>2, <2>3, <2>4 DEF client, SockHeld, Trs
<1>14. CASE ShellEnd(c)
  <2>1. NewTr \in Trs
    BY NewTrType DEF Trs
  <2>2. Staged /\ up' \in [Conns -> Seq(Units)] /\ g_sockets_cnt' \in Int
    BY <1>14, <2>1 DEF ShellEnd, Staged, Trs
  <2> QED BY <1>14, <2>2 DEF ShellEnd, Staged, client, SockHeld, Trs
<1> QED
  BY <1>4, <1>5, <1>6, <1>7, <1>8, <1>9, <1>10, <1>11, <1>12, <1>13, <1>14 DEF ShellStep

LEMMA TypingService ==
    Typing /\ (Manage \/ ServiceDown \/ \E c \in Conns : Accept(c)) => Typing'
<1> SUFFICES ASSUME Typing, Manage \/ ServiceDown \/ \E c \in Conns : Accept(c)
             PROVE  Typing'
  OBVIOUS
<1> USE DEF Typing, ShellPCs
<1>0. ASSUME UNCHANGED <<client, m_sock, copen, down, execs, tainted>>,
             up' \in [Conns -> Seq(Units)], g_sockets_cnt' \in Int,
             listening' \in BOOLEAN, m_stop' \in BOOLEAN,
             spc' \in [Conns -> ShellPCs], tr' \in [Conns -> Trs]
      PROVE  Typing'
  <2>1. ClientTyped /\ NetworkTyped /\ ServerTyped
    BY <1>0 DEF client, ClientTyped, NetworkTyped, ServerTyped, TypeOK
  <2> QED BY <1>0, <2>1, TypeOKParts DEF client, SockHeld
<1>u. /\ up \in [Conns -> Seq(Units)] /\ g_sockets_cnt \in Int
      /\ listening \in BOOLEAN /\ m_stop \in BOOLEAN
      /\ spc \in [Conns -> ShellPCs] /\ tr \in [Conns -> Trs]
  BY DEF TypeOK, Trs
<1>1. CASE Start
  <2>1. listening' \in BOOLEAN /\ m_stop' \in BOOLEAN
    BY <1>1 DEF Start
  <2> QED BY <1>0, <1>u, <1>1, <2>1 DEF Start, network
<1>2. CASE Stop
  BY <1>0, <1>u, <1>2 DEF Stop, network
<1>3. CASE ServiceDown
  <2>1. up' \in [Conns -> Seq(Units)] /\ spc' \in [Conns -> ShellPCs]
    BY <1>u, <1>3 DEF ServiceDown
  <2>2. listening' \in BOOLEAN
    BY <1>3 DEF ServiceDown
  <2> QED BY <1>0, <1>u, <1>3, <2>1, <2>2 DEF ServiceDown
<1>4. ASSUME NEW c \in Conns, Accept(c) PROVE Typing'
  <2>1. NewTr \in Trs
    BY NewTrType DEF Trs
  <2>2. tr' \in [Conns -> Trs] /\ spc' \in [Conns -> ShellPCs]
    BY <1>u, <1>4, <2>1 DEF Accept
  <2> QED BY <1>0, <1>u, <1>4, <2>2 DEF Accept, network
<1> QED BY <1>1, <1>2, <1>3, <1>4 DEF Manage

LEMMA TypingStep == Typing /\ [Next]_vars => Typing'
<1>1. CASE UNCHANGED vars
  BY <1>1 DEF vars, client, network, server, Typing, TypeOK, SockHeld
<1> QED
  BY <1>1, TypingAppCall, TypingClientStep, TypingShellStep, TypingService DEF Next

\* Every variable keeps its type, whatever the calls, the failures and the
\* number of connections.
THEOREM TypeCorrect == Spec => []TypeOK
<1>1. Typing => TypeOK
  BY DEF Typing
<1> QED BY <1>1, TypingInit, TypingStep, PTL DEF Spec

-----------------------------------------------------------------------------
(* The client's descriptors *)

LEMMA NoLeakedHandleStep == Typing /\ NoLeakedHandle /\ [Next]_vars => NoLeakedHandle'
<1> SUFFICES ASSUME Typing, NoLeakedHandle, [Next]_vars PROVE NoLeakedHandle'
  OBVIOUS
<1>1. CASE UNCHANGED <<m_sock, copen>>
  BY <1>1 DEF NoLeakedHandle
<1>2. CASE socket_close
  BY <1>2 DEF socket_close, NoLeakedHandle
<1>3. ASSUME NEW res, connect(res) PROVE NoLeakedHandle'
  <2>1. ASSUME NEW c \in Conns, ConnectOn(c, res) PROVE NoLeakedHandle'
    BY <2>1 DEF ConnectOn, NoLeakedHandle
  <2> QED BY <1>2, <1>3, <2>1 DEF connect, FreeConns
<1>4. CASE AppCall
  BY <1>1, <1>2, <1>3, <1>4 DEF AppCall, Connect, Close, StartTransaction, StartSync, Begin, network
<1>5. CASE ClientStep
  BY <1>1, <1>2, <1>3, <1>5
     DEF ClientStep, SendPrefix, SendPayload, FrameRxEntry, RecvHeader, RecvPayload, Reconnect,
         TransactionEnd, SyncSend, SyncRecv, network
<1>6. ASSUME NEW c \in Conns, ShellStep(c) \/ HandlerReturns(c) PROVE NoLeakedHandle'
  BY <1>1, <1>6
     DEF ShellStep, ShellTop, FrameWait, ShellRxEntry, ShellReadPrefix, ShellReadPayload,
         ShellCmdExec, ShellSendPrefix, ShellSendPayload, ShellClose, ShellEnd,
         HandlerReturns, network
<1>7. CASE Manage \/ ServiceDown \/ \E c \in Conns : Accept(c)
  BY <1>1, <1>7 DEF Manage, Start, Stop, ServiceDown, Accept, network
<1>8. CASE UNCHANGED vars
  BY <1>1, <1>8 DEF vars, network
<1> QED BY <1>4, <1>5, <1>6, <1>7, <1>8 DEF Next

\* A client holds one descriptor at most, and it is the one in m_sock.
THEOREM NoHandleLeaks == Spec => []NoLeakedHandle
<1>1. Init => NoLeakedHandle
  BY DEF Init, NoLeakedHandle
<1> QED BY <1>1, TypingInit, TypingStep, NoLeakedHandleStep, PTL DEF Spec

-----------------------------------------------------------------------------
(* CMD_ERROR *)

\* Only ShellClose says CMD_ERROR
OutIsNoError == \A c \in Conns : tr[c].out.cmd # "ERROR"

ErrorInv == OutIsNoError /\ ErrorIsLast

LEMMA StageOut ==
    ASSUME TypeOK, OutIsNoError, NEW c \in Conns, NEW t \in Trs, t.out.cmd # "ERROR",
           NEW res \in ConnStates, NEW pc, Stage(c, t, res, pc)
    PROVE  OutIsNoError'
<1>1. Reset(t).out.cmd # "ERROR" /\ [Reset(t) EXCEPT !.state = res].out.cmd # "ERROR"
  BY DEF Reset, Trs, Prefixes
<1> QED BY <1>1 DEF Stage, OutIsNoError, TypeOK

\* A unit that is not CMD_ERROR may follow where there is none
LEMMA PutKeeps ==
    ASSUME NEW q \in Seq(Units), NEW u \in Units,
           \A i \in DOMAIN q : q[i].cmd # "ERROR"
    PROVE  /\ u.cmd # "ERROR" => \A i \in DOMAIN Append(q, u) : Append(q, u)[i].cmd # "ERROR"
           /\ \A i \in DOMAIN Append(q, u) :
                 Append(q, u)[i].cmd = "ERROR" => i = Len(Append(q, u))
OBVIOUS

LEMMA TakeKeeps ==
    ASSUME NEW q \in Seq(Units), q # <<>>,
           NEW P, \A i \in DOMAIN q : q[i].cmd = "ERROR" => i = Len(q) /\ P
    PROVE  \A i \in DOMAIN Tail(q) : Tail(q)[i].cmd = "ERROR" => i = Len(Tail(q)) /\ P
OBVIOUS

\* Where only other shells change, or this one stays where CMD_ERROR may have
\* been said, and the streams to the client lose what they lose
LEMMA ErrorFrame ==
    ASSUME ErrorIsLast,
           \A c \in Conns : \/ down'[c] = <<>>
                            \/ /\ down'[c] = down[c]
                               /\ \/ spc'[c] = spc[c]
                                  \/ spc[c] \notin {"closing", "done"}
                                  \/ spc'[c] \in {"closing", "done"}
    PROVE  ErrorIsLast'
BY DEF ErrorIsLast

LEMMA ErrorTake ==
    ASSUME TypeOK, ErrorIsLast, m_sock \in Conns, NEW u, ClientTakes(u), UNCHANGED spc
    PROVE  ErrorIsLast'
<1> SUFFICES ASSUME NEW c \in Conns, NEW i \in DOMAIN down'[c], down'[c][i].cmd = "ERROR"
             PROVE  i = Len(down'[c]) /\ spc'[c] \in {"closing", "done"}
  BY DEF ErrorIsLast
<1>1. CASE c # m_sock
  BY <1>1 DEF ClientTakes, TypeOK, ErrorIsLast
<1>2. CASE c = m_sock
  <2> DEFINE q == down[c]
             P == spc[c] \in {"closing", "done"}
  <2>1. q \in Seq(Units) /\ q # <<>> /\ down'[c] = Tail(q)
    BY <1>2 DEF ClientTakes, TypeOK
  <2>2. \A j \in DOMAIN q : q[j].cmd = "ERROR" => j = Len(q) /\ P
    BY DEF ErrorIsLast
  <2> HIDE DEF q, P
  <2>3. \A j \in DOMAIN Tail(q) : Tail(q)[j].cmd = "ERROR" => j = Len(Tail(q)) /\ P
    BY <2>1, <2>2, TakeKeeps
  <2> QED BY <2>1, <2>3 DEF P
<1> QED BY <1>1, <1>2

LEMMA ErrorStep == Typing /\ ErrorInv /\ NoLeakedHandle /\ [Next]_vars => ErrorInv'
<1> SUFFICES ASSUME Typing, ErrorInv, NoLeakedHandle, [Next]_vars PROVE ErrorInv'
  OBVIOUS
<1> USE DEF Typing, ErrorInv
<1>0. TypeOK /\ OutIsNoError /\ ErrorIsLast
  OBVIOUS
<1>1. CASE UNCHANGED <<down, spc, tr>>
  BY <1>1 DEF OutIsNoError, ErrorIsLast
<1>2. ASSUME NEW res, connect(res), UNCHANGED tr PROVE ErrorInv'
  <2>1. OutIsNoError'
    BY <1>2 DEF OutIsNoError
  <2>2. \A c \in Conns : down'[c] = <<>> \/ (down'[c] = down[c] /\ spc'[c] = spc[c])
    BY <1>2 DEF connect, ConnectOn, socket_close, TypeOK, FreeConns
  <2> QED BY <1>0, <2>1, <2>2, ErrorFrame
<1>3. ASSUME socket_close, UNCHANGED <<spc, tr>> PROVE ErrorInv'
  <2>1. \A c \in Conns : down'[c] = <<>> \/ (down'[c] = down[c] /\ spc'[c] = spc[c])
    BY <1>3 DEF socket_close, TypeOK
  <2> QED BY <1>0, <1>3, <2>1, ErrorFrame DEF OutIsNoError
<1>4. ASSUME NEW u, ClientTakes(u), m_sock \in Conns, UNCHANGED <<spc, tr>> PROVE ErrorInv'
  BY <1>0, <1>4, ErrorTake DEF OutIsNoError
<1>5. CASE AppCall
  BY <1>1, <1>2, <1>3, <1>5
     DEF AppCall, Connect, Close, StartTransaction, StartSync, Begin, network, server
<1>6. CASE ClientStep
  <2>1. CASE SendPrefix \/ SendPayload \/ FrameRxEntry \/ SyncSend
    BY <1>1, <2>1 DEF SendPrefix, SendPayload, FrameRxEntry, SyncSend, network, server
  <2>2. CASE RecvHeader
    BY <1>1, <1>4, <2>2 DEF RecvHeader, ClientRxFails, server, SockHeld
  <2>3. CASE RecvPayload
    BY <1>1, <1>4, <2>3 DEF RecvPayload, ClientRxFails, server, SockHeld
  <2>4. CASE SyncRecv
    BY <1>1, <1>4, <2>4 DEF SyncRecv, ClientRxFails, server, SockHeld
  <2>5. CASE Reconnect
    BY <1>2, <2>5 DEF Reconnect
  <2>6. CASE TransactionEnd
    BY <1>1, <1>3, <2>6 DEF TransactionEnd, server
  <2> QED BY <1>6, <2>1, <2>2, <2>3, <2>4, <2>5, <2>6 DEF ClientStep
<1>7. ASSUME NEW c \in Conns, ShellStep(c) \/ HandlerReturns(c) PROVE ErrorInv'
  <2>1. CASE ShellTop(c) \/ FrameWait(c)
    <3>1. UNCHANGED <<down, tr>> /\ spc[c] \notin {"closing", "done"}
          /\ \A d \in Conns \ {c} : spc'[d] = spc[d]
      BY <2>1 DEF ShellTop, FrameWait, network, TypeOK
    <3> QED BY <1>0, <3>1, ErrorFrame DEF OutIsNoError
  <2>2. ASSUME NEW t \in Trs, t.out.cmd # "ERROR", NEW res \in ConnStates, NEW pc,
               Stage(c, t, res, pc), UNCHANGED down, spc[c] \notin {"closing", "done"}
        PROVE  ErrorInv'
    <3>1. \A d \in Conns \ {c} : spc'[d] = spc[d]
      BY <2>2 DEF Stage, TypeOK
    <3> QED BY <1>0, <2>2, <3>1, StageOut, ErrorFrame
  <2>3. tr[c] \in Trs /\ tr[c].out.cmd # "ERROR"
    BY DEF TypeOK, Trs, OutIsNoError
  <2>4. CASE ShellRxEntry(c)
    BY <2>2, <2>3, <2>4 DEF ShellRxEntry, network, ConnStates
  <2>5. CASE ShellReadPrefix(c)
    <3>1. ASSUME NEW u \in Prefixes PROVE [tr[c] EXCEPT !.inp = u] \in Trs
                                        /\ [tr[c] EXCEPT !.inp = u].out = tr[c].out
      BY <2>3 DEF Trs
    <3>2. up[c] # <<>> => Head(up[c]) \in Units
      BY DEF TypeOK
    <3>3. \E t \in Trs, res \in ConnStates, pc \in ShellPCs :
           t.out = tr[c].out /\ Stage(c, t, res, pc)
      <4> USE DEF ConnStates, ShellPCs
      <4>1. CASE /\ up[c] # <<>> /\ IsPrefix(Head(up[c]))
                 /\ Stage(c, [tr[c] EXCEPT !.inp = Head(up[c])], "OK", "rxPay")
        <5>1. Head(up[c]) \in Prefixes
          BY <3>2, <4>1, UnitType
        <5> QED BY <3>1, <4>1, <5>1
      <4>2. CASE \E res \in ConnStates : Stage(c, tr[c], res, "close")
        BY <2>3, <4>2
      <4> QED BY <2>5, <4>1, <4>2 DEF ShellReadPrefix, ShellTakes
    <3> QED BY <2>2, <2>3, <2>5, <3>3 DEF ShellReadPrefix
  <2>6. CASE ShellReadPayload(c)
    <3>1. ASSUME NEW id \in Ops PROVE [tr[c] EXCEPT !.pay = id] \in Trs
                                     /\ [tr[c] EXCEPT !.pay = id].out = tr[c].out
      BY <2>3 DEF Trs
    <3>2. up[c] # <<>> => Head(up[c]).id \in Ops
      <4>1. up[c] # <<>> => Head(up[c]) \in Units
        BY DEF TypeOK
      <4> QED BY <4>1, UnitType
    <3>3. \E t \in Trs, res \in ConnStates, pc \in ShellPCs :
           t.out = tr[c].out /\ Stage(c, t, res, pc)
      <4> USE DEF ConnStates, ShellPCs
      <4>1. CASE /\ up[c] # <<>>
                 /\ Stage(c, [tr[c] EXCEPT !.pay = Head(up[c]).id], "OK", "exec")
        BY <3>1, <3>2, <4>1
      <4>2. CASE \E res \in ConnStates, pc \in ShellPCs : Stage(c, tr[c], res, pc)
        BY <2>3, <4>2
      <4> QED BY <2>6, <4>1, <4>2 DEF ShellReadPayload, ShellTakes
    <3> QED BY <2>2, <2>3, <2>6, <3>3 DEF ShellReadPayload
  <2>7. CASE ShellCmdExec(c)
    <3>1. [tr[c] EXCEPT !.out = Prefix("PING_RESPONSE", tr[c].inp.id, 0)] \in Trs
          /\ [tr[c] EXCEPT !.out = Prefix("PING_RESPONSE", tr[c].inp.id, 0)].out.cmd # "ERROR"
      BY <2>3 DEF Trs, Prefix, Prefixes, Cmds
    <3> QED BY <2>2, <2>3, <2>7, <3>1 DEF ShellCmdExec, network, ConnStates
  <2>8. CASE HandlerReturns(c)
    <3> DEFINE whose == IF tr[c].inp.len = 0 THEN tr[c].inp.id ELSE tr[c].pay
    <3>1. \A len \in {0, 1} :
            /\ [tr[c] EXCEPT !.out = Prefix("RESPONSE", whose, len)] \in Trs
            /\ [tr[c] EXCEPT !.out = Prefix("RESPONSE", whose, len)].out.cmd # "ERROR"
      BY <2>3 DEF Trs, Prefix, Prefixes, Cmds
    <3> HIDE DEF whose
    <3> QED BY <2>2, <2>3, <2>8, <3>1 DEF HandlerReturns, whose, network, ConnStates
  <2>9. ASSUME NEW u \in Units, u.cmd # "ERROR", NEW res \in {"OK", "TX"}, NEW pc,
               ShellTx(c, u, res), Stage(c, tr[c], res, pc), spc[c] \in {"txHdr", "txPay"}
        PROVE  ErrorInv'
    <3>1. \A d \in Conns \ {c} : spc'[d] = spc[d] /\ down'[d] = down[d]
      BY <2>9 DEF Stage, ShellTx, TypeOK
    <3>2. \A i \in DOMAIN down'[c] : down'[c][i].cmd # "ERROR"
      <4>1. \A i \in DOMAIN down[c] : down[c][i].cmd # "ERROR"
        BY <2>9 DEF ErrorIsLast
      <4>2. down[c] \in Seq(Units)
        BY DEF TypeOK
      <4>3. down'[c] = down[c] \/ down'[c] = Append(down[c], u)
        BY <2>9 DEF ShellTx, TypeOK
      <4> QED BY <2>9, <4>1, <4>2, <4>3, PutKeeps
    <3>3. OutIsNoError'
      BY <1>0, <2>3, <2>9, StageOut DEF ConnStates
    <3> QED BY <3>1, <3>2, <3>3 DEF ErrorIsLast
  <2>10. CASE ShellClose(c)
    <3>1. /\ spc'[c] = "closing" /\ UNCHANGED tr
          /\ \A d \in Conns \ {c} : spc'[d] = spc[d] /\ down'[d] = down[d]
      BY <2>10 DEF ShellClose, ShellTx, TypeOK
    <3>2. \A i \in DOMAIN down'[c] : down'[c][i].cmd = "ERROR" => i = Len(down'[c])
      <4>1. \A i \in DOMAIN down[c] : down[c][i].cmd # "ERROR"
        BY <2>10 DEF ShellClose, ErrorIsLast
      <4>2. down[c] \in Seq(Units) /\ Prefix("ERROR", 0, 0) \in Units
        BY PrefixType DEF TypeOK, Cmds
      <4>3. down'[c] = down[c] \/ down'[c] = Append(down[c], Prefix("ERROR", 0, 0))
        BY <2>10 DEF ShellClose, ShellTx, TypeOK
      <4> QED BY <4>1, <4>2, <4>3, PutKeeps
    <3> QED BY <3>1, <3>2 DEF OutIsNoError, ErrorIsLast
  <2>12. CASE ShellSendPrefix(c)
    <3>1. tr[c].out \in Units
      BY <2>3 DEF Trs, Units
    <3> QED BY <2>3, <2>9, <2>12, <3>1 DEF ShellSendPrefix
  <2>13. CASE ShellSendPayload(c)
    <3>1. Payload(tr[c].out.id) \in Units /\ Payload(tr[c].out.id).cmd # "ERROR"
      BY <2>3, PayloadType DEF Trs, Prefixes, Payload
    <3> QED BY <2>9, <2>13, <3>1 DEF ShellSendPayload
  <2>11. CASE ShellEnd(c)
    <3>1. UNCHANGED down /\ spc'[c] = "done" /\ \A d \in Conns \ {c} : spc'[d] = spc[d]
      BY <2>11 DEF ShellEnd, TypeOK
    <3>2. OutIsNoError'
      BY <1>0, <2>11 DEF ShellEnd, TypeOK, OutIsNoError, NewTr, NoPrefix, Prefix
    <3> QED BY <1>0, <3>1, <3>2, ErrorFrame
  <2> QED
    BY <1>7, <2>1, <2>4, <2>5, <2>6, <2>7, <2>8, <2>10, <2>11, <2>12, <2>13 DEF ShellStep
<1>8. CASE Manage \/ ServiceDown \/ \E c \in Conns : Accept(c)
  <2>1. UNCHANGED down /\ \A c \in Conns : spc'[c] = spc[c] \/ spc[c] = "backlog"
    BY <1>8 DEF Manage, Start, Stop, ServiceDown, Accept, network, TypeOK
  <2>2. OutIsNoError'
    <3>1. NewTr.out.cmd # "ERROR"
      BY DEF NewTr, NoPrefix, Prefix
    <3>2. UNCHANGED tr \/ \E c \in Conns : tr' = [tr EXCEPT ![c] = NewTr]
      BY <1>8 DEF Manage, Start, Stop, ServiceDown, Accept
    <3> QED BY <1>0, <3>1, <3>2 DEF OutIsNoError, TypeOK
  <2> QED BY <1>0, <2>1, <2>2, ErrorFrame
<1>9. CASE UNCHANGED vars
  BY <1>1, <1>9 DEF vars, network, server
<1> QED BY <1>5, <1>6, <1>7, <1>8, <1>9 DEF Next

\* CMD_ERROR is the last thing a shell says on its connection.
THEOREM NothingAfterError == Spec => []ErrorIsLast
<1>1. Init => ErrorInv
  BY DEF Init, ErrorInv, OutIsNoError, ErrorIsLast, NewTr, NoPrefix, Prefix
<1>2. Init => NoLeakedHandle
  BY DEF Init, NoLeakedHandle
<1>3. ErrorInv => ErrorIsLast
  BY DEF ErrorInv
<1> QED
  BY <1>1, <1>2, <1>3, TypingInit, TypingStep, NoLeakedHandleStep, ErrorStep, PTL DEF Spec

-----------------------------------------------------------------------------
(* The count of sockets *)

Served == {c \in Conns : Serving(c)}

Held == IF m_sock = NoSock THEN 0 ELSE 1

Listens == IF listening THEN 1 ELSE 0

SocketsInv ==
    /\ IsFiniteSet(Served)
    /\ g_sockets_cnt = Listens + Held + Cardinality(Served)

LEMMA SocketsInvMeans == NoLeakedHandle /\ SocketsInv => SocketsAccounted
<1> SUFFICES ASSUME NoLeakedHandle, SocketsInv PROVE SocketsAccounted
  OBVIOUS
<1>1. Cardinality(copen) = Held
  <2>1. copen = IF m_sock = NoSock THEN {} ELSE {m_sock}
    BY DEF NoLeakedHandle
  <2> QED BY <2>1, FS_EmptySet, FS_Singleton DEF Held
<1> QED BY <1>1 DEF SocketsInv, SocketsAccounted, Served, Listens

\* Where no shell starts or ends
LEMMA SocketsFrame ==
    ASSUME SocketsInv, \A c \in Conns : Serving(c)' <=> Serving(c),
           g_sockets_cnt' = g_sockets_cnt + Listens' - Listens + Held' - Held
    PROVE  SocketsInv'
<1>1. Served' = Served
  BY DEF Served
<1>2. Cardinality(Served) \in Nat /\ Held \in Int /\ Held' \in Int
      /\ Listens \in Int /\ Listens' \in Int
  BY FS_CardinalityType DEF SocketsInv, Held, Listens
<1> QED BY <1>1, <1>2 DEF SocketsInv

LEMMA SocketsStep == Typing /\ SocketsInv /\ [Next]_vars => SocketsInv'
<1> SUFFICES ASSUME Typing, SocketsInv, [Next]_vars PROVE SocketsInv'
  OBVIOUS
<1>0. TypeOK
  BY DEF Typing
<1>1. CASE /\ UNCHANGED <<g_sockets_cnt, m_sock, listening>>
           /\ \A c \in Conns : Serving(c)' <=> Serving(c)
  BY <1>0, <1>1, SocketsFrame DEF TypeOK, Held, Listens
<1>2. ASSUME UNCHANGED <<spc, listening>>, socket_close PROVE SocketsInv'
  BY <1>0, <1>2, SocketsFrame DEF TypeOK, Held, Listens, socket_close, Serving
<1>3. ASSUME NEW res, connect(res), UNCHANGED listening PROVE SocketsInv'
  <2>1. ASSUME NEW c \in FreeConns, ConnectOn(c, res) PROVE SocketsInv'
    <3>1. \A d \in Conns : Serving(d)' <=> Serving(d)
      BY <1>0, <2>1 DEF FreeConns, ConnectOn, TypeOK, Serving, Unserved
    <3>2. Held' = 1 /\ g_sockets_cnt' = g_sockets_cnt + 1 - Held
      BY <1>0, <2>1 DEF FreeConns, ConnectOn, TypeOK, Held
    <3> QED BY <1>0, <1>3, <3>1, <3>2, SocketsFrame DEF TypeOK, Held, Listens
  <2> QED BY <1>2, <1>3, <2>1 DEF connect
<1>4. CASE AppCall
  BY <1>1, <1>2, <1>3, <1>4
     DEF AppCall, Connect, Close, StartTransaction, StartSync, Begin, server, Serving
<1>5. CASE ClientStep
  BY <1>1, <1>2, <1>3, <1>5
     DEF ClientStep, SendPrefix, SendPayload, FrameRxEntry, RecvHeader, RecvPayload, Reconnect,
         TransactionEnd, SyncSend, SyncRecv, server, Serving
<1>6. ASSUME NEW c \in Conns, ShellStep(c) \/ HandlerReturns(c) PROVE SocketsInv'
  <2>1. CASE ShellEnd(c)
    <3>1. Served' = Served \ {c} /\ c \in Served
      BY <1>0, <2>1 DEF ShellEnd, Served, Serving, Unserved, TypeOK
    <3>2. IsFiniteSet(Served') /\ Cardinality(Served') = Cardinality(Served) - 1
      BY <3>1, FS_RemoveElement DEF SocketsInv
    <3>3. Cardinality(Served) \in Nat /\ Held \in Int /\ Held' = Held
      BY <2>1, FS_CardinalityType DEF SocketsInv, Held, ShellEnd
    <3> QED BY <2>1, <3>2, <3>3 DEF SocketsInv, ShellEnd, Listens
  <2>2. CASE ~ShellEnd(c)
    <3>1. UNCHANGED <<g_sockets_cnt, m_sock, listening>>
      BY <1>6, <2>2
         DEF ShellStep, ShellTop, FrameWait, ShellRxEntry, ShellReadPrefix, ShellReadPayload,
             ShellCmdExec, ShellSendPrefix, ShellSendPayload, ShellClose, HandlerReturns
    <3>2. \A d \in Conns \ {c} : spc'[d] = spc[d]
      BY <1>0, <1>6, <2>2
         DEF ShellStep, ShellTop, FrameWait, ShellRxEntry, ShellReadPrefix, ShellReadPayload,
             ShellCmdExec, ShellSendPrefix, ShellSendPayload, ShellClose, HandlerReturns, Stage,
             TypeOK
    <3>3. spc[c] \notin Unserved /\ spc'[c] \notin Unserved
      BY <1>0, <1>6, <2>2
         DEF ShellStep, ShellTop, FrameWait, ShellRxEntry, ShellReadPrefix, ShellReadPayload,
             ShellCmdExec, ShellSendPrefix, ShellSendPayload, ShellClose, HandlerReturns, Stage,
             TypeOK, Unserved
    <3> QED BY <1>1, <3>1, <3>2, <3>3 DEF Serving
  <2> QED BY <2>1, <2>2
<1>7. ASSUME NEW c \in Conns, Accept(c) PROVE SocketsInv'
  <2>1. Served' = Served \cup {c} /\ c \notin Served
    BY <1>0, <1>7 DEF Accept, Served, Serving, Unserved, TypeOK
  <2>2. IsFiniteSet(Served') /\ Cardinality(Served') = Cardinality(Served) + 1
    BY <2>1, FS_AddElement DEF SocketsInv
  <2>3. Cardinality(Served) \in Nat /\ Held \in Int /\ Held' = Held
    BY <1>7, FS_CardinalityType DEF SocketsInv, Held, Accept
  <2> QED BY <1>7, <2>2, <2>3 DEF SocketsInv, Accept, Listens
<1>8. CASE Stop
  BY <1>1, <1>8 DEF Stop, Serving
<1>9. CASE Start \/ ServiceDown
  <2>1. \A c \in Conns : Serving(c)' <=> Serving(c)
    BY <1>0, <1>9 DEF Start, ServiceDown, TypeOK, Serving, Unserved
  <2>2. Held' = Held /\ g_sockets_cnt' = g_sockets_cnt + Listens' - Listens
    BY <1>0, <1>9 DEF Start, ServiceDown, TypeOK, Held, Listens
  <2> QED BY <1>0, <2>1, <2>2, SocketsFrame DEF TypeOK, Held, Listens
<1>10. CASE UNCHANGED vars
  BY <1>1, <1>10 DEF vars, server, Serving
<1> QED BY <1>4, <1>5, <1>6, <1>7, <1>8, <1>9, <1>10 DEF Next, Manage

\* The global count of open sockets is one for the listening socket, one for
\* the client's and one per connection being served, through failed connects
\* and sends, retries and stops.
THEOREM SocketsCounted == Spec => []SocketsAccounted
<1>1. Init => NoLeakedHandle /\ SocketsInv
  <2> SUFFICES ASSUME Init PROVE NoLeakedHandle /\ SocketsInv
    OBVIOUS
  <2>1. Served = {}
    BY DEF Init, Served, Serving, Unserved
  <2> QED BY <2>1, FS_EmptySet DEF Init, NoLeakedHandle, SocketsInv, Held, Listens
<1> QED
  BY <1>1, TypingInit, TypingStep, NoLeakedHandleStep, SocketsStep, SocketsInvMeans, PTL DEF Spec

=============================================================================
