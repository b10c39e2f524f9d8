-------------------------- MODULE SockTransaction --------------------------
(***************************************************************************)
(* One SocketClient talking to the per-connection shells of a SocketServer *)
(* (src/dev/common/src/SockServerClient.cpp).                              *)
(*                                                                         *)
(* The client is one thread: its calls Connect, Close, Transaction and     *)
(* Sync are cut at every socket operation.  Each accepted connection has a *)
(* shell of its own, a thread started with std::async, and the service     *)
(* thread accepts and, on m_stop, closes the listening socket.             *)
(*                                                                         *)
(* A connection is an ordered pair of byte streams.  Frames are atomic     *)
(* here: a unit is a 24-byte prefix or one payload.  The identity carried  *)
(* by a unit is the number of the client call it belongs to (the code of a *)
(* ping, the bytes of a request), so that an answer can be told from an    *)
(* older one.  Time is abstract: a receive may find its deadline passed    *)
(* wherever the code compares the clock with it.                           *)
(***************************************************************************)
EXTENDS Integers, Sequences, FiniteSets

CONSTANTS
    Conns,      \* connections that can exist at a time (descriptors)
    NoSock,     \* SOCK_INVALID_SOCK
    MaxOps,     \* bound on the calls of Transaction and Sync
    Platform,   \* "WINDOWS" or "LINUX", as in HidOsTypes.h
    Faults,     \* which failures of the environment may happen
    Calls       \* which exchanges the application makes

FaultKinds ==
    {"SELECT",   \* select() returns a negative value
     "ALLOC",    \* resizing a payload buffer throws
     "HANDLER"}  \* the application's handler throws

ASSUME ConnsAssumption == NoSock \notin Conns
ASSUME MaxOpsAssumption == MaxOps \in Nat
ASSUME PlatformAssumption == Platform \in {"WINDOWS", "LINUX"}
ASSUME FaultsAssumption == Faults \subseteq FaultKinds
ASSUME CallsAssumption == Calls \subseteq {"TRANSACTION", "SYNC"}

-----------------------------------------------------------------------------
VARIABLES
    \* the client
    cpc,            \* where the client thread is
    call,           \* the exchange in progress or made last
    op,             \* its number: the identity of the request or ping
    outLen,         \* out_frame: 0 when empty, 1 when not
    m_sock,         \* SocketClient::m_sock
    state,          \* conn_state_t of the exchange in progress
    got,            \* tr.inp_hdr: the last prefix received in this call
    pay,            \* tr.inp_pay: whose data it holds, 0 for nobody's
    \* the network, per connection
    up,             \* units on their way to the server
    down,           \* units on their way to the client
    copen,          \* connections whose client descriptor is open
    \* the server
    listening,      \* the service thread runs and its socket listens
    m_stop,         \* SocketServer::m_stop
    spc,            \* where the shell of a connection is
    tr,             \* the transaction_t of a shell, with its conn_state
    g_sockets_cnt,  \* the global count of open sockets
    \* history
    attempts,       \* times each call put its request on a connection
    execs,          \* times the handler was started for each request
    tainted         \* connections whose stream may be out of step

client  == <<cpc, call, op, outLen, state, got, pay, attempts>>
network == <<up, down, copen>>
server  == <<listening, m_stop, spc, tr>>
vars    == <<client, m_sock, network, server, g_sockets_cnt, execs, tainted>>

-----------------------------------------------------------------------------
(* Units *)

Ops == 0 .. MaxOps

Cmds == {"NONE", "REQUEST", "RESPONSE", "PING_REQUEST", "PING_RESPONSE", "ERROR"}

Prefix(cmd, id, len) == [cmd |-> cmd, id |-> id, len |-> len]
Payload(id)          == [cmd |-> "PAYLOAD", id |-> id, len |-> 0]
NoPrefix             == Prefix("NONE", 0, 0)   \* a zeroed header buffer

Prefixes == [cmd : Cmds, id : Ops, len : {0, 1}]
Units    == Prefixes \cup [cmd : {"PAYLOAD"}, id : Ops, len : {0}]

IsPrefix(u) == u.cmd # "PAYLOAD"

ConnStates == {"OK", "GENERAL", "CLOSED", "TIMEOUT", "OPEN", "CONNECT",
               "RX", "TX", "EXEC", "SYNC"}

ClientPCs == {"idle", "txHdr", "txPay", "rxHdr", "rxHdrLoop",
              "rxPay", "rxPayLoop", "end"}

\* "done": no shell and no server descriptor; "refused": never connected;
\* "backlog": connected, not accepted yet; the others are those of Shell()
ShellPCs == {"done", "refused", "backlog", "top", "wait", "rxHdr", "rxHdrLoop",
             "rxPay", "rxPayLoop", "exec", "handler", "txHdr", "txPay",
             "close", "closing"}

Unserved == {"done", "refused", "backlog"}

\* transaction_t as its constructor leaves it
NewTr == [state |-> "OK", inp |-> NoPrefix, pay |-> 0, out |-> NoPrefix]

-----------------------------------------------------------------------------
(* The network: what one call of frame_tx or frame_rx can come to *)

\* The shell at the other end of m_sock
Peer == IF m_sock = NoSock THEN "refused" ELSE spc[m_sock]

\* frame_tx of a client, at its return: a send to a vanished peer is lost or
\* refused.  How long it blocks before is the subject of ClientHeld.
ClientTx(u, res) ==
    \/ /\ res = "OK" /\ Peer \notin {"done", "refused"}
       /\ up' = [up EXCEPT ![m_sock] = Append(@, u)]
    \/ /\ Peer = "done" /\ res \in {"OK", "TX"}
       /\ UNCHANGED up
    \/ /\ Peer = "refused" /\ res = "TX"
       /\ UNCHANGED up

\* frame_tx of a shell, at its return
ShellTx(c, u, res) ==
    \/ /\ res = "OK" /\ c \in copen
       /\ down' = [down EXCEPT ![c] = Append(@, u)]
    \/ /\ res \in {"OK", "TX"} /\ c \notin copen
       /\ UNCHANGED down

\* Seeded fault: the deadline is not looked at on any platform
RxNeverExpires(queue, gone, res) ==
    \/ res = "CLOSED" /\ gone /\ queue = <<>>
    \/ res = "RX" /\ gone

\* What frame_rx finds besides a whole frame, when "queue" is what is on its
\* way and "gone" says that the peer has closed.  Windows enforces the
\* deadline; on Linux EAGAIN = EWOULDBLOCK and the loop polls for ever.
RxFails(queue, gone, res) ==
    \/ res = "CLOSED" /\ gone /\ queue = <<>>
    \/ res = "RX" /\ gone
    \/ res = "TIMEOUT" /\ Platform = "WINDOWS"

\* A failing select() ends the loop with CONN_OK and an incomplete frame
SelectFails == Platform = "WINDOWS" /\ "SELECT" \in Faults

\* Seeded fault: a socket that is not open is counted as closed
socket_close_unchecked ==
    /\ m_sock' = NoSock
    /\ copen' = copen \ {m_sock}
    /\ down' = [c \in Conns |-> IF c = m_sock THEN <<>> ELSE down[c]]
    /\ g_sockets_cnt' = g_sockets_cnt - 1

\* socket_close(m_sock), on the client's side of the stream and the count
socket_close ==
    /\ m_sock' = NoSock
    /\ copen' = copen \ {m_sock}
    /\ down' = [c \in Conns |-> IF c = m_sock THEN <<>> ELSE down[c]]
    /\ g_sockets_cnt' = g_sockets_cnt - (IF m_sock = NoSock THEN 0 ELSE 1)

\* A descriptor is free when neither side uses it, m_sock being closed
FreeConns == {c \in Conns : c \notin copen \ {m_sock} /\ spc[c] \in {"done", "refused"}}

\* Seeded fault: the old socket is overwritten, not closed
ConnectOver(c, res) ==
    /\ res = "CONNECT" \/ (res = "OK" /\ listening)
    /\ m_sock' = c
    /\ copen' = copen \cup {c}
    /\ down' = [down EXCEPT ![c] = <<>>]
    /\ up' = [up EXCEPT ![c] = <<>>]
    /\ spc' = [spc EXCEPT ![c] = IF res = "OK" THEN "backlog" ELSE "refused"]
    /\ tainted' = tainted \ {c}
    /\ g_sockets_cnt' = g_sockets_cnt + 1

\* connect() on the new socket c succeeds or fails
ConnectOn(c, res) ==
    /\ res = "CONNECT" \/ (res = "OK" /\ listening)
    /\ m_sock' = c
    /\ copen' = (copen \ {m_sock}) \cup {c}
    /\ down' = [d \in Conns |-> IF d \in {c, m_sock} THEN <<>> ELSE down[d]]
    /\ up' = [up EXCEPT ![c] = <<>>]
    /\ spc' = [spc EXCEPT ![c] = IF res = "OK" THEN "backlog" ELSE "refused"]
    /\ tainted' = tainted \ {c}
    /\ g_sockets_cnt' = IF m_sock = NoSock THEN g_sockets_cnt + 1 ELSE g_sockets_cnt

\* SocketClient::connect: close, open a new socket, connect it.  With no
\* descriptor free, socket() fails.
connect(res) ==
    \/ \E c \in FreeConns : ConnectOn(c, res)
    \/ /\ res = "OPEN" /\ FreeConns = {}
       /\ socket_close
       /\ UNCHANGED <<up, spc, tainted>>

-----------------------------------------------------------------------------
(* The client's calls *)

\* SocketClient::Connect and SocketClient::Close
Connect ==
    /\ cpc = "idle"
    /\ \E res \in {"OK", "OPEN", "CONNECT"} : connect(res)
    /\ UNCHANGED <<client, listening, m_stop, tr, execs>>

Close ==
    /\ cpc = "idle"
    /\ socket_close
    /\ UNCHANGED <<client, up, server, execs, tainted>>

\* The beginning of Transaction and of Sync: fresh buffers and a clock
Begin(kind, len) ==
    /\ cpc = "idle" /\ op < MaxOps /\ kind \in Calls
    /\ call' = kind /\ op' = op + 1 /\ outLen' = len
    /\ attempts' = [attempts EXCEPT ![op + 1] = 1]
    /\ cpc' = "txHdr"
    /\ UNCHANGED <<state, got, pay, m_sock, network, server, g_sockets_cnt, execs, tainted>>

StartTransaction == \E len \in {0, 1} : Begin("TRANSACTION", len)
StartSync        == Begin("SYNC", 0)

\* A step of TransactionInt that ends with "res": the steps after a failed one
\* find conn_state set and do nothing
Go(res, pc) == state' = res /\ cpc' = IF res = "OK" THEN pc ELSE "end"

SendPrefix ==
    /\ cpc = "txHdr" /\ call = "TRANSACTION"
    /\ \E res \in {"OK", "TX"} :
         /\ ClientTx(Prefix("REQUEST", op, outLen), res)
         /\ Go(res, IF outLen = 0 THEN "rxHdr" ELSE "txPay")
    /\ UNCHANGED <<call, op, outLen, got, pay, attempts, m_sock, down, copen,
                   server, g_sockets_cnt, execs, tainted>>

SendPayload ==
    /\ cpc = "txPay"
    /\ \E res \in {"OK", "TX"} : ClientTx(Payload(op), res) /\ Go(res, "rxHdr")
    /\ UNCHANGED <<call, op, outLen, got, pay, attempts, m_sock, down, copen,
                   server, g_sockets_cnt, execs, tainted>>

\* Seeded fault: no payload is received
PayloadSkipped ==
    /\ cpc \in {"rxHdr", "rxPay"}
    /\ \/ Go("TIMEOUT", "end")
       \/ cpc = "rxHdr" /\ Go("OK", "rxHdrLoop")
       \/ cpc = "rxPay" /\ Go("OK", "end")
    /\ UNCHANGED <<call, op, outLen, got, pay, attempts, m_sock, network,
                   server, g_sockets_cnt, execs, tainted>>

\* The frame_rx wrapper: an expired deadline is seen before the first recv(),
\* and for an empty frame too
FrameRxEntry ==
    /\ cpc \in {"rxHdr", "rxPay"}
    /\ \/ Go("TIMEOUT", "end")
       \/ cpc = "rxHdr" /\ Go("OK", "rxHdrLoop")
       \/ cpc = "rxPay" /\ Go("OK", IF got.len = 0 THEN "end" ELSE "rxPayLoop")
    /\ UNCHANGED <<call, op, outLen, got, pay, attempts, m_sock, network,
                   server, g_sockets_cnt, execs, tainted>>

\* The head of the stream as the client's recv() takes it
ClientTakes(u) ==
    /\ down[m_sock] # <<>>
    /\ u = Head(down[m_sock])
    /\ down' = [down EXCEPT ![m_sock] = Tail(@)]

\* The ways a client's receive fails
ClientRxFails(res) == RxFails(down[m_sock], spc[m_sock] = "done", res) /\ UNCHANGED down

RecvHeader ==
    /\ cpc = "rxHdrLoop" /\ call = "TRANSACTION"
    /\ \/ LET u == Head(down[m_sock]) IN   \* its command is not looked at
            /\ ClientTakes(u)
            /\ \/ IsPrefix(u) /\ got' = u /\ Go("OK", "rxPay")
               \/ IsPrefix(u) /\ u.len = 1 /\ "ALLOC" \in Faults
                  /\ got' = u /\ Go("GENERAL", "end")
               \/ ~IsPrefix(u) /\ got' = got /\ Go("SYNC", "end")
            /\ UNCHANGED tainted
       \/ /\ \E res \in {"CLOSED", "RX", "TIMEOUT"} : ClientRxFails(res) /\ Go(res, "end")
          /\ UNCHANGED <<got, tainted>>
       \/ /\ SelectFails                   \* the buffer may keep an older prefix
          /\ Go("SYNC", "end") \/ (got # NoPrefix /\ Go("OK", "rxPay"))
          /\ tainted' = tainted \cup {m_sock}
          /\ UNCHANGED <<got, down>>
    /\ UNCHANGED <<call, op, outLen, pay, attempts, m_sock, up, copen,
                   server, g_sockets_cnt, execs>>

RecvPayload ==
    /\ cpc = "rxPayLoop"
    /\ \/ LET u == Head(down[m_sock]) IN
            /\ ClientTakes(u)
            /\ pay' = IF IsPrefix(u) THEN 0 ELSE u.id
            /\ Go("OK", "end")
            /\ UNCHANGED tainted
       \/ /\ \E res \in {"CLOSED", "RX", "TIMEOUT"} : ClientRxFails(res) /\ Go(res, "end")
          /\ UNCHANGED <<pay, tainted>>
       \/ /\ SelectFails
          /\ Go("OK", "end")
          /\ tainted' = tainted \cup {m_sock}
          /\ UNCHANGED <<pay, down>>
    /\ UNCHANGED <<call, op, outLen, got, attempts, m_sock, up, copen,
                   server, g_sockets_cnt, execs>>

\* Seeded fault: a failed exchange is tried again and again
RetriesForever == state \in {"TX", "RX"}

\* A reset or a failed send is tried once more, on a new connection
Retries == state \in {"TX", "RX"} /\ attempts[op] = 1

Reconnect ==
    /\ cpc = "end" /\ Retries
    /\ \E res \in {"OK", "OPEN", "CONNECT"} : connect(res) /\ Go(res, "txHdr")
    /\ attempts' = [attempts EXCEPT ![op] = @ + 1]
    /\ UNCHANGED <<call, op, outLen, got, pay, listening, m_stop, tr, execs>>

\* Transaction or Sync returns and its locals are gone
Return ==
    /\ cpc' = "idle" /\ outLen' = 0 /\ state' = "OK" /\ got' = NoPrefix /\ pay' = 0
    /\ UNCHANGED <<call, op, attempts>>

\* Seeded fault: the socket of a failed Transaction is kept
FailedEndKeepsSocket ==
    /\ cpc = "end" /\ ~Retries
    /\ Return
    /\ UNCHANGED <<m_sock, copen, down, g_sockets_cnt, up, server, execs, tainted>>

\* A failed Transaction closes the socket
TransactionEnd ==
    /\ cpc = "end" /\ ~Retries
    /\ Return
    /\ IF state = "OK"
       THEN UNCHANGED <<m_sock, copen, down, g_sockets_cnt>>
       ELSE socket_close
    /\ UNCHANGED <<up, server, execs, tainted>>

\* Sync leaves the socket as it is, with the answer perhaps still to come
SyncEnd(ok) ==
    /\ Return
    /\ tainted' = IF ok \/ m_sock = NoSock THEN tainted ELSE tainted \cup {m_sock}

SyncSend ==
    /\ cpc = "txHdr" /\ call = "SYNC"
    /\ \E res \in {"OK", "TX"} :
         /\ ClientTx(Prefix("PING_REQUEST", op, 0), res)
         /\ \/ /\ res = "OK" /\ Go("OK", "rxHdrLoop")
               /\ UNCHANGED <<call, op, outLen, got, pay, attempts, tainted>>
            \/ res = "TX" /\ SyncEnd(FALSE)
    /\ UNCHANGED <<m_sock, down, copen, server, g_sockets_cnt, execs>>

\* Seeded fault: a Sync that fails to receive reports success
SyncBelieves ==
    /\ cpc = "rxHdrLoop" /\ call = "SYNC"
    /\ \/ LET u == Head(down[m_sock]) IN
            ClientTakes(u) /\ SyncEnd(u.cmd = "PING_RESPONSE" /\ u.id = op)
       \/ \E res \in {"CLOSED", "RX", "TIMEOUT"} : ClientRxFails(res) /\ SyncEnd(TRUE)
       \/ SelectFails /\ SyncEnd(FALSE) /\ UNCHANGED down
    /\ UNCHANGED <<m_sock, up, copen, server, g_sockets_cnt, execs>>

SyncRecv ==
    /\ cpc = "rxHdrLoop" /\ call = "SYNC"
    /\ \/ LET u == Head(down[m_sock]) IN
            ClientTakes(u) /\ SyncEnd(u.cmd = "PING_RESPONSE" /\ u.id = op)
       \/ \E res \in {"CLOSED", "RX", "TIMEOUT"} : ClientRxFails(res) /\ SyncEnd(FALSE)
       \/ SelectFails /\ SyncEnd(FALSE) /\ UNCHANGED down
    /\ UNCHANGED <<m_sock, up, copen, server, g_sockets_cnt, execs>>

-----------------------------------------------------------------------------
(* The shell of connection c *)

\* Descriptors and threads of accepted connections
Serving(c) == spc[c] \notin Unserved

\* transaction_t::reset and ::start keep out_cmd and out_code
Reset(t) == [state |-> "OK", inp |-> NoPrefix, pay |-> 0, out |-> [t.out EXCEPT !.len = 0]]

\* A stage ends with "res": the stages after a failed one do nothing, and
\* ShellClose is told the state
Stage(c, t, res, pc) ==
    /\ spc' = [spc EXCEPT ![c] = IF res = "OK" THEN pc ELSE "close"]
    /\ tr' = [tr EXCEPT ![c] = IF res # "OK" THEN [Reset(t) EXCEPT !.state = res]
                               ELSE IF pc = "top" THEN Reset(t) ELSE t]

\* Seeded fault: a shell that does not look at m_stop
ShellNeverStops(c) ==
    /\ spc[c] = "top"
    /\ spc' = [spc EXCEPT ![c] = "wait"]
    /\ UNCHANGED <<client, m_sock, network, listening, m_stop, tr, g_sockets_cnt,
                   execs, tainted>>

ShellTop(c) ==
    /\ spc[c] = "top"
    /\ spc' = [spc EXCEPT ![c] = IF m_stop THEN "closing" ELSE "wait"]
    /\ UNCHANGED <<client, m_sock, network, listening, m_stop, tr, g_sockets_cnt,
                   execs, tainted>>

\* frame_wait: one second of select(), then the stop flag again
FrameWait(c) ==
    /\ spc[c] = "wait"
    /\ LET readable == up[c] # <<>> \/ c \notin copen IN
         \/ readable /\ spc' = [spc EXCEPT ![c] = "rxHdr"]
         \/ ~readable /\ spc' = [spc EXCEPT ![c] = "top"]
         \/ "SELECT" \in Faults /\ spc' = [spc EXCEPT ![c] = "closing"]
    /\ UNCHANGED <<client, m_sock, network, listening, m_stop, tr, g_sockets_cnt,
                   execs, tainted>>

\* The frame_rx wrapper, for the prefix and for the payload of a request
ShellRxEntry(c) ==
    /\ spc[c] \in {"rxHdr", "rxPay"}
    /\ \/ Stage(c, tr[c], "TIMEOUT", "close")
       \/ spc[c] = "rxHdr" /\ Stage(c, tr[c], "OK", "rxHdrLoop")
       \/ spc[c] = "rxPay" /\ Stage(c, tr[c], "OK",
                                    IF tr[c].inp.len = 0 THEN "exec" ELSE "rxPayLoop")
    /\ UNCHANGED <<client, m_sock, network, listening, m_stop, g_sockets_cnt,
                   execs, tainted>>

\* Seeded fault: the shell peeks at the stream
ShellPeeks(c, u) ==
    /\ up[c] # <<>>
    /\ u = Head(up[c])
    /\ UNCHANGED up

\* The head of the stream as the shell's recv() takes it
ShellTakes(c, u) ==
    /\ up[c] # <<>>
    /\ u = Head(up[c])
    /\ up' = [up EXCEPT ![c] = Tail(@)]

ShellRxFails(c, res) == RxFails(up[c], c \notin copen, res) /\ UNCHANGED up

ShellReadPrefix(c) ==
    /\ spc[c] = "rxHdrLoop"
    /\ \/ LET u == Head(up[c]) IN
            /\ ShellTakes(c, u)
            /\ \/ IsPrefix(u) /\ Stage(c, [tr[c] EXCEPT !.inp = u], "OK", "rxPay")
               \/ IsPrefix(u) /\ u.len = 1 /\ "ALLOC" \in Faults
                  /\ Stage(c, tr[c], "GENERAL", "close")
               \/ ~IsPrefix(u) /\ Stage(c, tr[c], "SYNC", "close")
       \/ \E res \in {"CLOSED", "RX", "TIMEOUT"} :
            ShellRxFails(c, res) /\ Stage(c, tr[c], res, "close")
       \/ SelectFails /\ Stage(c, tr[c], "SYNC", "close") /\ UNCHANGED up
    /\ UNCHANGED <<client, m_sock, down, copen, listening, m_stop, g_sockets_cnt,
                   execs, tainted>>

ShellReadPayload(c) ==
    /\ spc[c] = "rxPayLoop"
    /\ \/ LET u == Head(up[c]) IN
            /\ ShellTakes(c, u)
            /\ Stage(c, [tr[c] EXCEPT !.pay = u.id], "OK", "exec")
            /\ UNCHANGED tainted
       \/ /\ \E res \in {"CLOSED", "RX", "TIMEOUT"} :
               ShellRxFails(c, res) /\ Stage(c, tr[c], res, "close")
          /\ UNCHANGED tainted
       \/ /\ SelectFails /\ Stage(c, tr[c], "OK", "exec")
          /\ tainted' = tainted \cup {c}
          /\ UNCHANGED up
    /\ UNCHANGED <<client, m_sock, down, copen, listening, m_stop, g_sockets_cnt, execs>>

\* A ping is answered at once, a request goes to the handler, and for any
\* other command the answer is what the last one left in out_cmd
ShellCmdExec(c) ==
    /\ spc[c] = "exec"
    /\ LET inp == tr[c].inp IN
         \/ /\ inp.cmd # "REQUEST"
            /\ Stage(c, IF inp.cmd = "PING_REQUEST"
                        THEN [tr[c] EXCEPT !.out = Prefix("PING_RESPONSE", inp.id, 0)]
                        ELSE tr[c],
                     "OK", "txHdr")
            /\ UNCHANGED execs
         \/ /\ inp.cmd = "REQUEST"
            /\ Stage(c, tr[c], "OK", "handler")
            /\ execs' = [execs EXCEPT ![inp.id] = @ + 1]
    /\ UNCHANGED <<client, m_sock, network, listening, m_stop, g_sockets_cnt, tainted>>

\* Seeded fault: the exception of a handler is dropped and the shell goes on
HandlerFailsSilently(c) ==
    /\ spc[c] = "handler"
    /\ LET whose == IF tr[c].inp.len = 0 THEN tr[c].inp.id ELSE tr[c].pay IN
         \/ \E len \in {0, 1} :
              Stage(c, [tr[c] EXCEPT !.out = Prefix("RESPONSE", whose, len)], "OK", "txHdr")
         \/ "HANDLER" \in Faults /\ Stage(c, tr[c], "OK", "top")
    /\ UNCHANGED <<client, m_sock, network, listening, m_stop, g_sockets_cnt,
                   execs, tainted>>

\* The handler returns an answer to the data it was given, or throws
HandlerReturns(c) ==
    /\ spc[c] = "handler"
    /\ LET whose == IF tr[c].inp.len = 0 THEN tr[c].inp.id ELSE tr[c].pay IN
         \/ \E len \in {0, 1} :
              Stage(c, [tr[c] EXCEPT !.out = Prefix("RESPONSE", whose, len)], "OK", "txHdr")
         \/ "HANDLER" \in Faults /\ Stage(c, tr[c], "EXEC", "close")
    /\ UNCHANGED <<client, m_sock, network, listening, m_stop, g_sockets_cnt,
                   execs, tainted>>

ShellSendPrefix(c) ==
    /\ spc[c] = "txHdr"
    /\ \E res \in {"OK", "TX"} :
         /\ ShellTx(c, tr[c].out, res)
         /\ Stage(c, tr[c], res, IF tr[c].out.len = 0 THEN "top" ELSE "txPay")
    /\ UNCHANGED <<client, m_sock, up, copen, listening, m_stop, g_sockets_cnt,
                   execs, tainted>>

ShellSendPayload(c) ==
    /\ spc[c] = "txPay"
    /\ \E res \in {"OK", "TX"} :
         /\ ShellTx(c, Payload(tr[c].out.id), res)
         /\ Stage(c, tr[c], res, "top")
    /\ UNCHANGED <<client, m_sock, up, copen, listening, m_stop, g_sockets_cnt,
                   execs, tainted>>

\* Seeded fault: the shell goes on after CMD_ERROR
ShellGoesOn(c) ==
    /\ spc[c] = "close"
    /\ IF tr[c].state = "CLOSED"
       THEN UNCHANGED down
       ELSE \E res \in {"OK", "TX"} : ShellTx(c, Prefix("ERROR", 0, 0), res)
    /\ spc' = [spc EXCEPT ![c] = "top"]
    /\ UNCHANGED <<client, m_sock, up, copen, listening, m_stop, tr, g_sockets_cnt,
                   execs, tainted>>

\* The client is told of the failure unless it has closed; a failed send is
\* not looked at
ShellClose(c) ==
    /\ spc[c] = "close"
    /\ IF tr[c].state = "CLOSED"
       THEN UNCHANGED down
       ELSE \E res \in {"OK", "TX"} : ShellTx(c, Prefix("ERROR", 0, 0), res)
    /\ spc' = [spc EXCEPT ![c] = "closing"]
    /\ UNCHANGED <<client, m_sock, up, copen, listening, m_stop, tr, g_sockets_cnt,
                   execs, tainted>>

\* socket_close(sock) at the end of Shell
ShellEnd(c) ==
    /\ spc[c] = "closing"
    /\ spc' = [spc EXCEPT ![c] = "done"]
    /\ up' = [up EXCEPT ![c] = <<>>]
    /\ tr' = [tr EXCEPT ![c] = NewTr]
    /\ g_sockets_cnt' = g_sockets_cnt - 1
    /\ UNCHANGED <<client, m_sock, down, copen, listening, m_stop, execs, tainted>>

-----------------------------------------------------------------------------
(* The service thread, and Start and Stop of the application *)

\* socket_accept and StartClient; m_stop was read before the wait
Accept(c) ==
    /\ listening
    /\ spc[c] = "backlog"
    /\ spc' = [spc EXCEPT ![c] = "top"]
    /\ tr' = [tr EXCEPT ![c] = NewTr]
    /\ g_sockets_cnt' = g_sockets_cnt + 1
    /\ UNCHANGED <<client, m_sock, network, listening, m_stop, execs, tainted>>

\* Service ends: connections nobody accepted are reset
ServiceDown ==
    /\ listening /\ m_stop
    /\ listening' = FALSE
    /\ spc' = [c \in Conns |-> IF spc[c] = "backlog" THEN "done" ELSE spc[c]]
    /\ up' = [c \in Conns |-> IF spc[c] = "backlog" THEN <<>> ELSE up[c]]
    /\ g_sockets_cnt' = g_sockets_cnt - 1
    /\ UNCHANGED <<client, m_sock, down, copen, m_stop, tr, execs, tainted>>

Stop ==
    /\ listening /\ ~m_stop
    /\ m_stop' = TRUE
    /\ UNCHANGED <<client, m_sock, network, listening, spc, tr, g_sockets_cnt,
                   execs, tainted>>

\* Start waits for a Stop in progress, which waits for every shell
Start ==
    /\ ~listening /\ \A c \in Conns : ~Serving(c)
    /\ listening' = TRUE /\ m_stop' = FALSE
    /\ g_sockets_cnt' = g_sockets_cnt + 1
    /\ UNCHANGED <<client, m_sock, network, spc, tr, execs, tainted>>

-----------------------------------------------------------------------------
\* A client that has called Connect once, which gave it a port, and is closed
Init ==
    /\ cpc = "idle" /\ call = "TRANSACTION" /\ op = 0 /\ outLen = 0 /\ state = "OK"
    /\ got = NoPrefix /\ pay = 0
    /\ m_sock = NoSock
    /\ up = [c \in Conns |-> <<>>] /\ down = [c \in Conns |-> <<>>] /\ copen = {}
    /\ listening = FALSE /\ m_stop = FALSE
    /\ spc = [c \in Conns |-> "done"] /\ tr = [c \in Conns |-> NewTr]
    /\ g_sockets_cnt = 0
    /\ attempts = [o \in Ops |-> 0] /\ execs = [o \in Ops |-> 0] /\ tainted = {}

\* What the application decides
AppCall == Connect \/ Close \/ StartTransaction \/ StartSync
Manage  == Start \/ Stop

\* A call in progress
ClientStep ==
    \/ SendPrefix \/ SendPayload \/ FrameRxEntry \/ RecvHeader \/ RecvPayload
    \/ Reconnect \/ TransactionEnd \/ SyncSend \/ SyncRecv

\* A shell, outside the handler
ShellStep(c) ==
    \/ ShellTop(c) \/ FrameWait(c) \/ ShellRxEntry(c) \/ ShellReadPrefix(c)
    \/ ShellReadPayload(c) \/ ShellCmdExec(c) \/ ShellSendPrefix(c)
    \/ ShellSendPayload(c) \/ ShellClose(c) \/ ShellEnd(c)

Next ==
    \/ AppCall \/ Manage \/ ClientStep \/ ServiceDown
    \/ \E c \in Conns : Accept(c) \/ ShellStep(c) \/ HandlerReturns(c)

Spec == Init /\ [][Next]_vars

\* frame_tx blocks, without a deadline, until its peer has made room: what is
\* free on the way takes a prefix, and no more is sure.  The peer makes room
\* while it receives, and a send to one that has closed returns.
ClientReceives(c) == m_sock = c /\ cpc \in {"rxHdr", "rxHdrLoop", "rxPay", "rxPayLoop"}
ShellReceives(c)  == spc[c] \in {"top", "wait", "rxHdr", "rxHdrLoop", "rxPay", "rxPayLoop"}

\* The client may be held in a send for as long as this lasts
ClientHeld ==
    /\ cpc \in {"txHdr", "txPay"}
    /\ Peer \notin {"done", "refused"} /\ ~ShellReceives(m_sock)
    /\ cpc = "txPay" \/ up[m_sock] # <<>>

ShellHeld(c) ==
    /\ spc[c] \in {"txHdr", "txPay", "close"}
    /\ c \in copen /\ ~ClientReceives(c)
    /\ spc[c] = "txPay" \/ down[c] # <<>>

\* Nobody may count on a failing select(), the one thing that taints a
\* connection while a Transaction runs, to end a wait
NoSelectFailure == call = "TRANSACTION" => tainted' \subseteq tainted

\* Threads run: the client's, the service and the shells, but for those that
\* are held in a send.  The application owes no call, and a handler may never
\* return.
ThreadsRun ==
    /\ WF_vars(~ClientHeld /\ ClientStep /\ NoSelectFailure)
    /\ WF_vars(ServiceDown)
    /\ \A c \in Conns : WF_vars(Accept(c)) /\ WF_vars(~ShellHeld(c) /\ ShellStep(c))

HandlersReturn == \A c \in Conns : WF_vars(HandlerReturns(c))

FairSpec        == Spec /\ ThreadsRun /\ HandlersReturn
HungHandlerSpec == Spec /\ ThreadsRun

-----------------------------------------------------------------------------
(* Properties *)

TypeOK ==
    /\ cpc \in ClientPCs /\ call \in {"TRANSACTION", "SYNC"}
    /\ op \in Ops /\ outLen \in {0, 1}
    /\ state \in ConnStates
    /\ got \in Prefixes /\ pay \in Ops
    /\ m_sock \in Conns \cup {NoSock}
    /\ up \in [Conns -> Seq(Units)] /\ down \in [Conns -> Seq(Units)]
    /\ copen \subseteq Conns
    /\ listening \in BOOLEAN /\ m_stop \in BOOLEAN
    /\ spc \in [Conns -> ShellPCs]
    /\ tr \in [Conns -> [state : ConnStates, inp : Prefixes, pay : Ops, out : Prefixes]]
    /\ g_sockets_cnt \in Int
    /\ attempts \in [Ops -> 0 .. 2] /\ execs \in [Ops -> Nat]
    /\ tainted \subseteq Conns

\* SocketClient::Transaction is about to return true: the answer is the
\* handler's to this very request, whole, or a CMD_ERROR prefix.
\* Connections put out of step by Sync or by select() are excepted.
ReplyIsOwn ==
    cpc = "end" /\ state = "OK" /\ m_sock \notin tainted =>
        \/ /\ got.cmd = "RESPONSE" /\ got.id = op
           /\ got.len = 1 => pay = op
           /\ execs[op] >= 1
        \/ got = Prefix("ERROR", 0, 0)

\* Between calls, a connection that the client keeps and that was never put
\* out of step carries nothing, and its shell, when there still is one, waits
\* for a request: the next Transaction may use it.
IdleIsQuiet ==
    cpc = "idle" /\ m_sock # NoSock /\ m_sock \notin tainted =>
        /\ down[m_sock] = <<>>
        /\ \/ spc[m_sock] \in {"backlog", "top", "wait"} /\ up[m_sock] = <<>>
           \/ spc[m_sock] \in {"closing", "done", "refused"}

\* Transaction retries by sending the request again: the handler runs at most
\* once per sending, and a request is sent at most twice.
ExecsBounded == \A o \in Ops : execs[o] <= attempts[o]

\* The call in progress, as RemoteCall sees it: answered when it is about to
\* return the handler's answer, on a connection in step
Phase ==
    IF cpc = "idle" THEN "idle"
    ELSE IF cpc = "end" /\ state = "OK" /\ got.cmd = "RESPONSE" /\ m_sock \notin tainted
    THEN "answered" ELSE "pending"

Remote == INSTANCE RemoteCall WITH phase <- Phase, sends <- attempts

\* The client, the shells of all its connections and the service implement
\* calls that run the handler at most once per sending, and that are answered
\* only after it ran.
CallsAreRemote == Remote!Spec

\* ShellClose: CMD_ERROR is the last thing a shell says on its connection.
ErrorIsLast ==
    \A c \in Conns : \A i \in DOMAIN down[c] :
        down[c][i].cmd = "ERROR" => i = Len(down[c]) /\ spc[c] \in {"closing", "done"}

\* A SocketClient holds one descriptor at most, the one in m_sock, through
\* failed connects, retries and failed exchanges.
NoLeakedHandle == copen = {m_sock} \ {NoSock}

\* g_sockets_cnt counts the listening socket, the client's descriptor and one
\* per connection being served.
SocketsAccounted ==
    g_sockets_cnt = (IF listening THEN 1 ELSE 0) + Cardinality(copen)
                    + Cardinality({c \in Conns : Serving(c)})

\* Every call of Transaction and Sync returns, or it stays for ever in a send
\* over a connection out of step: sends have no deadline, and the shell there
\* may be held in a send itself, or be in a handler that never returns.
CallReturns ==
    cpc # "idle" ~> (cpc = "idle" \/ [](ClientHeld /\ m_sock \in tainted))

\* After Stop the service and every shell end, so that StopMe can return.
StopCompletes == m_stop ~> ~listening /\ \A c \in Conns : ~Serving(c)

(* What the callers in SockSrvClient/main.cpp expect of a Transaction that  *)
(* returns true, and the code does not give: each is refuted by a run.      *)

\* True means that the handler answered: main.cpp asserts that the code
\* returned is the one its handler set.
TrueMeansAnswered == cpc = "end" /\ state = "OK" => got.cmd = "RESPONSE"

\* An answer is never one to an earlier call.
AnswerIsNotStale ==
    cpc = "end" /\ state = "OK" => got.id = op \/ got.cmd = "ERROR"

\* The frame handed back is all that the handler produced: main.cpp asserts
\* that it equals the handler's data.
TrueMeansWhole ==
    cpc = "end" /\ state = "OK" /\ got.cmd = "RESPONSE" /\ got.len = 1 => pay = got.id

=============================================================================
