---------------------------- MODULE FrameExchange ----------------------------
(***************************************************************************)
(* One connection of a SocketClient and the shell that serves it, at the   *)
(* grain of FrameIO: the order in which Transaction, Sync and Shell call   *)
(* the frame functions, over buffers of bounded size.                      *)
(*                                                                         *)
(* SockTransaction has whole frames, retries, many connections and the     *)
(* service; here are partial transfers, sends that wait for room, and      *)
(* deadlines that pass in the middle of a frame.  A client that closes its *)
(* connection is not followed to the next one.                             *)
(***************************************************************************)
EXTENDS FrameIO

CONSTANT Calls      \* which exchanges the application makes

ASSUME CallsAssumption == Calls \subseteq {"TRANSACTION", "SYNC"}

VARIABLES
    cpc,        \* the step of Transaction or Sync the client is in
    spc,        \* the step of Shell
    calls,      \* calls of the client so far
    hdr,        \* the prefix each end is working with
    m_stop,     \* SocketServer::m_stop
    late        \* history: a Sync has failed on this connection

vars == <<io_vars, cpc, spc, calls, hdr, m_stop, late>>

ClientPCs == {"idle", "txHdr", "txPay", "rxHdr", "rxPay", "txPing", "rxPing", "closed"}
ShellPCs  == {"top", "wait", "rxHdr", "rxPay", "txHdr", "txPay", "txErr", "closed"}

\* The frame function that the end called last has returned, well or not
Back(e)   == sock[e].io = "BACK"
BackOK(e) == Back(e) /\ sock[e].state = "OK"

\* The prefix that the end has just received
Received(e) == FrameIn(sock[e].inp)

\* Prefix::Valid: a prefix that is whole
Valid(e) == Received(e).kind \in HdrKinds

\* An end calls a frame function, which leaves its record as s; a frame_tx
\* has begun to send
Call(e, s) ==
    /\ sock' = [sock EXCEPT ![e] = s]
    /\ flight' = IF s.io = "SEND" /\ Other(e) \in open
                 THEN [flight EXCEPT ![Other(e)] = Append(@, s.out)] ELSE flight
    /\ UNCHANGED <<wire, open, taken, broken>>

-----------------------------------------------------------------------------
(* The client *)

Begin(kind, len, left, pc) ==
    /\ cpc = "idle" /\ calls < MaxCalls
    /\ LET h == Hdr(kind, calls + 1, len) IN
         /\ hdr' = [hdr EXCEPT !["CLI"] = h]
         /\ Call("CLI", frame_tx([Fresh EXCEPT !.left = left], h))
    /\ calls' = calls + 1
    /\ cpc' = pc
    /\ UNCHANGED <<spc, m_stop, late>>

\* Transaction starts its clock, Sync has none yet; both send a prefix
Transaction == "TRANSACTION" \in Calls /\ \E len \in Lens : Begin("REQUEST", len, Delay, "txHdr")
Sync        == "SYNC" \in Calls /\ Begin("PING_REQUEST", 0, 0, "txPing")

SendPayload ==
    /\ cpc = "txHdr" /\ BackOK("CLI")
    /\ cpc' = "txPay"
    /\ Call("CLI", frame_tx(sock["CLI"], Pay(calls, hdr["CLI"].len)))
    /\ UNCHANGED <<spc, calls, hdr, m_stop, late>>

RecvHeader ==
    /\ cpc = "txPay" /\ BackOK("CLI")
    /\ cpc' = "rxHdr"
    /\ Call("CLI", frame_rx_until(sock["CLI"], HdrSize))
    /\ UNCHANGED <<spc, calls, hdr, m_stop, late>>

\* Seeded fault: the buffer of the payload is not given its size
RecvPayloadUnsized ==
    /\ cpc = "rxHdr" /\ BackOK("CLI") /\ Valid("CLI")
    /\ cpc' = "rxPay"
    /\ hdr' = [hdr EXCEPT !["CLI"] = Received("CLI")]
    /\ Call("CLI", frame_rx_until(sock["CLI"], 0))
    /\ UNCHANGED <<spc, calls, m_stop, late>>

\* The command of the prefix is not looked at
RecvPayload ==
    /\ cpc = "rxHdr" /\ BackOK("CLI") /\ Valid("CLI")
    /\ cpc' = "rxPay"
    /\ hdr' = [hdr EXCEPT !["CLI"] = Received("CLI")]
    /\ Call("CLI", frame_rx_until(sock["CLI"], Received("CLI").len))
    /\ UNCHANGED <<spc, calls, m_stop, late>>

\* The locals of a call are gone
Return == cpc' = "idle" /\ hdr' = [hdr EXCEPT !["CLI"] = NoFrame] /\ Call("CLI", Fresh)

TransactionOK ==
    /\ cpc = "rxPay" /\ BackOK("CLI")
    /\ Return
    /\ UNCHANGED <<spc, calls, m_stop, late>>

\* The client leaves the connection
Leave ==
    /\ cpc' = "closed" /\ hdr' = [hdr EXCEPT !["CLI"] = NoFrame]
    /\ socket_close("CLI")
    /\ UNCHANGED <<spc, calls, m_stop, late>>

\* A Transaction that fails closes its connection, to try again on another
\* one or to give up
TransactionFails ==
    /\ cpc \in {"txHdr", "txPay", "rxHdr", "rxPay"} /\ Back("CLI")
    /\ sock["CLI"].state # "OK" \/ (cpc = "rxHdr" /\ ~Valid("CLI"))
    /\ Leave

\* Sync gives the delay to frame_rx itself: its clock starts after the send
SyncRecv ==
    /\ cpc = "txPing" /\ BackOK("CLI")
    /\ cpc' = "rxPing"
    /\ Call("CLI", frame_rx([sock["CLI"] EXCEPT !.left = Delay], HdrSize))
    /\ UNCHANGED <<spc, calls, hdr, m_stop, late>>

\* Whatever comes of it, the connection is kept
SyncReturns ==
    /\ cpc \in {"txPing", "rxPing"} /\ Back("CLI")
    /\ cpc = "txPing" => sock["CLI"].state # "OK"
    /\ late' = (late \/ ~(/\ sock["CLI"].state = "OK"
                          /\ Received("CLI") = Hdr("PING_RESPONSE", calls, 0)))
    /\ Return
    /\ UNCHANGED <<spc, calls, m_stop>>

\* SocketClient::Close
Close == cpc = "idle" /\ Leave

-----------------------------------------------------------------------------
(* The shell *)

\* Seeded fault: a shell that stops keeps its socket
ShellTopKeepsSocket ==
    /\ spc = "top"
    /\ spc' = IF m_stop THEN "closed" ELSE "wait"
    /\ UNCHANGED <<io_vars, cpc, calls, hdr, m_stop, late>>

ShellTop ==
    /\ spc = "top"
    /\ IF m_stop
       THEN spc' = "closed" /\ socket_close("SRV")
       ELSE spc' = "wait" /\ UNCHANGED io_vars
    /\ UNCHANGED <<cpc, calls, hdr, m_stop, late>>

\* Seeded fault: the wait for a request has no end
FrameWaitForever ==
    /\ spc = "wait" /\ Readable("SRV")
    /\ spc' = "rxHdr"
    /\ Call("SRV", frame_rx_until([Fresh EXCEPT !.left = Delay], HdrSize))
    /\ UNCHANGED <<cpc, calls, hdr, m_stop, late>>

\* ShellCmdStart: the clock of an exchange starts with its first byte
FrameWait ==
    /\ spc = "wait"
    /\ \/ /\ Readable("SRV")
          /\ spc' = "rxHdr"
          /\ Call("SRV", frame_rx_until([Fresh EXCEPT !.left = Delay], HdrSize))
       \/ ~Readable("SRV") /\ spc' = "top" /\ UNCHANGED io_vars
       \/ "SELECT" \in Faults /\ spc' = "closed" /\ socket_close("SRV")
    /\ UNCHANGED <<cpc, calls, hdr, m_stop, late>>

\* The client's timeout becomes the deadline, and Delay stands for either
ShellReadPayload ==
    /\ spc = "rxHdr" /\ BackOK("SRV") /\ Valid("SRV")
    /\ spc' = "rxPay"
    /\ hdr' = [hdr EXCEPT !["SRV"] = Received("SRV")]
    /\ Call("SRV", frame_rx_until(sock["SRV"], Received("SRV").len))
    /\ UNCHANGED <<cpc, calls, m_stop, late>>

\* The answer to a ping, or what the handler makes of a request
Answers(h) ==
    IF h.kind = "PING_REQUEST" THEN {Hdr("PING_RESPONSE", h.id, 0)}
    ELSE {Hdr("RESPONSE", h.id, len) : len \in Lens}

\* ShellCmdExec and ShellSendPrefix
ShellExec ==
    /\ spc = "rxPay" /\ BackOK("SRV")
    /\ spc' = "txHdr"
    /\ \E h \in Answers(hdr["SRV"]) :
         hdr' = [hdr EXCEPT !["SRV"] = h] /\ Call("SRV", frame_tx(sock["SRV"], h))
    /\ UNCHANGED <<cpc, calls, m_stop, late>>

ShellSendPayload ==
    /\ spc = "txHdr" /\ BackOK("SRV")
    /\ spc' = "txPay"
    /\ Call("SRV", frame_tx(sock["SRV"], Pay(hdr["SRV"].id, hdr["SRV"].len)))
    /\ UNCHANGED <<cpc, calls, hdr, m_stop, late>>

ShellDone ==
    /\ spc = "txPay" /\ BackOK("SRV")
    /\ spc' = "top"
    /\ hdr' = [hdr EXCEPT !["SRV"] = NoFrame]
    /\ Call("SRV", Fresh)
    /\ UNCHANGED <<cpc, calls, m_stop, late>>

\* ShellClose: CMD_ERROR is sent unless the client has closed; also when
\* ShellCmdExec has caught an exception of the handler
ShellFails ==
    /\ spc \in {"rxHdr", "rxPay", "txHdr", "txPay"} /\ Back("SRV")
    /\ \/ sock["SRV"].state # "OK"
       \/ spc = "rxHdr" /\ ~Valid("SRV")
       \/ spc = "rxPay" /\ hdr["SRV"].kind # "PING_REQUEST" /\ "HANDLER" \in Faults
    /\ hdr' = [hdr EXCEPT !["SRV"] = NoFrame]
    /\ IF sock["SRV"].state = "CLOSED"
       THEN spc' = "closed" /\ socket_close("SRV")
       ELSE spc' = "txErr" /\ Call("SRV", frame_tx(Fresh, Hdr("ERROR", 0, 0)))
    /\ UNCHANGED <<cpc, calls, m_stop, late>>

\* Whether CMD_ERROR could be sent is not looked at
ShellEnd ==
    /\ spc = "txErr" /\ Back("SRV")
    /\ spc' = "closed" /\ socket_close("SRV")
    /\ UNCHANGED <<cpc, calls, hdr, m_stop, late>>

Stop == ~m_stop /\ m_stop' = TRUE /\ UNCHANGED <<io_vars, cpc, spc, calls, hdr, late>>

-----------------------------------------------------------------------------
\* The client has connected and the service has accepted
Init ==
    /\ IoInit
    /\ cpc = "idle" /\ spc = "top" /\ calls = 0
    /\ hdr = [e \in Ends |-> NoFrame]
    /\ m_stop = FALSE /\ late = FALSE

Loop(e) == LoopStep(e) /\ UNCHANGED <<cpc, spc, calls, hdr, m_stop, late>>
Time    == Tick /\ UNCHANGED <<cpc, spc, calls, hdr, m_stop, late>>

ClientStep ==
    \/ Loop("CLI")
    \/ SendPayload \/ RecvHeader \/ RecvPayload \/ TransactionOK \/ TransactionFails
    \/ SyncRecv \/ SyncReturns

ShellStep ==
    \/ Loop("SRV")
    \/ ShellTop \/ FrameWait \/ ShellReadPayload \/ ShellExec \/ ShellSendPayload
    \/ ShellDone \/ ShellFails \/ ShellEnd

AppStep == Transaction \/ Sync \/ Close \/ Stop

Next == ClientStep \/ ShellStep \/ AppStep \/ Time

Spec == Init /\ [][Next]_vars

\* The client runs and time passes; the application owes no call, and the
\* server may fall silent at any point, in the middle of a frame too
SilentServerSpec == Spec /\ WF_vars(ClientStep) /\ WF_vars(Time)

-----------------------------------------------------------------------------
(* Properties *)

TypeOK ==
    /\ IoTypeOK
    /\ cpc \in ClientPCs /\ spc \in ShellPCs
    /\ calls \in 0 .. MaxCalls
    /\ hdr \in [Ends -> Frames \cup {NoFrame}]
    /\ m_stop \in BOOLEAN /\ late \in BOOLEAN

Requests == INSTANCE FrameChannel WITH Nothing <- NoFrame,
    queue <- flight["SRV"], last <- taken["SRV"], broken <- "SRV" \in broken

Replies == INSTANCE FrameChannel WITH Nothing <- NoFrame,
    queue <- flight["CLI"], last <- taken["CLI"], broken <- "CLI" \in broken \/ late

\* Requests and answers, each direction by itself, are the atomic frames that
\* SockTransaction makes of them.  A Sync that gets another answer than its own
\* ends that for the answers: it does not look for a payload behind it.
FramesAreWhole == Requests!Spec /\ Replies!Spec

\* A frame_tx that fails has lost its peer: a full buffer only makes it wait.
\* The retry of Transaction relies on it, closing a connection that failed.
TxFailsOnlyWhenLeft ==
    \A e \in Ends : sock[e].state = "TX" => Other(e) \notin open

\* An end waits for room that its peer has to make
Held(e) == sock[e].io = "SEND" /\ Other(e) \in open /\ Len(wire[Other(e)]) = BufSize

\* The two ends may be out of step for good
OutOfStep == late \/ broken # {}

\* Sends have no deadline.  A shell is held by a client that makes no call,
\* or that is held itself, only on a connection out of step: a Sync failed on
\* it, or select() failed in the middle of a frame.
HeldOnlyOutOfStep ==
    Held("SRV") /\ (cpc = "idle" \/ Held("CLI")) => OutOfStep

\* The server does not fall silent
ServerRuns == WF_vars(ShellStep)

\* A client that is served and in step gets every call back: the payloads may
\* be larger than the buffers, and no send has a deadline.
CallReturns ==
    ServerRuns => (cpc \notin {"idle", "closed"} ~> cpc \in {"idle", "closed"} \/ OutOfStep)

\* After Stop the shell ends, whatever a client that is in step does.
StopEndsShell == ServerRuns => (m_stop ~> spc = "closed" \/ OutOfStep)

\* A receive ends at its deadline on Windows, whatever part of the frame has
\* arrived and whatever the peer does.
RxReturns == sock["CLI"].io \in {"RECV", "SELECT"} ~> Back("CLI")

=============================================================================
