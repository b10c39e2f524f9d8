------------------------------- MODULE FrameIO -------------------------------
(***************************************************************************)
(* The frame functions of src/dev/common/src/SockServerClient.cpp, byte by *)
(* byte: frame_tx and the two frame_rx loop over send() and recv(), which  *)
(* move what the buffers of the connection allow, on a socket that they    *)
(* switch between blocking and non-blocking (SockServerClientOsTools.cpp). *)
(*                                                                         *)
(* One connection with its two ends.  A caller starts a function with the  *)
(* operators frame_tx, frame_rx and frame_rx_until, which give the new     *)
(* record of its end; Send, Recv and Select are the system calls of the    *)
(* loops, and "BACK" says that the function has returned.  Time is counted *)
(* in ticks of a millisecond, by how many are left until a deadline.       *)
(***************************************************************************)
EXTENDS Integers, Sequences

CONSTANTS
    Platform,   \* "WINDOWS" or "LINUX", as in HidOsTypes.h
    HdrSize,    \* bytes of a prefix: 24 in the code
    BufSize,    \* bytes that fit in one direction of a connection
    Lens,       \* sizes of a payload
    MaxCalls,   \* bound on the calls of the client
    Delay,      \* ticks that a call may take
    Faults      \* "SELECT": select() may fail; "HANDLER": the handler may throw

ASSUME PlatformAssumption == Platform \in {"WINDOWS", "LINUX"}
\* The smallest buffer of a socket takes some thousand bytes
ASSUME SizesAssumption ==
    HdrSize \in Nat \ {0} /\ BufSize \in Nat /\ HdrSize <= BufSize /\ Lens \subseteq Nat
ASSUME BoundsAssumption == MaxCalls \in Nat /\ Delay \in Nat
ASSUME FaultsAssumption == Faults \subseteq {"SELECT", "HANDLER"}

VARIABLES
    wire,       \* the bytes on their way to each end
    open,       \* the ends whose descriptor is open
    sock,       \* what each end is doing with its socket
    flight,     \* history: the frames each end has yet to receive, the one being sent included
    taken,      \* history: the frame each end received last
    broken      \* history: the ends whose incoming stream lost its frames

io_vars == <<wire, open, sock, flight, taken, broken>>

-----------------------------------------------------------------------------
(* Frames and their bytes *)

Ends == {"CLI", "SRV"}
Other(e) == IF e = "CLI" THEN "SRV" ELSE "CLI"

HdrKinds == {"REQUEST", "RESPONSE", "PING_REQUEST", "PING_RESPONSE", "ERROR"}

\* A prefix announces the payload that follows it; "id" is the client call
Hdr(kind, id, len) == [kind |-> kind, id |-> id, len |-> len]
Pay(id, len)       == [kind |-> "PAYLOAD", id |-> id, len |-> len]

Frames == [kind : HdrKinds \cup {"PAYLOAD"}, id : 0 .. MaxCalls, len : Lens \cup {0}]

NoFrame == [kind |-> "NONE", id |-> 0, len |-> 0]     \* no frame, or a garbled one

Size(f)  == IF f.kind = "PAYLOAD" THEN f.len ELSE HdrSize
Bytes(f) == [i \in 1 .. Size(f) |-> [of |-> f, at |-> i]]

\* The frame that a buffer holds whole, if it does
FrameIn(buf) ==
    IF buf # <<>> /\ buf = Bytes(buf[1].of) THEN buf[1].of ELSE NoFrame

-----------------------------------------------------------------------------
(* The frame functions, as what they make of the record of an end *)

IoStates == {"OK", "TX", "RX", "CLOSED", "TIMEOUT"}

\* An end between two calls of the application
Fresh == [io |-> "BACK", state |-> "OK", blocking |-> TRUE, out |-> NoFrame,
          cnt |-> 0, inp |-> <<>>, size |-> 0, left |-> 0]

\* Seeded fault: the flag is computed and not written back
sock_blocking_forgotten(s) == s

sock_blocking(s)    == [s EXCEPT !.blocking = TRUE]
sock_nonblocking(s) == [s EXCEPT !.blocking = FALSE]

frame_tx(s, f) ==
    IF Size(f) = 0 THEN [s EXCEPT !.io = "BACK"]
    ELSE [sock_blocking(s) EXCEPT !.io = "SEND", !.out = f, !.cnt = 0]

\* With a delay of its own: the buffer is fresh, and nothing is read into an
\* empty one
frame_rx(s, size) ==
    IF size = 0 THEN [s EXCEPT !.io = "BACK", !.inp = <<>>, !.size = 0]
    ELSE [sock_nonblocking(s) EXCEPT !.io = "RECV", !.inp = <<>>, !.size = size]

\* With a point in time: an expired one fails even for an empty frame
frame_rx_until(s, size) ==
    IF s.left = 0 THEN [s EXCEPT !.io = "BACK", !.state = "TIMEOUT", !.inp = <<>>, !.size = 0]
    ELSE frame_rx(s, size)

\* Seeded fault: the time that is left is not looked at
get_timeval_unchecked(s) == TRUE

\* get_timeval: a wait of a millisecond or less is none
get_timeval(s) == s.left > 1

\* How the loops end
TxEnd(s, res) == [s EXCEPT !.io = "BACK", !.state = res, !.out = NoFrame, !.cnt = 0]
RxEnd(s, res) == [sock_blocking(s) EXCEPT !.io = "BACK", !.state = res]

-----------------------------------------------------------------------------
(* The system calls of the loops *)

\* Seeded fault: the loop offers the frame from its start again
SentFromStart(s, k) == SubSeq(Bytes(s.out), 1, k)

\* The bytes that the next send() takes when it takes k
Sent(s, k) == SubSeq(Bytes(s.out), s.cnt + 1, s.cnt + k)

\* Seeded fault: the end of the frame is seen one send() too late
AdvanceTooFar(s, k) ==
    IF s.cnt + k > Size(s.out) THEN TxEnd(s, "OK") ELSE [s EXCEPT !.cnt = @ + k]

\* send() took k bytes
Advance(s, k) ==
    IF s.cnt + k = Size(s.out) THEN TxEnd(s, "OK") ELSE [s EXCEPT !.cnt = @ + k]

\* send() puts what fits on the connection.  With no room a blocking socket
\* waits and another fails.  Once the peer has closed, the bytes are lost or
\* the call fails.
Send(e) ==
    /\ sock[e].io = "SEND"
    /\ LET s == sock[e]
           to == Other(e)
           rest == Size(s.out) - s.cnt
           room == BufSize - Len(wire[to])
       IN \/ /\ to \in open
             /\ \E k \in 1 .. rest :
                  /\ k <= room
                  /\ wire' = [wire EXCEPT ![to] = @ \o Sent(s, k)]
                  /\ sock' = [sock EXCEPT ![e] = Advance(s, k)]
          \/ /\ to \notin open \/ (~s.blocking /\ room = 0)
             /\ \E res \in {"TX", "CLOSED"} : sock' = [sock EXCEPT ![e] = TxEnd(s, res)]
             /\ UNCHANGED wire
          \/ /\ to \notin open
             /\ \E k \in 1 .. rest : sock' = [sock EXCEPT ![e] = Advance(s, k)]
             /\ UNCHANGED wire
    /\ UNCHANGED <<open, flight, taken, broken>>

\* recv() took k bytes
Filled(s, bytes) == [s EXCEPT !.inp = @ \o bytes]

RecvBytes(e, k) ==
    LET s == Filled(sock[e], SubSeq(wire[e], 1, k)) IN
      /\ k <= Len(wire[e])
      /\ wire' = [wire EXCEPT ![e] = SubSeq(@, k + 1, Len(@))]
      /\ IF Len(s.inp) < s.size
         THEN sock' = [sock EXCEPT ![e] = s] /\ UNCHANGED <<flight, taken>>
         ELSE /\ sock' = [sock EXCEPT ![e] = RxEnd(s, "OK")]
              /\ flight' = [flight EXCEPT ![e] = IF @ = <<>> THEN @ ELSE Tail(@)]
              /\ taken' = [taken EXCEPT ![e] = FrameIn(s.inp)]
      /\ UNCHANGED broken

\* The loop gives up: what was read of a frame is lost to the next reader
RecvFails(e, res) ==
    /\ sock' = [sock EXCEPT ![e] = RxEnd(@, res)]
    /\ broken' = IF sock[e].inp = <<>> THEN broken ELSE broken \cup {e}
    /\ UNCHANGED <<wire, flight, taken>>

\* Nothing to read.  On Linux EAGAIN is EWOULDBLOCK and the loop calls recv()
\* again, which changes nothing; on Windows the deadline is looked at.
WouldBlock(e) == wire[e] = <<>> /\ Other(e) \in open

Recv(e) ==
    /\ sock[e].io = "RECV"
    /\ \/ \E k \in 1 .. sock[e].size - Len(sock[e].inp) : RecvBytes(e, k)
       \/ wire[e] = <<>> /\ Other(e) \notin open /\ RecvFails(e, "CLOSED")
       \/ Other(e) \notin open /\ RecvFails(e, "RX")
       \/ WouldBlock(e) /\ Platform = "WINDOWS" /\ ~get_timeval(sock[e]) /\ RecvFails(e, "TIMEOUT")
       \/ /\ WouldBlock(e) /\ Platform = "WINDOWS" /\ get_timeval(sock[e])
          /\ sock' = [sock EXCEPT ![e].io = "SELECT"]
          /\ UNCHANGED <<wire, flight, taken, broken>>
    /\ UNCHANGED open

Readable(e) == wire[e] # <<>> \/ Other(e) \notin open

\* select() ends when there is something to read or the time is up; when it
\* fails the loop ends with CONN_OK and an incomplete frame
Select(e) ==
    /\ sock[e].io = "SELECT"
    /\ \/ /\ Readable(e) \/ sock[e].left = 0
          /\ sock' = [sock EXCEPT ![e].io = "RECV"]
          /\ UNCHANGED broken
       \/ /\ "SELECT" \in Faults
          /\ sock' = [sock EXCEPT ![e] = RxEnd(@, "OK")]
          /\ broken' = broken \cup {e}
    /\ UNCHANGED <<wire, open, flight, taken>>

LoopStep(e) == Send(e) \/ Recv(e) \/ Select(e)

\* A millisecond passes
Tick ==
    /\ \E e \in Ends : sock[e].left > 0
    /\ sock' = [e \in Ends |-> [sock[e] EXCEPT !.left = IF @ = 0 THEN 0 ELSE @ - 1]]
    /\ UNCHANGED <<wire, open, flight, taken, broken>>

\* socket_close: what was not read is gone
socket_close(e) ==
    /\ open' = open \ {e}
    /\ wire' = [wire EXCEPT ![e] = <<>>] /\ flight' = [flight EXCEPT ![e] = <<>>]
    /\ broken' = broken \cup {e}
    /\ sock' = [sock EXCEPT ![e] = Fresh]
    /\ UNCHANGED taken

IoInit ==
    /\ wire = [e \in Ends |-> <<>>]
    /\ open = Ends
    /\ sock = [e \in Ends |-> Fresh]
    /\ flight = [e \in Ends |-> <<>>]
    /\ taken = [e \in Ends |-> NoFrame]
    /\ broken = {}

Records == [io : {"BACK", "SEND", "RECV", "SELECT"}, state : IoStates, blocking : BOOLEAN,
            out : Frames \cup {NoFrame}, cnt : Nat, inp : Seq([of : Frames, at : Nat]),
            size : Nat, left : 0 .. Delay]

\* No loop runs past the end of its buffer
InBounds(s) ==
    /\ s.io = "SEND" => s.cnt < Size(s.out)
    /\ s.io \in {"RECV", "SELECT"} => Len(s.inp) < s.size

IoTypeOK ==
    /\ wire \in [Ends -> Seq([of : Frames, at : Nat])]
    /\ open \subseteq Ends
    /\ sock \in [Ends -> Records] /\ \A e \in Ends : InBounds(sock[e])
    /\ flight \in [Ends -> Seq(Frames)]
    /\ taken \in [Ends -> Frames \cup {NoFrame}]
    /\ broken \subseteq Ends

=============================================================================
