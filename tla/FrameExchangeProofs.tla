------------------------ MODULE FrameExchangeProofs -------------------------
(***************************************************************************)
(* The safety properties of FrameExchange for every value of its           *)
(* constants: sizes of prefixes, payloads and buffers, numbers of calls,   *)
(* delays and platforms.  Each rests on the invariant of the one before:   *)
(*   Inv      types, the bounds of the loops, and that a socket that sends *)
(*            is blocking (TypeCorrect, TxFailureMeansLeft);               *)
(*   FlowInv  the bytes an end has yet to read are the frames it has yet   *)
(*            to receive, one after another and in an order that its calls *)
(*            of frame_rx ask for (FramesArriveWhole);                     *)
(*   LockInv  client and shell take turns (HeldOutOfStep).                 *)
(* A shell or client only calls the frame functions of FrameIO and closes  *)
(* its socket: the lemmas on these come first, the actions after them.     *)
(***************************************************************************)
EXTENDS FrameExchange, SequenceTheorems, TLAPS

USE SizesAssumption, BoundsAssumption

-----------------------------------------------------------------------------
(* The invariant *)

WireBytes == [of : Frames, at : Nat]

\* A sender has a frame to send, and its socket waits for room
Sending(s) == s.io = "SEND" => s.out \in Frames /\ s.blocking = TRUE

RecordOK(s) == s \in Records /\ InBounds(s) /\ Sending(s)

IoInv == IoTypeOK /\ (\A e \in Ends : Sending(sock[e])) /\ TxFailsOnlyWhenLeft

-----------------------------------------------------------------------------
(* Frames and their bytes *)

LEMMA HdrType ==
    ASSUME NEW kind \in HdrKinds, NEW id \in 0 .. MaxCalls, NEW len \in Lens \cup {0}
    PROVE  Hdr(kind, id, len) \in Frames
BY DEF Hdr, Frames

LEMMA PayType ==
    ASSUME NEW id \in 0 .. MaxCalls, NEW len \in Lens \cup {0}
    PROVE  Pay(id, len) \in Frames
BY DEF Pay, Frames

LEMMA FrameFields ==
    ASSUME NEW f \in Frames \cup {NoFrame}
    PROVE  f.id \in 0 .. MaxCalls /\ f.len \in Lens \cup {0} /\ f.len \in Nat
<1>1. f.id \in 0 .. MaxCalls /\ f.len \in Lens \cup {0}
  BY DEF Frames, NoFrame
<1>2. Lens \cup {0} \subseteq Nat
  OBVIOUS
<1> QED BY <1>1, <1>2

LEMMA SizeType == ASSUME NEW f \in Frames \cup {NoFrame} PROVE Size(f) \in Nat
BY FrameFields DEF Size

LEMMA SentType ==
    ASSUME NEW s \in Records, s.out \in Frames, NEW k \in Nat, s.cnt + k <= Size(s.out)
    PROVE  Sent(s, k) \in Seq(WireBytes)
<1>1. s.cnt \in Nat /\ Size(s.out) \in Nat
  BY SizeType DEF Records
<1>2. Bytes(s.out) \in Seq(WireBytes) /\ Len(Bytes(s.out)) = Size(s.out)
  <2>1. \A i \in 1 .. Size(s.out) : [of |-> s.out, at |-> i] \in WireBytes
    BY <1>1 DEF WireBytes
  <2> QED BY <1>1, <2>1 DEF Bytes
<1> HIDE DEF Bytes
<1>3. SubSeq(Bytes(s.out), s.cnt + 1, s.cnt + k) \in Seq(WireBytes)
  BY <1>1, <1>2
<1> QED BY <1>3 DEF Sent

\* A queue is cut in two
LEMMA Cut ==
    ASSUME NEW S, NEW q \in Seq(S), NEW k \in Nat, k <= Len(q)
    PROVE  /\ SubSeq(q, 1, k) \in Seq(S) /\ Len(SubSeq(q, 1, k)) = k
           /\ SubSeq(q, k + 1, Len(q)) \in Seq(S)
<1>1. Len(q) \in Nat /\ \A i \in 1 .. Len(q) : q[i] \in S
  OBVIOUS
<1>2. SubSeq(q, 1, k) \in Seq(S) /\ Len(SubSeq(q, 1, k)) = k
  BY <1>1
<1>3. SubSeq(q, k + 1, Len(q)) \in Seq(S)
  BY <1>1
<1> QED BY <1>2, <1>3

LEMMA FrameInType ==
    ASSUME NEW buf \in Seq(WireBytes)
    PROVE  FrameIn(buf) \in Frames \cup {NoFrame}
<1>1. buf # <<>> => buf[1] \in WireBytes
  OBVIOUS
<1> QED BY <1>1 DEF FrameIn, WireBytes

-----------------------------------------------------------------------------
(* The frame functions *)

\* The changes that the functions make to a record keep its type
LEMMA Updates ==
    ASSUME NEW s \in Records, NEW f \in Frames \cup {NoFrame}, NEW n \in Nat
    PROVE  /\ [s EXCEPT !.io = "SEND", !.blocking = TRUE, !.out = f, !.cnt = 0] \in Records
           /\ [s EXCEPT !.io = "BACK", !.inp = <<>>, !.size = n] \in Records
           /\ [s EXCEPT !.io = "RECV", !.blocking = FALSE, !.inp = <<>>, !.size = n] \in Records
           /\ [s EXCEPT !.io = "BACK", !.state = "TIMEOUT", !.inp = <<>>, !.size = n] \in Records
<1> DEFINE outs == Frames \cup {NoFrame}
           seqs == Seq([of : Frames, at : Nat])
           times == 0 .. Delay
<1>1. Records = [io : {"BACK", "SEND", "RECV", "SELECT"}, state : IoStates, blocking : BOOLEAN,
                 out : outs, cnt : Nat, inp : seqs, size : Nat, left : times]
  BY DEF Records
<1>2. <<>> \in seqs /\ f \in outs
  OBVIOUS
<1> HIDE DEF outs, seqs, times
<1>3. [s EXCEPT !.io = "SEND", !.blocking = TRUE, !.out = f, !.cnt = 0] \in Records
  BY <1>1, <1>2
<1>4. [s EXCEPT !.io = "BACK", !.inp = <<>>, !.size = n] \in Records
  BY <1>1, <1>2
<1>5. [s EXCEPT !.io = "RECV", !.blocking = FALSE, !.inp = <<>>, !.size = n] \in Records
  BY <1>1, <1>2
<1>6. [s EXCEPT !.io = "BACK", !.state = "TIMEOUT", !.inp = <<>>, !.size = n] \in Records
  BY <1>1, <1>2 DEF IoStates
<1> QED BY <1>3, <1>4, <1>5, <1>6

\* The clock of a record says nothing of the rest
LEMMA OnlyLeft ==
    ASSUME NEW s \in Records, NEW left \in 0 .. Delay
    PROVE  LET r == [s EXCEPT !.left = left] IN
             /\ r \in Records /\ r.io = s.io /\ r.state = s.state /\ r.blocking = s.blocking
             /\ r.out = s.out /\ r.cnt = s.cnt /\ r.inp = s.inp /\ r.size = s.size
<1> DEFINE r == [s EXCEPT !.left = left]
<1>1. r \in Records
  BY DEF Records
<1>2. r.io = s.io /\ r.state = s.state /\ r.blocking = s.blocking
  BY DEF Records
<1>3. r.out = s.out /\ r.cnt = s.cnt
  BY DEF Records
<1>4. r.inp = s.inp /\ r.size = s.size
  BY DEF Records
<1> QED BY <1>1, <1>2, <1>3, <1>4

LEMMA FreshOK == RecordOK(Fresh)
<1>1. Fresh \in Records
  BY DEF Fresh, Records, IoStates
<1> QED BY <1>1 DEF RecordOK, Fresh, InBounds, Sending

LEMMA FrameTxOK ==
    ASSUME NEW s, RecordOK(s), NEW f \in Frames
    PROVE  RecordOK(frame_tx(s, f)) /\ frame_tx(s, f).state = s.state
<1>1. s \in Records /\ Size(f) \in Nat /\ f \in Frames \cup {NoFrame}
  BY SizeType DEF RecordOK
<1>2. CASE Size(f) = 0
  <2>1. frame_tx(s, f) = [s EXCEPT !.io = "BACK"]
    BY <1>2 DEF frame_tx
  <2>2. frame_tx(s, f) \in Records
    BY <1>1, <2>1 DEF Records
  <2> QED BY <1>1, <2>1, <2>2 DEF RecordOK, InBounds, Sending, Records
<1>3. CASE Size(f) # 0
  <2>1. frame_tx(s, f) = [s EXCEPT !.io = "SEND", !.blocking = TRUE, !.out = f, !.cnt = 0]
    BY <1>1, <1>3 DEF frame_tx, sock_blocking, Records
  <2>2. frame_tx(s, f) \in Records
    <3>1. [s EXCEPT !.io = "SEND", !.blocking = TRUE, !.out = f, !.cnt = 0] \in Records
      BY <1>1, Updates
    <3> QED BY <2>1, <3>1, Zenon
  <2> QED BY <1>1, <1>3, <2>1, <2>2 DEF RecordOK, InBounds, Sending, Records
<1> QED BY <1>2, <1>3

LEMMA FrameRxOK ==
    ASSUME NEW s, RecordOK(s), NEW n \in Nat
    PROVE  RecordOK(frame_rx(s, n)) /\ frame_rx(s, n).state = s.state
<1>1. s \in Records
  BY DEF RecordOK
<1>2. CASE n = 0
  <2>1. frame_rx(s, n) = [s EXCEPT !.io = "BACK", !.inp = <<>>, !.size = 0]
    BY <1>2 DEF frame_rx
  <2>2. frame_rx(s, n) \in Records
    BY <1>1, <2>1, Updates
  <2> QED BY <1>1, <2>1, <2>2 DEF RecordOK, InBounds, Sending, Records
<1>3. CASE n # 0
  <2>1. frame_rx(s, n) = [s EXCEPT !.io = "RECV", !.blocking = FALSE, !.inp = <<>>, !.size = n]
    BY <1>1, <1>3 DEF frame_rx, sock_nonblocking, Records
  <2>2. frame_rx(s, n) \in Records
    BY <1>1, <2>1, Updates
  <2> QED BY <1>1, <1>3, <2>1, <2>2 DEF RecordOK, InBounds, Sending, Records
<1> QED BY <1>2, <1>3

LEMMA FrameRxUntilOK ==
    ASSUME NEW s, RecordOK(s), NEW n \in Nat
    PROVE  /\ RecordOK(frame_rx_until(s, n))
           /\ frame_rx_until(s, n).state \in {s.state, "TIMEOUT"}
<1>1. s \in Records
  BY DEF RecordOK
<1>2. CASE s.left = 0
  <2> DEFINE r == [s EXCEPT !.io = "BACK", !.state = "TIMEOUT", !.inp = <<>>, !.size = 0]
  <2>1. frame_rx_until(s, n) = r
    BY <1>2 DEF frame_rx_until
  <2>2. r \in Records
    BY <1>1, Updates
  <2>3. r.io = "BACK" /\ r.state = "TIMEOUT"
    BY <1>1 DEF Records
  <2> QED BY <2>1, <2>2, <2>3 DEF RecordOK, InBounds, Sending
<1>3. CASE s.left # 0
  BY <1>3, FrameRxOK DEF frame_rx_until
<1> QED BY <1>2, <1>3

LEMMA TxEndOK ==
    ASSUME NEW s \in Records, NEW res \in IoStates
    PROVE  RecordOK(TxEnd(s, res)) /\ TxEnd(s, res).state = res
<1>1. TxEnd(s, res) \in Records
  BY DEF TxEnd, Records
<1>2. TxEnd(s, res).io = "BACK" /\ TxEnd(s, res).state = res
  BY DEF TxEnd, Records
<1> QED BY <1>1, <1>2 DEF RecordOK, InBounds, Sending

LEMMA RxEndOK ==
    ASSUME NEW s \in Records, NEW res \in IoStates
    PROVE  RecordOK(RxEnd(s, res)) /\ RxEnd(s, res).state = res
<1>1. RxEnd(s, res) \in Records
  BY DEF RxEnd, sock_blocking, Records
<1>2. RxEnd(s, res).io = "BACK" /\ RxEnd(s, res).state = res
  BY DEF RxEnd, sock_blocking, Records
<1> QED BY <1>1, <1>2 DEF RecordOK, InBounds, Sending

\* Some bytes of the frame are sent, all that are left at most
LEMMA AdvanceOK ==
    ASSUME NEW s, RecordOK(s), s.io = "SEND", NEW k \in 1 .. Size(s.out) - s.cnt
    PROVE  RecordOK(Advance(s, k)) /\ Advance(s, k).state \in {s.state, "OK"}
<1>1. s \in Records /\ s.cnt \in Nat /\ s.out \in Frames /\ Size(s.out) \in Nat
  BY SizeType DEF RecordOK, Sending, Records
<1>2. CASE s.cnt + k = Size(s.out)
  BY <1>1, <1>2, TxEndOK DEF Advance, IoStates
<1>3. CASE s.cnt + k # Size(s.out)
  <2> DEFINE r == [s EXCEPT !.cnt = @ + k]
  <2>1. Advance(s, k) = r
    BY <1>3 DEF Advance
  <2>2. s.cnt + k \in Nat /\ s.cnt + k < Size(s.out)
    BY <1>1, <1>3
  <2>3. r \in Records
    BY <1>1, <2>2 DEF Records
  <2>4. r.io = "SEND" /\ r.out = s.out /\ r.cnt = s.cnt + k /\ r.state = s.state
        /\ r.blocking = s.blocking
    BY <1>1 DEF Records
  <2>5. InBounds(r)
    BY <2>2, <2>4 DEF InBounds
  <2>6. Sending(r)
    BY <2>4 DEF RecordOK, Sending
  <2> QED BY <2>1, <2>3, <2>4, <2>5, <2>6 DEF RecordOK
<1> QED BY <1>2, <1>3

-----------------------------------------------------------------------------
(* The invariant is kept by whatever an end does with its socket *)

LEMMA IoInvMeans == IoInv => \A e \in Ends : RecordOK(sock[e])
BY DEF IoInv, IoTypeOK, RecordOK

\* One end gets a new record, which fails to send only once the peer has left
LEMMA NewRecord ==
    ASSUME IoInv, NEW e \in Ends, NEW s, RecordOK(s), sock' = [sock EXCEPT ![e] = s],
           s.state = "TX" => sock[e].state = "TX" \/ Other(e) \notin open,
           open' \subseteq open,
           wire' \in [Ends -> Seq([of : Frames, at : Nat])], flight' \in [Ends -> Seq(Frames)],
           taken' \in [Ends -> Frames \cup {NoFrame}], broken' \subseteq Ends
    PROVE  IoInv'
<1>1. sock \in [Ends -> Records] /\ open \subseteq Ends
  BY DEF IoInv, IoTypeOK
<1>2. /\ sock' \in [Ends -> Records] /\ sock'[e] = s
      /\ \A d \in Ends \ {e} : sock'[d] = sock[d]
  BY <1>1 DEF RecordOK
<1>3. \A d \in Ends : RecordOK(sock'[d])
  BY <1>2, IoInvMeans
<1>4. IoTypeOK'
  BY <1>1, <1>2, <1>3 DEF IoTypeOK, RecordOK
<1>5. (\A d \in Ends : Sending(sock[d]))'
  BY <1>3 DEF RecordOK
<1>6. TxFailsOnlyWhenLeft'
  BY <1>2 DEF IoInv, TxFailsOnlyWhenLeft
<1> QED BY <1>4, <1>5, <1>6 DEF IoInv

LEMMA CallKeeps ==
    ASSUME IoInv, NEW e \in Ends, NEW s, RecordOK(s), Call(e, s),
           s.state = "TX" => sock[e].state = "TX"
    PROVE  IoInv'
<1>1. UNCHANGED <<wire, open, taken, broken>> /\ sock' = [sock EXCEPT ![e] = s]
  BY DEF Call
<1>2. flight' \in [Ends -> Seq(Frames)]
  <2> DEFINE fs == Seq(Frames)
             to == Other(e)
             new == Append(flight[to], s.out)
  <2>1. flight \in [Ends -> fs] /\ to \in Ends
    BY DEF IoInv, IoTypeOK, Other, Ends
  <2>2. flight' = flight \/ (s.out \in Frames /\ flight' = [flight EXCEPT ![to] = new])
    BY DEF Call, RecordOK, Sending
  <2>3. s.out \in Frames => new \in fs
    BY <2>1
  <2> HIDE DEF fs, to, new
  <2>4. flight' \in [Ends -> fs]
    BY <2>1, <2>2, <2>3
  <2> QED BY <2>4 DEF fs
<1> QED BY <1>1, <1>2, NewRecord DEF IoInv, IoTypeOK

LEMMA CloseKeeps ==
    ASSUME IoInv, NEW e \in Ends, socket_close(e)
    PROVE  IoInv'
<1>1. /\ sock' = [sock EXCEPT ![e] = Fresh] /\ open' \subseteq open
      /\ UNCHANGED taken /\ broken' = broken \cup {e}
      /\ wire' = [wire EXCEPT ![e] = <<>>] /\ flight' = [flight EXCEPT ![e] = <<>>]
  BY DEF socket_close
<1>2. wire' \in [Ends -> Seq([of : Frames, at : Nat])]
  <2> DEFINE seqs == Seq([of : Frames, at : Nat])
  <2>1. wire \in [Ends -> seqs]
    BY DEF IoInv, IoTypeOK
  <2>2. <<>> \in seqs
    OBVIOUS
  <2> HIDE DEF seqs
  <2>3. wire' \in [Ends -> seqs]
    BY <1>1, <2>1, <2>2
  <2> QED BY <2>3 DEF seqs
<1>5. flight' \in [Ends -> Seq(Frames)]
  <2> DEFINE seqs == Seq(Frames)
  <2>1. flight \in [Ends -> seqs] /\ <<>> \in seqs
    BY DEF IoInv, IoTypeOK
  <2> HIDE DEF seqs
  <2>2. flight' \in [Ends -> seqs]
    BY <1>1, <2>1
  <2> QED BY <2>2 DEF seqs
<1>3. Fresh.state # "TX"
  BY DEF Fresh
<1>4. taken' \in [Ends -> Frames \cup {NoFrame}] /\ broken' \subseteq Ends
  BY <1>1 DEF IoInv, IoTypeOK
<1> QED BY <1>1, <1>2, <1>3, <1>4, <1>5, FreshOK, NewRecord

LEMMA SendKeeps ==
    ASSUME IoInv, NEW e \in Ends, Send(e)
    PROVE  IoInv'
<1> DEFINE s == sock[e]
           to == Other(e)
           rest == Size(s.out) - s.cnt
           room == BufSize - Len(wire[to])
<1>1. /\ RecordOK(s) /\ s \in Records /\ s.io = "SEND" /\ s.out \in Frames /\ s.blocking = TRUE
      /\ Size(s.out) \in Nat /\ s.cnt \in Nat
  BY IoInvMeans, SizeType DEF Send, RecordOK, Sending, Records
<1>2. to \in Ends /\ wire[to] \in Seq([of : Frames, at : Nat])
  BY DEF Other, Ends, IoInv, IoTypeOK
<1>3. UNCHANGED <<open, taken, broken>> /\ flight' \in [Ends -> Seq(Frames)] /\ taken' \in [Ends -> Frames \cup {NoFrame}]
      /\ broken' \subseteq Ends /\ wire \in [Ends -> Seq([of : Frames, at : Nat])]
  BY DEF Send, IoInv, IoTypeOK
<1>4. CASE \E k \in 1 .. rest : /\ wire' = [wire EXCEPT ![to] = @ \o Sent(s, k)]
                                /\ sock' = [sock EXCEPT ![e] = Advance(s, k)]
  <2>1. PICK k \in 1 .. rest : /\ wire' = [wire EXCEPT ![to] = @ \o Sent(s, k)]
                               /\ sock' = [sock EXCEPT ![e] = Advance(s, k)]
    BY <1>4
  <2>2. k \in Nat /\ s.cnt + k <= Size(s.out)
    BY <1>1
  <2>3. Sent(s, k) \in Seq([of : Frames, at : Nat])
    BY <1>1, <2>2, SentType DEF WireBytes
  <2>4. wire' \in [Ends -> Seq([of : Frames, at : Nat])]
    <3> DEFINE seqs == Seq([of : Frames, at : Nat])
               new == wire[to] \o Sent(s, k)
    <3>1. new \in seqs
      BY <1>2, <2>3
    <3>2. wire' = [wire EXCEPT ![to] = new] /\ wire \in [Ends -> seqs]
      BY <1>3, <2>1
    <3> HIDE DEF seqs, new
    <3>3. wire' \in [Ends -> seqs]
      BY <3>1, <3>2
    <3> QED BY <3>3 DEF seqs
  <2>5. RecordOK(Advance(s, k)) /\ Advance(s, k).state \in {s.state, "OK"}
    BY <1>1, AdvanceOK
  <2> QED BY <1>3, <2>1, <2>4, <2>5, NewRecord
<1>5. CASE /\ to \notin open \/ (~s.blocking /\ room = 0)
           /\ \E res \in {"TX", "CLOSED"} : sock' = [sock EXCEPT ![e] = TxEnd(s, res)]
           /\ UNCHANGED wire
  <2>1. PICK res \in {"TX", "CLOSED"} : sock' = [sock EXCEPT ![e] = TxEnd(s, res)]
    BY <1>5
  <2>2. RecordOK(TxEnd(s, res))
    BY <1>1, TxEndOK DEF IoStates
  <2>3. to \notin open
    BY <1>1, <1>5
  <2> QED BY <1>3, <1>5, <2>1, <2>2, <2>3, NewRecord
<1>6. CASE /\ \E k \in 1 .. rest : sock' = [sock EXCEPT ![e] = Advance(s, k)]
           /\ UNCHANGED wire
  <2>1. PICK k \in 1 .. rest : sock' = [sock EXCEPT ![e] = Advance(s, k)]
    BY <1>6
  <2>2. RecordOK(Advance(s, k)) /\ Advance(s, k).state \in {s.state, "OK"}
    BY <1>1, AdvanceOK
  <2> QED BY <1>3, <1>6, <2>1, <2>2, NewRecord
<1> QED BY <1>4, <1>5, <1>6 DEF Send

\* A receive ends, well or not
LEMMA RxEndKeeps ==
    ASSUME IoInv, NEW e \in Ends, NEW s \in Records, NEW res \in IoStates \ {"TX"},
           sock' = [sock EXCEPT ![e] = RxEnd(s, res)], open' = open,
           wire' \in [Ends -> Seq([of : Frames, at : Nat])], flight' \in [Ends -> Seq(Frames)],
           taken' \in [Ends -> Frames \cup {NoFrame}], broken' \subseteq Ends
    PROVE  IoInv'
<1>1. RecordOK(RxEnd(s, res)) /\ RxEnd(s, res).state # "TX"
  BY RxEndOK
<1> QED BY <1>1, NewRecord

LEMMA RecvFailsKeeps ==
    ASSUME IoInv, NEW e \in Ends, NEW res \in IoStates \ {"TX"}, RecvFails(e, res), open' = open
    PROVE  IoInv'
<1>1. sock[e] \in Records
  BY DEF IoInv, IoTypeOK
<1>2. sock' = [sock EXCEPT ![e] = RxEnd(sock[e], res)] /\ UNCHANGED <<wire, flight, taken>>
      /\ broken' \subseteq broken \cup {e}
  BY DEF RecvFails
<1> QED BY <1>1, <1>2, RxEndKeeps DEF IoInv, IoTypeOK

LEMMA RecvBytesKeeps ==
    ASSUME IoInv, NEW e \in Ends, sock[e].io = "RECV",
           NEW k \in 1 .. sock[e].size - Len(sock[e].inp), RecvBytes(e, k), open' = open
    PROVE  IoInv'
<1> DEFINE seqs == Seq([of : Frames, at : Nat])
           more == SubSeq(wire[e], 1, k)
           s == Filled(sock[e], more)
<1>1. /\ sock[e] \in Records /\ RecordOK(sock[e]) /\ wire \in [Ends -> seqs] /\ wire[e] \in seqs
      /\ broken \subseteq Ends /\ taken \in [Ends -> Frames \cup {NoFrame}]
  BY IoInvMeans DEF IoInv, IoTypeOK
<1>2. k <= Len(wire[e]) /\ sock[e].inp \in seqs /\ sock[e].size \in Nat
  BY <1>1 DEF RecvBytes, Records
<1>3. more \in seqs /\ Len(more) = k /\ SubSeq(wire[e], k + 1, Len(wire[e])) \in seqs
  <2>1. k \in Nat
    BY <1>2
  <2> HIDE DEF s
  <2> QED BY <1>1, <1>2, <2>1, Cut
<1>4. sock[e].inp \o more \in seqs /\ Len(sock[e].inp \o more) = Len(sock[e].inp) + k
  BY <1>2, <1>3
<1>5. s \in Records
  BY <1>1, <1>4 DEF Filled, Records
<1>6. s.inp = sock[e].inp \o more /\ s.size = sock[e].size /\ s.io = "RECV"
      /\ s.state = sock[e].state
  BY <1>1 DEF Filled, Records
<1>7. wire' \in [Ends -> seqs] /\ UNCHANGED broken
  BY <1>1, <1>3 DEF RecvBytes
<1>8. CASE Len(s.inp) < s.size
  <2>1. sock' = [sock EXCEPT ![e] = s] /\ UNCHANGED <<flight, taken>>
    BY <1>8 DEF RecvBytes
  <2>2. RecordOK(s)
    BY <1>5, <1>6, <1>8 DEF RecordOK, InBounds, Sending
  <2> QED BY <1>1, <1>6, <1>7, <2>1, <2>2, NewRecord DEF IoInv, IoTypeOK
<1>9. CASE ~(Len(s.inp) < s.size)
  <2>1. sock' = [sock EXCEPT ![e] = RxEnd(s, "OK")]
        /\ taken' = [taken EXCEPT ![e] = FrameIn(s.inp)]
        /\ flight' = [flight EXCEPT ![e] = IF @ = <<>> THEN @ ELSE Tail(@)]
    BY <1>9 DEF RecvBytes
  <2>2. FrameIn(s.inp) \in Frames \cup {NoFrame}
    BY <1>4, <1>6, FrameInType DEF WireBytes
  <2>3. taken' \in [Ends -> Frames \cup {NoFrame}]
    BY <1>1, <2>1, <2>2
  <2>4. broken' \subseteq Ends /\ "OK" \in IoStates \ {"TX"}
    BY <1>1, <1>7 DEF IoStates
  <2>5. flight' \in [Ends -> Seq(Frames)]
    <3> DEFINE fs == Seq(Frames)
               new == IF flight[e] = <<>> THEN flight[e] ELSE Tail(flight[e])
    <3>1. flight \in [Ends -> fs]
      BY DEF IoInv, IoTypeOK
    <3>2. new \in fs
      BY <3>1
    <3>3. flight' = [flight EXCEPT ![e] = new]
      BY <2>1, <3>1
    <3> HIDE DEF fs, new
    <3>4. flight' \in [Ends -> fs]
      BY <3>1, <3>2, <3>3
    <3> QED BY <3>4 DEF fs
  <2> HIDE DEF s
  <2> QED BY <1>5, <1>7, <2>1, <2>3, <2>4, <2>5, RxEndKeeps
<1> QED BY <1>8, <1>9

\* The loop goes from recv() to select() and back
LEMMA WaitKeeps ==
    ASSUME IoInv, NEW e \in Ends, sock[e].io \in {"RECV", "SELECT"}, NEW io \in {"RECV", "SELECT"},
           sock' = [sock EXCEPT ![e].io = io], UNCHANGED <<wire, open, flight, taken, broken>>
    PROVE  IoInv'
<1> DEFINE s == [sock[e] EXCEPT !.io = io]
<1>1. sock[e] \in Records /\ RecordOK(sock[e]) /\ sock \in [Ends -> Records]
  BY IoInvMeans DEF IoInv, IoTypeOK
<1>2. s \in Records /\ s.io = io /\ s.state = sock[e].state /\ s.inp = sock[e].inp
      /\ s.size = sock[e].size
  BY <1>1 DEF Records
<1>3. RecordOK(s)
  BY <1>1, <1>2 DEF RecordOK, InBounds, Sending
<1>4. sock' = [sock EXCEPT ![e] = s]
  BY <1>1
<1> QED BY <1>2, <1>3, <1>4, NewRecord DEF IoInv, IoTypeOK

LEMMA RecvKeeps == ASSUME IoInv, NEW e \in Ends, Recv(e) PROVE IoInv'
<1>1. open' = open /\ sock[e].io = "RECV"
  BY DEF Recv
<1>2. CASE \E k \in 1 .. sock[e].size - Len(sock[e].inp) : RecvBytes(e, k)
  BY <1>1, <1>2, RecvBytesKeeps
<1>3. CASE \E res \in {"CLOSED", "RX", "TIMEOUT"} : RecvFails(e, res)
  BY <1>1, <1>3, RecvFailsKeeps DEF IoStates
<1>4. CASE sock' = [sock EXCEPT ![e].io = "SELECT"] /\ UNCHANGED <<wire, flight, taken, broken>>
  BY <1>1, <1>4, WaitKeeps
<1> QED BY <1>2, <1>3, <1>4 DEF Recv

LEMMA SelectKeeps == ASSUME IoInv, NEW e \in Ends, Select(e) PROVE IoInv'
<1>1. UNCHANGED <<wire, open, flight, taken>> /\ sock[e].io = "SELECT" /\ sock[e] \in Records
  BY DEF Select, IoInv, IoTypeOK
<1>2. CASE sock' = [sock EXCEPT ![e].io = "RECV"] /\ UNCHANGED broken
  BY <1>1, <1>2, WaitKeeps
<1>3. CASE sock' = [sock EXCEPT ![e] = RxEnd(@, "OK")] /\ broken' = broken \cup {e}
  <2>1. sock' = [sock EXCEPT ![e] = RxEnd(sock[e], "OK")]
    BY <1>3 DEF IoInv, IoTypeOK
  <2>2. broken' \subseteq Ends /\ "OK" \in IoStates \ {"TX"}
    BY <1>3 DEF IoStates, IoInv, IoTypeOK
  <2>3. /\ wire' \in [Ends -> Seq([of : Frames, at : Nat])]
        /\ taken' \in [Ends -> Frames \cup {NoFrame}] /\ flight' \in [Ends -> Seq(Frames)]
    BY <1>1 DEF IoInv, IoTypeOK
  <2> QED BY <1>1, <2>1, <2>2, <2>3, RxEndKeeps
<1> QED BY <1>2, <1>3 DEF Select

LEMMA TickKeeps == ASSUME IoInv, Tick PROVE IoInv'
<1> DEFINE Later(s) == [s EXCEPT !.left = IF @ = 0 THEN 0 ELSE @ - 1]
<1>1. UNCHANGED <<wire, open, flight, taken, broken>> /\ sock' = [e \in Ends |-> Later(sock[e])]
  BY DEF Tick
<1>2. ASSUME NEW e \in Ends
      PROVE  RecordOK(Later(sock[e])) /\ Later(sock[e]).state = sock[e].state
  <2>1. sock[e] \in Records /\ RecordOK(sock[e])
    BY IoInvMeans DEF RecordOK
  <2>2. (IF sock[e].left = 0 THEN 0 ELSE sock[e].left - 1) \in 0 .. Delay
    BY <2>1 DEF Records
  <2>3. Later(sock[e]) \in Records
    BY <2>1, <2>2 DEF Records
  <2>4. /\ Later(sock[e]).io = sock[e].io /\ Later(sock[e]).state = sock[e].state
        /\ Later(sock[e]).inp = sock[e].inp /\ Later(sock[e]).size = sock[e].size
        /\ Later(sock[e]).out = sock[e].out /\ Later(sock[e]).cnt = sock[e].cnt
    BY <2>1 DEF Records
  <2>5. Later(sock[e]).blocking = sock[e].blocking
    BY <2>1 DEF Records
  <2>6. InBounds(Later(sock[e]))
    BY <2>1, <2>4 DEF RecordOK, InBounds
  <2>7. Sending(Later(sock[e]))
    BY <2>1, <2>4, <2>5 DEF RecordOK, Sending
  <2> QED BY <2>3, <2>4, <2>6, <2>7 DEF RecordOK
<1> HIDE DEF Later
<1>3. sock' \in [Ends -> Records] /\ \A e \in Ends : RecordOK(sock'[e])
  BY <1>1, <1>2 DEF RecordOK
<1>4. IoTypeOK'
  BY <1>1, <1>3 DEF IoInv, IoTypeOK, RecordOK
<1>5. TxFailsOnlyWhenLeft'
  BY <1>1, <1>2 DEF IoInv, TxFailsOnlyWhenLeft
<1> QED BY <1>3, <1>4, <1>5 DEF IoInv, RecordOK

-----------------------------------------------------------------------------
(* The client and the shell *)

Control ==
    /\ cpc \in ClientPCs /\ spc \in ShellPCs
    /\ calls \in 0 .. MaxCalls
    /\ hdr \in [Ends -> Frames \cup {NoFrame}]
    /\ m_stop \in BOOLEAN /\ late \in BOOLEAN

Inv == IoInv /\ Control

LEMMA FreshLeft ==
    ASSUME NEW left \in 0 .. Delay
    PROVE  RecordOK([Fresh EXCEPT !.left = left]) /\ [Fresh EXCEPT !.left = left].state = "OK"
<1> DEFINE s == [Fresh EXCEPT !.left = left]
<1>1. Fresh \in Records
  BY FreshOK DEF RecordOK
<1>2. s \in Records
  BY <1>1 DEF Records
<1>3. s.io = "BACK" /\ s.state = "OK"
  BY DEF Fresh
<1> QED BY <1>2, <1>3 DEF RecordOK, InBounds, Sending

LEMMA ReceivedType ==
    ASSUME IoInv, NEW e \in Ends
    PROVE  Received(e) \in Frames \cup {NoFrame} /\ Received(e).len \in Nat
<1>1. sock[e].inp \in Seq(WireBytes)
  BY DEF IoInv, IoTypeOK, Records, WireBytes
<1>2. Received(e) \in Frames \cup {NoFrame}
  BY <1>1, FrameInType DEF Received
<1> QED BY <1>2, FrameFields

\* A prefix or a payload is sent
LEMMA TxKeeps ==
    ASSUME IoInv, NEW e \in Ends, NEW s, RecordOK(s), s.state = "TX" => sock[e].state = "TX",
           NEW f \in Frames, Call(e, frame_tx(s, f))
    PROVE  IoInv'
BY FrameTxOK, CallKeeps

\* A prefix or a payload is received
LEMMA RxKeeps ==
    ASSUME IoInv, NEW e \in Ends, NEW s, RecordOK(s), s.state = "TX" => sock[e].state = "TX",
           NEW n \in Nat, Call(e, frame_rx(s, n)) \/ Call(e, frame_rx_until(s, n))
    PROVE  IoInv'
<1>1. CASE Call(e, frame_rx(s, n))
  BY <1>1, FrameRxOK, CallKeeps
<1>2. CASE Call(e, frame_rx_until(s, n))
  <2>1. RecordOK(frame_rx_until(s, n))
    BY FrameRxUntilOK
  <2>2. frame_rx_until(s, n).state = "TX" => sock[e].state = "TX"
    BY FrameRxUntilOK
  <2> QED BY <1>2, <2>1, <2>2, CallKeeps
<1> QED BY <1>1, <1>2

LEMMA LoopKeeps == ASSUME Inv, NEW e \in Ends, Loop(e) PROVE Inv'
<1>1. IoInv'
  BY SendKeeps, RecvKeeps, SelectKeeps DEF Inv, Loop, LoopStep
<1>2. Control'
  BY DEF Inv, Loop, Control
<1> QED BY <1>1, <1>2 DEF Inv

LEMMA AppKeeps == ASSUME Inv, AppStep PROVE Inv'
<1> USE DEF Ends
<1>1. ASSUME NEW kind \in HdrKinds, NEW len \in Lens \cup {0}, NEW left \in 0 .. Delay,
             NEW pc \in ClientPCs, Begin(kind, len, left, pc)
      PROVE  Inv'
  <2> DEFINE h == Hdr(kind, calls + 1, len)
  <2>1. calls + 1 \in 0 .. MaxCalls
    BY <1>1 DEF Begin, Inv, Control
  <2>2. h \in Frames
    BY <2>1, HdrType
  <2>3. Call("CLI", frame_tx([Fresh EXCEPT !.left = left], h))
    BY <1>1 DEF Begin
  <2>4. IoInv'
    BY <2>2, <2>3, FreshLeft, TxKeeps DEF Inv
  <2>5. Control'
    BY <1>1, <2>1, <2>2 DEF Begin, Inv, Control
  <2> QED BY <2>4, <2>5 DEF Inv
<1>2. CASE Transaction
  <2>1. PICK len \in Lens : Begin("REQUEST", len, Delay, "txHdr")
    BY <1>2 DEF Transaction
  <2> QED BY <1>1, <2>1 DEF HdrKinds, ClientPCs
<1>3. CASE Sync
  BY <1>1, <1>3 DEF Sync, HdrKinds, ClientPCs
<1>4. CASE Close
  <2>1. IoInv'
    BY <1>4, CloseKeeps DEF Close, Leave, Inv
  <2>2. Control'
    BY <1>4 DEF Close, Leave, Inv, Control, ClientPCs
  <2> QED BY <2>1, <2>2 DEF Inv
<1>5. CASE Stop
  <2>1. UNCHANGED io_vars /\ Control'
    BY <1>5 DEF Stop, Inv, Control
  <2> QED BY <2>1 DEF Inv, IoInv, IoTypeOK, TxFailsOnlyWhenLeft, io_vars
<1> QED BY <1>2, <1>3, <1>4, <1>5 DEF AppStep

LEMMA ClientKeeps == ASSUME Inv, ClientStep PROVE Inv'
<1> USE DEF Ends
<1>1. /\ RecordOK(sock["CLI"]) /\ sock["CLI"] \in Records
      /\ hdr["CLI"] \in Frames \cup {NoFrame} /\ calls \in 0 .. MaxCalls
  BY IoInvMeans DEF Inv, RecordOK, Control
<1>2. CASE Loop("CLI")
  BY <1>2, LoopKeeps
<1>3. CASE SendPayload
  <2>1. Pay(calls, hdr["CLI"].len) \in Frames
    BY <1>1, FrameFields, PayType
  <2>2. IoInv'
    BY <1>1, <1>3, <2>1, TxKeeps DEF SendPayload, Inv
  <2>3. Control'
    BY <1>3 DEF SendPayload, Inv, Control, ClientPCs
  <2> QED BY <2>2, <2>3 DEF Inv
<1>4. CASE RecvHeader
  <2>1. IoInv'
    BY <1>1, <1>4, RxKeeps DEF RecvHeader, Inv
  <2>2. Control'
    BY <1>4 DEF RecvHeader, Inv, Control, ClientPCs
  <2> QED BY <2>1, <2>2 DEF Inv
<1>5. CASE RecvPayload
  <2>1. IoInv'
    BY <1>1, <1>5, ReceivedType, RxKeeps DEF RecvPayload, Inv
  <2>2. Control'
    BY <1>5, ReceivedType DEF RecvPayload, Inv, Control, ClientPCs
  <2> QED BY <2>1, <2>2 DEF Inv
<1>6. CASE SyncRecv
  <2> DEFINE s == [sock["CLI"] EXCEPT !.left = Delay]
  <2>1. /\ s \in Records /\ s.io = sock["CLI"].io /\ s.state = sock["CLI"].state
        /\ s.out = sock["CLI"].out /\ s.cnt = sock["CLI"].cnt /\ s.inp = sock["CLI"].inp
        /\ s.size = sock["CLI"].size /\ s.blocking = sock["CLI"].blocking
    BY <1>1, OnlyLeft
  <2>4. InBounds(s)
    BY <1>1, <2>1 DEF RecordOK, InBounds
  <2>5. Sending(s)
    BY <1>1, <2>1 DEF RecordOK, Sending
  <2>6. RecordOK(s)
    BY <2>1, <2>4, <2>5 DEF RecordOK
  <2>7. Call("CLI", frame_rx(s, HdrSize))
    BY <1>6 DEF SyncRecv
  <2>8. IoInv'
    BY <2>1, <2>6, <2>7, RxKeeps DEF Inv
  <2>9. Control'
    BY <1>6 DEF SyncRecv, Inv, Control, ClientPCs
  <2> QED BY <2>8, <2>9 DEF Inv
<1>7. CASE TransactionOK \/ SyncReturns
  <2>1. Call("CLI", Fresh) /\ Fresh.state = "OK"
    BY <1>7 DEF TransactionOK, SyncReturns, Return, Fresh
  <2>2. IoInv'
    BY <2>1, FreshOK, CallKeeps DEF Inv
  <2>3. Control'
    BY <1>7 DEF TransactionOK, SyncReturns, Return, Inv, Control, ClientPCs
  <2> QED BY <2>2, <2>3 DEF Inv
<1>8. CASE TransactionFails
  <2>1. IoInv'
    BY <1>8, CloseKeeps DEF TransactionFails, Leave, Inv
  <2>2. Control'
    BY <1>8 DEF TransactionFails, Leave, Inv, Control, ClientPCs
  <2> QED BY <2>1, <2>2 DEF Inv
<1> QED BY <1>2, <1>3, <1>4, <1>5, <1>6, <1>7, <1>8 DEF ClientStep

LEMMA AnswersType ==
    ASSUME NEW f \in Frames \cup {NoFrame}, NEW h \in Answers(f)
    PROVE  h \in Frames
BY FrameFields, HdrType DEF Answers, HdrKinds

LEMMA ShellKeeps == ASSUME Inv, ShellStep PROVE Inv'
<1> USE DEF Ends
<1>1. /\ RecordOK(sock["SRV"]) /\ hdr["SRV"] \in Frames \cup {NoFrame}
  BY IoInvMeans DEF Inv, Control
<1>2. CASE Loop("SRV")
  BY <1>2, LoopKeeps
<1>3. CASE \/ ShellTop \/ FrameWait \/ ShellFails \/ ShellEnd
  <2>1. Control'
    BY <1>3 DEF ShellTop, FrameWait, ShellFails, ShellEnd, Inv, Control, ShellPCs
  <2>2. CASE UNCHANGED io_vars
    BY <2>1, <2>2 DEF Inv, IoInv, IoTypeOK, TxFailsOnlyWhenLeft, io_vars
  <2>3. CASE socket_close("SRV")
    BY <2>1, <2>3, CloseKeeps DEF Inv
  <2>4. CASE Call("SRV", frame_rx_until([Fresh EXCEPT !.left = Delay], HdrSize))
    <3> DEFINE s == [Fresh EXCEPT !.left = Delay]
    <3>1. RecordOK(s) /\ s.state = "OK" /\ HdrSize \in Nat
      BY FreshLeft
    <3> HIDE DEF s
    <3>2. IoInv'
      BY <2>4, <3>1, RxKeeps DEF Inv, s
    <3> QED BY <2>1, <3>2 DEF Inv
  <2>5. CASE Call("SRV", frame_tx(Fresh, Hdr("ERROR", 0, 0)))
    <3>1. Hdr("ERROR", 0, 0) \in Frames
      BY HdrType DEF HdrKinds
    <3>2. Fresh.state = "OK"
      BY DEF Fresh
    <3> QED BY <2>1, <2>5, <3>1, <3>2, FreshOK, TxKeeps DEF Inv
  <2> QED BY <1>3, <2>2, <2>3, <2>4, <2>5 DEF ShellTop, FrameWait, ShellFails, ShellEnd
<1>4. CASE ShellReadPayload
  <2>1. IoInv'
    BY <1>1, <1>4, ReceivedType, RxKeeps DEF ShellReadPayload, Inv
  <2>2. Control'
    BY <1>4, ReceivedType DEF ShellReadPayload, Inv, Control, ShellPCs
  <2> QED BY <2>1, <2>2 DEF Inv
<1>5. CASE ShellExec
  <2>1. PICK h \in Answers(hdr["SRV"]) :
          hdr' = [hdr EXCEPT !["SRV"] = h] /\ Call("SRV", frame_tx(sock["SRV"], h))
    BY <1>5 DEF ShellExec
  <2>2. h \in Frames
    BY <1>1, AnswersType
  <2>3. IoInv'
    BY <1>1, <2>1, <2>2, TxKeeps DEF Inv
  <2>4. Control'
    BY <1>5, <2>1, <2>2 DEF ShellExec, Inv, Control, ShellPCs
  <2> QED BY <2>3, <2>4 DEF Inv
<1>6. CASE ShellSendPayload
  <2>1. Pay(hdr["SRV"].id, hdr["SRV"].len) \in Frames
    BY <1>1, FrameFields, PayType
  <2>2. IoInv'
    BY <1>1, <1>6, <2>1, TxKeeps DEF ShellSendPayload, Inv
  <2>3. Control'
    BY <1>6 DEF ShellSendPayload, Inv, Control, ShellPCs
  <2> QED BY <2>2, <2>3 DEF Inv
<1>7. CASE ShellDone
  <2>1. Call("SRV", Fresh) /\ Fresh.state = "OK"
    BY <1>7 DEF ShellDone, Fresh
  <2>2. IoInv'
    BY <2>1, FreshOK, CallKeeps DEF Inv
  <2>3. Control'
    BY <1>7 DEF ShellDone, Inv, Control, ShellPCs
  <2> QED BY <2>2, <2>3 DEF Inv
<1> QED BY <1>2, <1>3, <1>4, <1>5, <1>6, <1>7 DEF ShellStep

LEMMA InvStep == Inv /\ [Next]_vars => Inv'
<1> SUFFICES ASSUME Inv, [Next]_vars PROVE Inv'
  OBVIOUS
<1>1. CASE Time
  BY <1>1, TickKeeps DEF Time, Inv, Control
<1>2. CASE UNCHANGED vars
  <2>1. UNCHANGED io_vars /\ Control'
    BY <1>2 DEF vars, Inv, Control
  <2> QED BY <2>1 DEF Inv, IoInv, IoTypeOK, TxFailsOnlyWhenLeft, io_vars
<1> QED BY <1>1, <1>2, AppKeeps, ClientKeeps, ShellKeeps DEF Next

LEMMA InvInit == Init => Inv
<1> SUFFICES ASSUME Init PROVE Inv
  OBVIOUS
<1>1. sock = [e \in Ends |-> Fresh] /\ open = Ends /\ Fresh.state = "OK"
  BY DEF Init, IoInit, Fresh
<1>2. Fresh \in Records /\ InBounds(Fresh) /\ Sending(Fresh)
  BY FreshOK DEF RecordOK
<1>3. wire \in [Ends -> Seq([of : Frames, at : Nat])]
  <2>1. <<>> \in Seq([of : Frames, at : Nat])
    OBVIOUS
  <2> QED BY <2>1 DEF Init, IoInit
<1>4. /\ taken \in [Ends -> Frames \cup {NoFrame}] /\ broken \subseteq Ends
      /\ flight \in [Ends -> Seq(Frames)]
  <2>1. <<>> \in Seq(Frames)
    OBVIOUS
  <2> QED BY <2>1 DEF Init, IoInit
<1>5. IoInv
  BY <1>1, <1>2, <1>3, <1>4 DEF IoInv, IoTypeOK, TxFailsOnlyWhenLeft
<1>6. Control
  <2>1. calls \in 0 .. MaxCalls
    BY DEF Init
  <2>2. hdr \in [Ends -> Frames \cup {NoFrame}] /\ m_stop \in BOOLEAN /\ late \in BOOLEAN
    BY DEF Init
  <2> QED BY <2>1, <2>2 DEF Init, Control, ClientPCs, ShellPCs
<1> QED BY <1>5, <1>6 DEF Inv

-----------------------------------------------------------------------------
(* Types and bounds *)

\* Every state has its types, whatever part of a frame a system call moves: no
\* loop of frame_tx or frame_rx offers or asks for more than its buffer holds.
THEOREM TypeCorrect == Spec => []TypeOK
<1>1. Inv => TypeOK
  BY DEF Inv, IoInv, Control, TypeOK
<1> QED BY <1>1, InvInit, InvStep, PTL DEF Spec

\* A frame_tx fails only when the peer has left: frame_tx makes its socket
\* blocking first, so that a full buffer makes it wait.
THEOREM TxFailureMeansLeft == Spec => []TxFailsOnlyWhenLeft
<1>1. Inv => TxFailsOnlyWhenLeft
  BY DEF Inv, IoInv
<1> QED BY <1>1, InvInit, InvStep, PTL DEF Spec

-----------------------------------------------------------------------------
(* The frames on their way, laid out as bytes, one after another *)

\* The frames of q, one after another, are the bytes of st
Laid(q, st) ==
    \E pos \in [1 .. Len(q) + 1 -> Nat] :
        /\ pos[1] = 0 /\ pos[Len(q) + 1] = Len(st)
        /\ \A i, k \in 1 .. Len(q) + 1 : i <= k => pos[i] <= pos[k]
        /\ \A k \in 1 .. Len(q) :
              /\ pos[k + 1] = pos[k] + Size(q[k])
              /\ \A j \in 1 .. Size(q[k]) : st[pos[k] + j] = [of |-> q[k], at |-> j]

\* A payload that a prefix announces, and what comes after a frame
Owed(f) == IF f.kind \in HdrKinds THEN f.len ELSE 0

Follows(f, g) ==
    IF Owed(f) = 0 THEN g.kind \in HdrKinds ELSE g.kind = "PAYLOAD" /\ g.len = Owed(f)

InTurn(f, q) == \A i \in 1 .. Len(q) : Follows(IF i = 1 THEN f ELSE q[i - 1], q[i])

LastOf(f, q) == IF q = <<>> THEN f ELSE q[Len(q)]

OnlyPayload(q, from) == \A i \in from .. Len(q) : q[i].kind = "PAYLOAD"

LEMMA BytesAre ==
    ASSUME NEW f \in Frames
    PROVE  /\ Bytes(f) \in Seq(WireBytes) /\ Len(Bytes(f)) = Size(f) /\ Size(f) \in Nat
           /\ \A i \in 1 .. Size(f) : Bytes(f)[i] = [of |-> f, at |-> i]
<1>1. Size(f) \in Nat
  BY SizeType
<1>2. \A i \in 1 .. Size(f) : [of |-> f, at |-> i] \in WireBytes
  BY <1>1 DEF WireBytes
<1> QED BY <1>1, <1>2 DEF Bytes

LEMMA NothingLaid == Laid(<<>>, <<>>)
<1> DEFINE pos == [k \in 1 .. 1 |-> 0]
<1>1. Len(<<>>) = 0
  OBVIOUS
<1>2. pos \in [1 .. 0 + 1 -> Nat] /\ pos[1] = 0
  OBVIOUS
<1> HIDE DEF pos
<1> QED BY <1>1, <1>2 DEF Laid

\* Bytes on their way belong to a frame on its way
LEMMA LaidSome ==
    ASSUME NEW q \in Seq(Frames), NEW st \in Seq(WireBytes), Laid(q, st), st # <<>>
    PROVE  q # <<>>
<1>1. SUFFICES ASSUME q = <<>> PROVE FALSE
  OBVIOUS
<1>2. Len(q) = 0
  BY <1>1
<1>3. PICK pos \in [1 .. 0 + 1 -> Nat] : pos[1] = 0 /\ pos[0 + 1] = Len(st)
  BY <1>2 DEF Laid
<1> QED BY <1>3

LEMMA LaidOne ==
    ASSUME NEW q \in Seq(Frames), NEW st \in Seq(WireBytes), Laid(q, st), Len(q) = 1
    PROVE  Len(st) = Size(q[1])
<1>1. PICK pos \in [1 .. 1 + 1 -> Nat] :
        /\ pos[1] = 0 /\ pos[1 + 1] = Len(st)
        /\ \A k \in 1 .. 1 : pos[k + 1] = pos[k] + Size(q[k])
  BY DEF Laid
<1>2. q[1] \in Frames
  OBVIOUS
<1> QED BY <1>1, <1>2, SizeType

\* Another frame is sent
LEMMA LaidAppend ==
    ASSUME NEW q \in Seq(Frames), NEW st \in Seq(WireBytes), Laid(q, st), NEW f \in Frames
    PROVE  Laid(Append(q, f), st \o Bytes(f))
<1> DEFINE n == Len(q)  m == Len(st)  z == Size(f)
           q2 == Append(q, f)  st2 == st \o Bytes(f)
<1>0. PICK pos \in [1 .. n + 1 -> Nat] :
        /\ pos[1] = 0 /\ pos[n + 1] = m
        /\ \A i, k \in 1 .. n + 1 : i <= k => pos[i] <= pos[k]
        /\ \A k \in 1 .. n : /\ pos[k + 1] = pos[k] + Size(q[k])
                             /\ \A j \in 1 .. Size(q[k]) : st[pos[k] + j] = [of |-> q[k], at |-> j]
  BY DEF Laid
<1>1. /\ n \in Nat /\ m \in Nat /\ z \in Nat /\ Len(q2) = n + 1
      /\ (\A k \in 1 .. n : q2[k] = q[k] /\ Size(q[k]) \in Nat) /\ q2[n + 1] = f
  BY SizeType
<1>2. Len(Bytes(f)) = z /\ \A j \in 1 .. z : Bytes(f)[j] = [of |-> f, at |-> j]
  BY BytesAre
<1>3. /\ Len(st2) = m + z
      /\ \A i \in 1 .. m : st2[i] = st[i]
      /\ \A j \in 1 .. z : st2[m + j] = [of |-> f, at |-> j]
  <2>1. \A i \in 1 .. Len(st) + Len(Bytes(f)) :
           st2[i] = IF i <= Len(st) THEN st[i] ELSE Bytes(f)[i - Len(st)]
    BY BytesAre, ConcatProperties
  <2>2. Len(st2) = m + z
    BY BytesAre, ConcatProperties
  <2> HIDE DEF st2, z
  <2>3. \A i \in 1 .. m : i \in 1 .. m + z /\ i <= m
    BY <1>1
  <2>4. \A j \in 1 .. z : m + j \in 1 .. m + z /\ ~(m + j <= m) /\ (m + j) - m = j
    BY <1>1
  <2>5. \A i \in 1 .. m + z : st2[i] = IF i <= m THEN st[i] ELSE Bytes(f)[i - m]
    BY <1>2, <2>1
  <2> HIDE DEF m
  <2>6. \A i \in 1 .. m : st2[i] = st[i]
    BY <2>3, <2>5
  <2>7. \A j \in 1 .. z : st2[m + j] = Bytes(f)[j]
    BY <2>4, <2>5
  <2> QED BY <1>2, <2>2, <2>6, <2>7
<1> DEFINE new == [k \in 1 .. n + 2 |-> IF k <= n + 1 THEN pos[k] ELSE m + z]
<1> HIDE DEF n, m, z, q2, st2
<1>4. /\ new \in [1 .. (n + 1) + 1 -> Nat] /\ new[(n + 1) + 1] = m + z
      /\ \A k \in 1 .. n + 1 : new[k] = pos[k]
  BY <1>0, <1>1
<1> HIDE DEF new
<1>5. \A i, k \in 1 .. (n + 1) + 1 : i <= k => new[i] <= new[k]
  <2> SUFFICES ASSUME NEW i \in 1 .. (n + 1) + 1, NEW k \in 1 .. (n + 1) + 1, i <= k
               PROVE  new[i] <= new[k]
    OBVIOUS
  <2>1. CASE k <= n + 1
    BY <1>0, <1>1, <1>4, <2>1
  <2>2. CASE k = (n + 1) + 1
    <3>1. \A l \in 1 .. n + 1 : pos[l] <= m /\ pos[l] \in Nat
      BY <1>0, <1>1
    <3> QED BY <1>1, <1>4, <2>2, <3>1
  <2> QED BY <1>1, <2>1, <2>2
<1>6. \A k \in 1 .. n + 1 :
        /\ new[k + 1] = new[k] + Size(q2[k])
        /\ \A j \in 1 .. Size(q2[k]) : st2[new[k] + j] = [of |-> q2[k], at |-> j]
  <2> SUFFICES ASSUME NEW k \in 1 .. n + 1
               PROVE  /\ new[k + 1] = new[k] + Size(q2[k])
                      /\ \A j \in 1 .. Size(q2[k]) : st2[new[k] + j] = [of |-> q2[k], at |-> j]
    OBVIOUS
  <2>1. CASE k = n + 1
    BY <1>0, <1>1, <1>3, <1>4, <2>1 DEF z
  <2>2. CASE k \in 1 .. n
    <3>1. /\ new[k] = pos[k] /\ new[k + 1] = pos[k + 1] /\ q2[k] = q[k]
          /\ pos[k + 1] = pos[k] + Size(q[k]) /\ Size(q[k]) \in Nat /\ pos[k] \in Nat
      BY <1>0, <1>1, <1>4, <2>2
    <3>2. pos[k + 1] <= m
      BY <1>0, <1>1, <2>2
    <3>3. \A j \in 1 .. Size(q[k]) : pos[k] + j \in 1 .. m
      BY <1>1, <3>1, <3>2
    <3>4. \A j \in 1 .. Size(q[k]) : st[pos[k] + j] = [of |-> q[k], at |-> j]
      BY <1>0, <2>2
    <3>5. \A j \in 1 .. Size(q[k]) : st2[pos[k] + j] = st[pos[k] + j]
      BY <1>3, <3>3
    <3> QED BY <3>1, <3>4, <3>5
  <2> QED BY <1>1, <2>1, <2>2
<1>7. Len(q2) = n + 1 /\ Len(st2) = m + z /\ new[1] = 0
  BY <1>0, <1>1, <1>3, <1>4
<1>8. Laid(q2, st2)
  <2>1. new \in [1 .. Len(q2) + 1 -> Nat] /\ new[Len(q2) + 1] = Len(st2)
    BY <1>4, <1>7
  <2>2. \A i, k \in 1 .. Len(q2) + 1 : i <= k => new[i] <= new[k]
    BY <1>5, <1>7
  <2>3. \A k \in 1 .. Len(q2) :
          /\ new[k + 1] = new[k] + Size(q2[k])
          /\ \A j \in 1 .. Size(q2[k]) : st2[new[k] + j] = [of |-> q2[k], at |-> j]
    BY <1>6, <1>7
  <2> QED BY <1>7, <2>1, <2>2, <2>3, Zenon DEF Laid
<1> QED BY <1>8 DEF q2, st2

\* Two streams of bytes, one behind the other
LEMMA Joined ==
    ASSUME NEW a \in Seq(WireBytes), NEW b \in Seq(WireBytes)
    PROVE  /\ a \o b \in Seq(WireBytes) /\ Len(a \o b) = Len(a) + Len(b)
           /\ \A i \in 1 .. Len(a) : (a \o b)[i] = a[i]
           /\ \A j \in 1 .. Len(b) : (a \o b)[Len(a) + j] = b[j]
<1> DEFINE m == Len(a)  n == Len(b)  c == a \o b
<1>1. /\ m \in Nat /\ n \in Nat /\ c \in Seq(WireBytes) /\ Len(c) = m + n
      /\ \A i \in 1 .. m + n : c[i] = IF i <= m THEN a[i] ELSE b[i - m]
  BY ConcatProperties
<1> HIDE DEF m, n, c
<1>2. \A i \in 1 .. m : i \in 1 .. m + n /\ i <= m
  BY <1>1
<1>3. \A j \in 1 .. n : m + j \in 1 .. m + n /\ ~(m + j <= m) /\ (m + j) - m = j
  BY <1>1
<1>4. (\A i \in 1 .. m : c[i] = a[i]) /\ (\A j \in 1 .. n : c[m + j] = b[j])
  BY <1>1, <1>2, <1>3
<1> QED BY <1>1, <1>4 DEF m, n, c

\* Where the brackets are makes no difference
LEMMA Regroup ==
    ASSUME NEW a \in Seq(WireBytes), NEW b \in Seq(WireBytes), NEW c \in Seq(WireBytes)
    PROVE  (a \o b) \o c = a \o (b \o c)
BY ConcatAssociative

\* The first frame is received
LEMMA LaidTake ==
    ASSUME NEW q \in Seq(Frames), q # <<>>, NEW a \in Seq(WireBytes), NEW b \in Seq(WireBytes),
           Laid(q, a \o b), Len(a) = Size(Head(q))
    PROVE  a = Bytes(Head(q)) /\ Laid(Tail(q), b)
<1> DEFINE n == Len(q)  z == Len(a)  m == Len(b)  st == a \o b  h == q[1]  t == Tail(q)
<1>1. /\ n \in Nat \ {0} /\ z \in Nat /\ m \in Nat /\ h \in Frames /\ h = Head(q)
      /\ z = Size(h) /\ Len(t) = n - 1 /\ (\A k \in 1 .. n - 1 : t[k] = q[k + 1])
      /\ \A k \in 1 .. n : Size(q[k]) \in Nat
  BY SizeType
<1>2. /\ Len(st) = z + m
      /\ \A i \in 1 .. z : st[i] = a[i]
      /\ \A j \in 1 .. m : st[z + j] = b[j]
  BY Joined
<1>0. PICK pos \in [1 .. n + 1 -> Nat] :
        /\ pos[1] = 0 /\ pos[n + 1] = Len(st)
        /\ \A i, k \in 1 .. n + 1 : i <= k => pos[i] <= pos[k]
        /\ \A k \in 1 .. n : /\ pos[k + 1] = pos[k] + Size(q[k])
                             /\ \A j \in 1 .. Size(q[k]) : st[pos[k] + j] = [of |-> q[k], at |-> j]
  BY DEF Laid
<1> HIDE DEF st
<1>3. a = Bytes(h)
  <2>1. \A j \in 1 .. z : st[pos[1] + j] = [of |-> h, at |-> j]
    BY <1>0, <1>1
  <2>2. \A j \in 1 .. z : pos[1] + j = j
    BY <1>0, <1>1
  <2>3. Bytes(h) \in Seq(WireBytes) /\ Len(Bytes(h)) = z
        /\ \A j \in 1 .. z : Bytes(h)[j] = [of |-> h, at |-> j]
    BY <1>1, BytesAre
  <2> HIDE DEF h, z
  <2>5. \A j \in 1 .. z : st[j] = [of |-> h, at |-> j]
    BY <2>1, <2>2
  <2>4. \A j \in 1 .. z : a[j] = Bytes(h)[j]
    BY <1>2, <2>3, <2>5
  <2> QED BY <2>3, <2>4, SeqEqual DEF z
<1> DEFINE new == [k \in 1 .. n |-> pos[k + 1] - z]
<1> HIDE DEF n, z, m, h, t
<1>s. pos[2] = z
  <2>1. 1 \in 1 .. n /\ 1 + 1 = 2
    BY <1>1
  <2>2. pos[2] = pos[1] + Size(q[1])
    BY <1>0, <2>1
  <2> QED BY <1>0, <1>1, <2>2 DEF h
<1>4. \A k \in 1 .. n : pos[k + 1] \in Nat /\ pos[k + 1] >= z
  <2> TAKE k \in 1 .. n
  <2>1. n \in Nat
    BY <1>1
  <2>2. 2 <= k + 1 /\ k + 1 \in 1 .. n + 1 /\ 2 \in 1 .. n + 1
    BY <2>1
  <2>3. pos[k + 1] \in Nat
    BY <1>0, <2>2
  <2>4. pos[2] <= pos[k + 1]
    BY <1>0, <2>2
  <2> QED BY <1>s, <2>3, <2>4
<1>5. /\ new \in [1 .. (n - 1) + 1 -> Nat] /\ new[1] = 0 /\ new[(n - 1) + 1] = m
      /\ \A k \in 1 .. n : new[k] = pos[k + 1] - z
  <2>0. n \in Nat \ {0}
    BY <1>1
  <2>1. (n - 1) + 1 = n /\ 1 \in 1 .. n /\ n \in 1 .. n /\ 1 + 1 = 2
    BY <2>0
  <2>2. pos[n + 1] = z + m
    BY <1>0, <1>2
  <2>3. new \in [1 .. n -> Nat]
    BY <1>1, <1>4
  <2>4. \A k \in 1 .. n : new[k] = pos[k + 1] - z
    OBVIOUS
  <2> HIDE DEF new
  <2>5. new[1] = 0
    <3>1. new[1] = pos[2] - z /\ z \in Nat
      BY <1>1, <2>1, <2>4
    <3> QED BY <1>s, <3>1
  <2>6. new[n] = m
    <3>1. new[n] = pos[n + 1] - z
      BY <2>1, <2>4
    <3>2. z \in Nat /\ m \in Nat
      BY <1>1
    <3> QED BY <2>2, <3>1, <3>2
  <2> QED BY <2>1, <2>3, <2>4, <2>5, <2>6
<1> HIDE DEF new
<1>6. \A i, k \in 1 .. (n - 1) + 1 : i <= k => new[i] <= new[k]
  <2> SUFFICES ASSUME NEW i \in 1 .. n, NEW k \in 1 .. n, i <= k  PROVE new[i] <= new[k]
    BY <1>1
  <2>0. n \in Nat
    BY <1>1
  <2>1. i + 1 \in 1 .. n + 1 /\ k + 1 \in 1 .. n + 1 /\ i + 1 <= k + 1
    BY <2>0
  <2>2. pos[i + 1] <= pos[k + 1]
    BY <1>0, <2>1
  <2>3. new[i] = pos[i + 1] - z /\ new[k] = pos[k + 1] - z /\ pos[i + 1] \in Nat /\ pos[k + 1] \in Nat
    BY <1>4, <1>5
  <2>4. z \in Nat
    BY <1>1
  <2> QED BY <2>2, <2>3, <2>4
<1>7. \A k \in 1 .. n - 1 :
        /\ new[k + 1] = new[k] + Size(t[k])
        /\ \A j \in 1 .. Size(t[k]) : b[new[k] + j] = [of |-> t[k], at |-> j]
  <2> SUFFICES ASSUME NEW k \in 1 .. n - 1
               PROVE  /\ new[k + 1] = new[k] + Size(t[k])
                      /\ \A j \in 1 .. Size(t[k]) : b[new[k] + j] = [of |-> t[k], at |-> j]
    OBVIOUS
  <2>0. n \in Nat
    BY <1>1
  <2>1. k + 1 \in 1 .. n /\ k \in 1 .. n /\ (k + 1) + 1 \in 1 .. n + 1 /\ n + 1 \in 1 .. n + 1
        /\ (k + 1) + 1 <= n + 1
    BY <2>0
  <2>2. t[k] = q[k + 1] /\ Size(t[k]) \in Nat
    BY <1>1, <2>1
  <2>3. /\ pos[(k + 1) + 1] = pos[k + 1] + Size(t[k])
        /\ \A j \in 1 .. Size(t[k]) : st[pos[k + 1] + j] = [of |-> t[k], at |-> j]
    BY <1>0, <2>1, <2>2
  <2>4. /\ new[k] = pos[k + 1] - z /\ new[k + 1] = pos[(k + 1) + 1] - z
        /\ pos[k + 1] \in Nat /\ pos[k + 1] >= z
    BY <1>4, <1>5, <2>1
  <2>5. new[k + 1] = new[k] + Size(t[k])
    <3> DEFINE p == pos[k + 1]  y == Size(t[k])
    <3>1. p \in Nat /\ y \in Nat /\ z \in Nat /\ new[k] = p - z /\ new[k + 1] = (p + y) - z
      BY <1>1, <2>2, <2>3, <2>4
    <3> HIDE DEF p, y
    <3> QED BY <3>1 DEF y
  <2>6. pos[(k + 1) + 1] <= z + m
    <3>1. pos[(k + 1) + 1] <= pos[n + 1]
      BY <1>0, <2>1
    <3> QED BY <1>0, <1>2, <3>1
  <2>7. ASSUME NEW j \in 1 .. Size(t[k])  PROVE b[new[k] + j] = [of |-> t[k], at |-> j]
    <3> DEFINE p == pos[k + 1]  x == new[k]
    <3>a. /\ p \in Nat /\ p >= z /\ x = p - z /\ z \in Nat /\ m \in Nat /\ Size(t[k]) \in Nat
          /\ p + Size(t[k]) <= z + m
      BY <1>1, <2>2, <2>3, <2>4, <2>6
    <3> HIDE DEF p, x
    <3>b. x + j \in 1 .. m /\ z + (x + j) = p + j
      BY <3>a
    <3>1. new[k] + j \in 1 .. m /\ z + (new[k] + j) = pos[k + 1] + j
      BY <3>b DEF p, x
    <3>2. st[z + (new[k] + j)] = b[new[k] + j]
      BY <1>2, <3>1
    <3> QED BY <2>3, <3>1, <3>2
  <2> QED BY <2>5, <2>7
<1>8. Laid(t, b)
  <2>0. Len(t) = n - 1 /\ Len(b) = m
    BY <1>1 DEF m
  <2>1. new \in [1 .. Len(t) + 1 -> Nat] /\ new[1] = 0 /\ new[Len(t) + 1] = Len(b)
    BY <1>5, <2>0
  <2>2. \A i, k \in 1 .. Len(t) + 1 : i <= k => new[i] <= new[k]
    BY <1>6, <2>0
  <2>3. \A k \in 1 .. Len(t) :
          /\ new[k + 1] = new[k] + Size(t[k])
          /\ \A j \in 1 .. Size(t[k]) : b[new[k] + j] = [of |-> t[k], at |-> j]
    BY <1>7, <2>0
  <2> QED BY <2>1, <2>2, <2>3, Zenon DEF Laid
<1> QED BY <1>1, <1>3, <1>8 DEF t

LEMMA AppendInTurn ==
    ASSUME NEW f, NEW q \in Seq(Frames), NEW g \in Frames, InTurn(f, q), Follows(LastOf(f, q), g)
    PROVE  InTurn(f, Append(q, g)) /\ LastOf(f, Append(q, g)) = g
<1> DEFINE n == Len(q)  r == Append(q, g)
<1>1. n \in Nat /\ Len(r) = n + 1 /\ (\A i \in 1 .. n : r[i] = q[i]) /\ r[n + 1] = g /\ r # <<>>
      /\ (q = <<>> <=> n = 0)
  OBVIOUS
<1> HIDE DEF r
<1>2. \A i \in 1 .. n : Follows(IF i = 1 THEN f ELSE q[i - 1], q[i])
  BY DEF InTurn
<1>3. Follows(IF n + 1 = 1 THEN f ELSE q[n], g)
  BY <1>1 DEF LastOf
<1> HIDE DEF n
<1>4. \A i \in 1 .. n + 1 : Follows(IF i = 1 THEN f ELSE r[i - 1], r[i])
  <2> SUFFICES ASSUME NEW i \in 1 .. n + 1
               PROVE  Follows(IF i = 1 THEN f ELSE r[i - 1], r[i])
    OBVIOUS
  <2>1. CASE i = n + 1
    <3>1. r[i] = g /\ i - 1 = n
      BY <1>1, <2>1
    <3>2. i # 1 => n \in 1 .. n
      BY <1>1, <2>1
    <3>3. i # 1 => r[n] = q[n]
      BY <1>1, <3>2
    <3> QED BY <1>3, <2>1, <3>1, <3>3
  <2>2. CASE i \in 1 .. n
    <3>1. r[i] = q[i]
      BY <1>1, <2>2
    <3>2. i # 1 => i - 1 \in 1 .. n
      BY <1>1, <2>2
    <3>3. i # 1 => r[i - 1] = q[i - 1]
      BY <1>1, <3>2
    <3> QED BY <1>2, <2>2, <3>1, <3>3
  <2> QED BY <1>1, <2>1, <2>2
<1>5. InTurn(f, r)
  BY <1>1, <1>4 DEF InTurn
<1>6. LastOf(f, r) = g
  BY <1>1 DEF LastOf
<1> QED BY <1>5, <1>6 DEF r

LEMMA TakeInTurn ==
    ASSUME NEW f, NEW q \in Seq(Frames), q # <<>>, InTurn(f, q)
    PROVE  /\ Follows(f, Head(q))
           /\ InTurn(Head(q), Tail(q)) /\ LastOf(Head(q), Tail(q)) = LastOf(f, q)
<1> DEFINE n == Len(q)  t == Tail(q)
<1>1. n \in Nat \ {0} /\ Len(t) = n - 1 /\ (\A i \in 1 .. n - 1 : t[i] = q[i + 1]) /\ Head(q) = q[1]
      /\ (t = <<>> <=> n = 1)
  <2>1. /\ Len(q) \in Nat \ {0} /\ t \in Seq(Frames) /\ Len(t) = Len(q) - 1 /\ Head(q) = q[1]
        /\ \A i \in 1 .. Len(q) - 1 : t[i] = q[i + 1]
    BY HeadTailProperties
  <2> HIDE DEF t
  <2>2. t = <<>> <=> Len(t) = 0
    BY <2>1
  <2> QED BY <2>1, <2>2
<1>2. \A i \in 1 .. n : Follows(IF i = 1 THEN f ELSE q[i - 1], q[i])
  BY DEF InTurn
<1> HIDE DEF n, t
<1>3. Follows(f, q[1])
  BY <1>1, <1>2
<1>4. \A i \in 1 .. n - 1 : Follows(IF i = 1 THEN q[1] ELSE t[i - 1], t[i])
  <2> SUFFICES ASSUME NEW i \in 1 .. n - 1
               PROVE  Follows(IF i = 1 THEN q[1] ELSE t[i - 1], t[i])
    OBVIOUS
  <2>1. i + 1 \in 1 .. n /\ i + 1 # 1 /\ (i + 1) - 1 = i /\ t[i] = q[i + 1]
    BY <1>1
  <2>2. Follows(q[i], q[i + 1])
    BY <1>2, <2>1
  <2>3. i # 1 => i - 1 \in 1 .. n - 1 /\ (i - 1) + 1 = i
    BY <1>1
  <2>4. i # 1 => t[i - 1] = q[i]
    BY <1>1, <2>3
  <2> QED BY <2>1, <2>2, <2>4
<1>5. InTurn(q[1], t)
  BY <1>1, <1>4 DEF InTurn
<1>6. LastOf(q[1], t) = LastOf(f, q)
  <2>1. CASE n = 1
    BY <1>1, <2>1 DEF LastOf, n
  <2>2. CASE n # 1
    <3>1. t[n - 1] = q[n] /\ t # <<>> /\ q # <<>>
      BY <1>1, <2>2
    <3> QED BY <1>1, <3>1 DEF LastOf, n
  <2> QED BY <2>1, <2>2
<1> QED BY <1>1, <1>3, <1>5, <1>6 DEF t

\* Where nothing is owed, payloads alone are nothing
LEMMA NoPayloadFirst ==
    ASSUME NEW f, NEW q \in Seq(Frames), InTurn(f, q), Owed(f) = 0, OnlyPayload(q, 1)
    PROVE  q = <<>>
<1>1. SUFFICES ASSUME q # <<>> PROVE FALSE
  OBVIOUS
<1>2. 1 \in 1 .. Len(q)
  BY <1>1
<1>3. q[1].kind \in HdrKinds /\ q[1].kind = "PAYLOAD"
  BY <1>2 DEF InTurn, Follows, OnlyPayload
<1> QED BY <1>3 DEF HdrKinds

LEMMA OnlyPayloadTail ==
    ASSUME NEW q \in Seq(Frames), q # <<>>, NEW from \in {1, 2}, OnlyPayload(q, from)
    PROVE  OnlyPayload(Tail(q), 1)
<1>1. Len(q) \in Nat \ {0} /\ Len(Tail(q)) = Len(q) - 1
      /\ \A i \in 1 .. Len(q) - 1 : Tail(q)[i] = q[i + 1]
  OBVIOUS
<1>2. \A i \in 1 .. Len(q) - 1 : i + 1 \in from .. Len(q)
  BY <1>1
<1> QED BY <1>1, <1>2 DEF OnlyPayload

LEMMA OnlyPayloadAppend ==
    ASSUME NEW q \in Seq(Frames), NEW g \in Frames
    PROVE  /\ q = <<>> => OnlyPayload(Append(q, g), 2)
           /\ \A from \in {1, 2} :
                OnlyPayload(q, from) /\ g.kind = "PAYLOAD" => OnlyPayload(Append(q, g), from)
           /\ OnlyPayload(q, 1) => OnlyPayload(q, 2)
<1> DEFINE n == Len(q)  r == Append(q, g)
<1>1. n \in Nat /\ Len(r) = n + 1 /\ (\A i \in 1 .. n : r[i] = q[i]) /\ r[n + 1] = g
      /\ (q = <<>> <=> n = 0)
  OBVIOUS
<1> HIDE DEF n, r
<1>2. q = <<>> => OnlyPayload(r, 2)
  BY <1>1 DEF OnlyPayload
<1>3. ASSUME NEW from \in {1, 2}, OnlyPayload(q, from), g.kind = "PAYLOAD"
      PROVE  OnlyPayload(r, from)
  <2>1. \A i \in from .. n + 1 : i = n + 1 \/ (i \in from .. n /\ i \in 1 .. n)
    BY <1>1
  <2> QED BY <1>1, <1>3, <2>1 DEF OnlyPayload, n
<1>4. OnlyPayload(q, 1) => OnlyPayload(q, 2)
  BY <1>1 DEF OnlyPayload, n
<1> QED BY <1>2, <1>3, <1>4 DEF r

-----------------------------------------------------------------------------
(* The bytes that an end has yet to read *)

Wanted(f) == IF Owed(f) = 0 THEN HdrSize ELSE Owed(f)

Receiving(s) == s.io \in {"RECV", "SELECT"}

Got(s)  == IF Receiving(s) THEN s.inp ELSE <<>>
Rest(s) == IF s.io = "SEND" THEN SubSeq(Bytes(s.out), s.cnt + 1, Size(s.out)) ELSE <<>>

\* The bytes an end has yet to make frames of
Stream(e) == (Got(sock[e]) \o wire[e]) \o Rest(sock[Other(e)])

\* The payload that an end has announced and not begun to send
Due(e) ==
    IF (e = "CLI" /\ cpc = "txHdr") \/ (e = "SRV" /\ spc = "txHdr") THEN hdr[e].len ELSE 0

Intact(e) == e \notin broken /\ (e = "CLI" => ~late)

InFlow(f, q, st, due) == Laid(q, st) /\ InTurn(f, q) /\ Owed(LastOf(f, q)) = due

Flow == \A e \in Ends : Intact(e) => InFlow(taken[e], flight[e], Stream(e), Due(Other(e)))

LEMMA OtherEnd ==
    ASSUME NEW e \in Ends
    PROVE  Other(e) \in Ends /\ Other(e) # e /\ Other(Other(e)) = e /\ Ends = {e, Other(e)}
BY DEF Ends, Other

LEMMA OwedType == ASSUME NEW f \in Frames \cup {NoFrame} PROVE Owed(f) \in Nat
BY FrameFields DEF Owed

LEMMA FollowsSize ==
    ASSUME NEW f \in Frames \cup {NoFrame}, NEW g \in Frames, Follows(f, g)
    PROVE  Size(g) = Wanted(f) /\ Wanted(f) \in Nat \ {0}
BY OwedType DEF Follows, Size, Wanted, HdrKinds

LEMMA FrameInBytes ==
    ASSUME NEW f \in Frames, Size(f) # 0
    PROVE  FrameIn(Bytes(f)) = f
<1>1. Size(f) \in Nat /\ 1 \in 1 .. Size(f)
  BY SizeType
<1>2. Bytes(f) \in Seq(WireBytes) /\ Len(Bytes(f)) # 0 /\ Bytes(f)[1] = [of |-> f, at |-> 1]
  BY <1>1, BytesAre
<1>3. Bytes(f) # <<>> /\ Bytes(f)[1].of = f
  BY <1>2
<1> QED BY <1>3 DEF FrameIn

-----------------------------------------------------------------------------
(* What system calls do with them *)

LEMMA RestIs ==
    ASSUME NEW s, RecordOK(s)
    PROVE  /\ Rest(s) \in Seq(WireBytes) /\ Got(s) \in Seq(WireBytes)
           /\ s.io = "SEND" <=> Rest(s) # <<>>
           /\ Receiving(s) => s.io # "SEND"
<1>1. s \in Records /\ s.inp \in Seq(WireBytes) /\ s.cnt \in Nat
  BY DEF RecordOK, Records, WireBytes
<1>2. CASE s.io = "SEND"
  <2>1. s.out \in Frames /\ s.cnt < Size(s.out) /\ Size(s.out) \in Nat
    BY <1>2, SizeType DEF RecordOK, Sending, InBounds
  <2>2. Bytes(s.out) \in Seq(WireBytes) /\ Len(Bytes(s.out)) = Size(s.out)
    BY <2>1, BytesAre
  <2>3. \A i \in s.cnt + 1 .. Size(s.out) : Bytes(s.out)[i] \in WireBytes
    BY <1>1, <2>1, <2>2, ElementOfSeq
  <2>4. SubSeq(Bytes(s.out), s.cnt + 1, Size(s.out)) \in Seq(WireBytes)
        /\ Len(SubSeq(Bytes(s.out), s.cnt + 1, Size(s.out))) = Size(s.out) - (s.cnt + 1) + 1
    BY <1>1, <2>1, <2>3, SubSeqProperties
  <2>5. Size(s.out) - (s.cnt + 1) + 1 # 0
    BY <1>1, <2>1
  <2>6. SubSeq(Bytes(s.out), s.cnt + 1, Size(s.out)) # <<>>
    BY <2>4, <2>5
  <2> QED BY <1>2, <2>4, <2>6 DEF Rest, Got, Receiving
<1>3. CASE s.io # "SEND"
  BY <1>1, <1>3 DEF Rest, Got, Receiving
<1> QED BY <1>2, <1>3

LEMMA StreamType ==
    ASSUME IoInv, NEW e \in Ends
    PROVE  /\ Got(sock[e]) \in Seq(WireBytes) /\ wire[e] \in Seq(WireBytes)
           /\ Rest(sock[Other(e)]) \in Seq(WireBytes) /\ Stream(e) \in Seq(WireBytes)
           /\ flight[e] \in Seq(Frames) /\ taken[e] \in Frames \cup {NoFrame}
           /\ sock[e] \in Records /\ RecordOK(sock[e])
<1>1. RecordOK(sock[e]) /\ RecordOK(sock[Other(e)])
  BY IoInvMeans, OtherEnd
<1>2. wire[e] \in Seq(WireBytes) /\ flight[e] \in Seq(Frames) /\ taken[e] \in Frames \cup {NoFrame}
  BY DEF IoInv, IoTypeOK, WireBytes
<1>3. Got(sock[e]) \in Seq(WireBytes) /\ Rest(sock[Other(e)]) \in Seq(WireBytes)
  BY <1>1, RestIs
<1>4. Stream(e) \in Seq(WireBytes)
  BY <1>2, <1>3, ConcatProperties DEF Stream
<1> QED BY <1>1, <1>2, <1>3, <1>4 DEF RecordOK

\* What send() takes is the start of what is left
LEMMA RestAdvances ==
    ASSUME NEW s, RecordOK(s), s.io = "SEND", NEW k \in 1 .. Size(s.out) - s.cnt
    PROVE  /\ Sent(s, k) \in Seq(WireBytes) /\ Rest(s) = Sent(s, k) \o Rest(Advance(s, k))
           /\ Got(Advance(s, k)) = <<>> /\ Rest(Advance(s, k)) \in Seq(WireBytes)
<1>1. s \in Records /\ s.out \in Frames /\ s.cnt \in Nat /\ Size(s.out) \in Nat
  BY SizeType DEF RecordOK, Sending, Records
<1>2. /\ k \in Nat /\ s.cnt + k <= Size(s.out)
      /\ Bytes(s.out) \in Seq(WireBytes) /\ Len(Bytes(s.out)) = Size(s.out)
  BY <1>1, BytesAre
<1>3. Sent(s, k) \in Seq(WireBytes)
  BY <1>1, <1>2, SentType
<1>4. RecordOK(Advance(s, k))
  BY AdvanceOK
<1>5. CASE s.cnt + k = Size(s.out)
  <2>1. Advance(s, k).io = "BACK"
    BY <1>1, <1>5 DEF Advance, TxEnd, Records
  <2>2. Rest(Advance(s, k)) = <<>> /\ Got(Advance(s, k)) = <<>>
    BY <2>1 DEF Rest, Got, Receiving
  <2>3. Rest(s) = Sent(s, k)
    BY <1>5 DEF Rest, Sent
  <2> QED BY <1>3, <2>2, <2>3, ConcatEmptySeq
<1>6. CASE s.cnt + k # Size(s.out)
  <2> DEFINE r == [s EXCEPT !.cnt = s.cnt + k]
  <2>1. Advance(s, k) = r
    BY <1>6 DEF Advance
  <2>2. r.io = "SEND" /\ r.out = s.out /\ r.cnt = s.cnt + k
    BY <1>1 DEF Records
  <2> HIDE DEF r
  <2>3. Rest(Advance(s, k)) = SubSeq(Bytes(s.out), (s.cnt + k) + 1, Size(s.out))
        /\ Got(Advance(s, k)) = <<>>
    BY <2>1, <2>2 DEF Rest, Got, Receiving
  <2>4. Rest(s) = SubSeq(Bytes(s.out), s.cnt + 1, Size(s.out))
    BY DEF Rest
  <2>5. /\ s.cnt + 1 \in 1 .. Len(Bytes(s.out)) + 1
        /\ s.cnt + k \in (s.cnt + 1) - 1 .. Len(Bytes(s.out))
        /\ Size(s.out) \in s.cnt + k .. Len(Bytes(s.out))
    BY <1>1, <1>2
  <2>6. SubSeq(Bytes(s.out), s.cnt + 1, s.cnt + k)
           \o SubSeq(Bytes(s.out), (s.cnt + k) + 1, Size(s.out)) = Rest(s)
    BY <1>2, <2>4, <2>5, ConcatAdjacentSubSeq
  <2>7. Rest(Advance(s, k)) \in Seq(WireBytes)
    BY <1>4, RestIs
  <2> QED BY <1>3, <2>3, <2>6, <2>7 DEF Sent
<1> QED BY <1>5, <1>6

\* An end gets a new record that gives and takes as much, and the wires are kept
LEMMA StreamSame ==
    ASSUME NEW e \in Ends, wire'[e] = wire[e], Got(sock'[e]) = Got(sock[e]),
           Rest(sock'[Other(e)]) = Rest(sock[Other(e)])
    PROVE  Stream(e)' = Stream(e)
BY DEF Stream

\* send() moves bytes from the sender to the wire
LEMMA SendStream ==
    ASSUME IoInv, NEW e \in Ends, Send(e)
    PROVE  /\ Stream(e)' = Stream(e)
           /\ Other(e) \in open => Stream(Other(e))' = Stream(Other(e))
<1> DEFINE s == sock[e]  to == Other(e)
<1>1. /\ to \in Ends /\ to # e /\ Other(to) = e /\ RecordOK(s) /\ s.io = "SEND" /\ s.blocking = TRUE
      /\ sock \in [Ends -> Records] /\ wire \in [Ends -> Seq(WireBytes)] /\ s \in Records
      /\ Size(s.out) \in Nat /\ s.cnt \in Nat
  BY OtherEnd, IoInvMeans, SizeType
  DEF Send, RecordOK, Sending, IoInv, IoTypeOK, WireBytes, Records
<1>2. Got(s) = <<>>
  BY <1>1 DEF Got, Receiving
<1>3. ASSUME NEW k \in 1 .. Size(s.out) - s.cnt, sock' = [sock EXCEPT ![e] = Advance(s, k)],
             UNCHANGED wire
      PROVE  Stream(e)' = Stream(e)
  <2>1. sock'[e] = Advance(s, k) /\ sock'[to] = sock[to]
    BY <1>1, <1>3
  <2> HIDE DEF s
  <2> QED BY <1>1, <1>2, <1>3, <2>1, RestAdvances, StreamSame DEF s
<1>4. CASE /\ to \in open
           /\ \E k \in 1 .. Size(s.out) - s.cnt :
                /\ wire' = [wire EXCEPT ![to] = @ \o Sent(s, k)]
                /\ sock' = [sock EXCEPT ![e] = Advance(s, k)]
  <2>1. PICK k \in 1 .. Size(s.out) - s.cnt : /\ wire' = [wire EXCEPT ![to] = @ \o Sent(s, k)]
                                              /\ sock' = [sock EXCEPT ![e] = Advance(s, k)]
    BY <1>4
  <2>2. /\ sock'[e] = Advance(s, k) /\ sock'[to] = sock[to]
        /\ wire'[e] = wire[e] /\ wire'[to] = wire[to] \o Sent(s, k)
    BY <1>1, <2>1
  <2>3. /\ Sent(s, k) \in Seq(WireBytes) /\ Rest(s) = Sent(s, k) \o Rest(Advance(s, k))
        /\ Got(Advance(s, k)) = <<>> /\ Rest(Advance(s, k)) \in Seq(WireBytes)
    BY <1>1, RestAdvances
  <2>4. Stream(e)' = Stream(e)
    BY <1>1, <1>2, <2>2, <2>3, StreamSame
  <2> DEFINE g == Got(sock[to])  w == wire[to]  m == Sent(s, k)  r == Rest(Advance(s, k))
  <2>5. g \in Seq(WireBytes) /\ w \in Seq(WireBytes)
    BY <1>1, StreamType
  <2>6. Stream(to)' = (g \o (w \o m)) \o r /\ Stream(to) = (g \o w) \o (m \o r)
    BY <1>1, <2>2, <2>3 DEF Stream
  <2> HIDE DEF g, w, m, r, s
  <2>7. (g \o (w \o m)) \o r = (g \o w) \o (m \o r)
    <3>1. m \in Seq(WireBytes) /\ r \in Seq(WireBytes)
      BY <2>3 DEF m, r
    <3>2. g \o w \in Seq(WireBytes)
      BY <2>5, Joined
    <3>3. (g \o w) \o m = g \o (w \o m)
      BY <2>5, <3>1, Regroup
    <3>4. ((g \o w) \o m) \o r = (g \o w) \o (m \o r)
      BY <3>1, <3>2, Regroup
    <3> QED BY <3>3, <3>4
  <2> QED BY <2>4, <2>6, <2>7
<1>5. CASE /\ to \notin open
           /\ \E res \in {"TX", "CLOSED"} : sock' = [sock EXCEPT ![e] = TxEnd(s, res)]
           /\ UNCHANGED wire
  <2>1. PICK res \in {"TX", "CLOSED"} : sock' = [sock EXCEPT ![e] = TxEnd(s, res)]
    BY <1>5
  <2>2. sock'[e] = TxEnd(s, res) /\ sock'[to] = sock[to]
    BY <1>1, <2>1
  <2>3. TxEnd(s, res).io = "BACK"
    BY <1>1 DEF TxEnd, Records
  <2>4. Got(sock'[e]) = <<>>
    BY <2>2, <2>3 DEF Got, Receiving
  <2> HIDE DEF s
  <2>5. Stream(e)' = Stream(e)
    BY <1>1, <1>2, <1>5, <2>2, <2>4, StreamSame DEF s
  <2> QED BY <1>5, <2>5
<1>6. CASE /\ to \notin open
           /\ \E k \in 1 .. Size(s.out) - s.cnt : sock' = [sock EXCEPT ![e] = Advance(s, k)]
           /\ UNCHANGED wire
  <2>1. PICK k \in 1 .. Size(s.out) - s.cnt : sock' = [sock EXCEPT ![e] = Advance(s, k)]
    BY <1>6
  <2> QED BY <1>3, <1>6, <2>1
<1>7. \/ /\ to \in open
         /\ \E k \in 1 .. Size(s.out) - s.cnt :
              /\ wire' = [wire EXCEPT ![to] = @ \o Sent(s, k)]
              /\ sock' = [sock EXCEPT ![e] = Advance(s, k)]
      \/ /\ to \notin open \/ ~s.blocking
         /\ \E res \in {"TX", "CLOSED"} : sock' = [sock EXCEPT ![e] = TxEnd(s, res)]
         /\ UNCHANGED wire
      \/ /\ to \notin open
         /\ \E k \in 1 .. Size(s.out) - s.cnt : sock' = [sock EXCEPT ![e] = Advance(s, k)]
         /\ UNCHANGED wire
  BY DEF Send
<1>8. ~(~s.blocking)
  BY <1>1
<1> HIDE DEF s, to
<1> QED BY <1>4, <1>5, <1>6, <1>7, <1>8, Zenon

\* recv() moves bytes from the wire to the receiver; with the last of its
\* buffer, the frame is out of the stream
LEMMA RecvStream ==
    ASSUME IoInv, NEW e \in Ends, sock[e].io = "RECV",
           NEW k \in 1 .. sock[e].size - Len(sock[e].inp), RecvBytes(e, k)
    PROVE  /\ Stream(Other(e))' = Stream(Other(e)) /\ Stream(e) # <<>>
           /\ \/ /\ Stream(e)' = Stream(e) /\ UNCHANGED <<flight, taken>>
                 /\ sock'[e] = [sock[e] EXCEPT !.inp = sock'[e].inp]
              \/ \E a \in Seq(WireBytes) :
                   /\ Stream(e) = a \o Stream(e)' /\ Len(a) = sock[e].size
                   /\ Stream(e)' \in Seq(WireBytes)
                   /\ taken' = [taken EXCEPT ![e] = FrameIn(a)]
                   /\ flight' = [flight EXCEPT ![e] = IF flight[e] = <<>> THEN flight[e] ELSE Tail(flight[e])]
                   /\ sock'[e].io = "BACK" /\ sock'[e].state = "OK" /\ sock'[e].inp = a
<1> DEFINE s == sock[e]  to == Other(e)  w == wire[e]  a == s.inp \o SubSeq(w, 1, k)
           rest == SubSeq(w, k + 1, Len(w))  r == Rest(sock[to])
           s2 == [s EXCEPT !.inp = a]
<1>1. /\ to \in Ends /\ to # e /\ Other(to) = e /\ RecordOK(s) /\ s \in Records
      /\ sock \in [Ends -> Records] /\ wire \in [Ends -> Seq(WireBytes)]
      /\ s.inp \in Seq(WireBytes) /\ s.size \in Nat /\ taken \in [Ends -> Frames \cup {NoFrame}]
      /\ flight \in [Ends -> Seq(Frames)]
  BY OtherEnd, IoInvMeans DEF RecordOK, IoInv, IoTypeOK, WireBytes, Records
<1>2. w \in Seq(WireBytes) /\ r \in Seq(WireBytes) /\ Got(s) = s.inp /\ Rest(s) = <<>>
  BY <1>1, StreamType DEF Got, Rest, Receiving
<1>3. k \in Nat \ {0} /\ k <= Len(w) /\ k <= s.size - Len(s.inp)
  BY <1>1 DEF RecvBytes
<1>4. /\ SubSeq(w, 1, k) \in Seq(WireBytes) /\ Len(SubSeq(w, 1, k)) = k /\ rest \in Seq(WireBytes)
  <2> HIDE DEF s, w
  <2> QED BY <1>2, <1>3, Cut
<1>5. w = SubSeq(w, 1, k) \o rest
  <2> HIDE DEF s, w
  <2>1. 1 \in 1 .. Len(w) + 1 /\ k \in 1 - 1 .. Len(w) /\ Len(w) \in k .. Len(w)
    BY <1>2, <1>3
  <2> QED BY <1>2, <2>1, ConcatAdjacentSubSeq, SubSeqFull
<1>6. a \in Seq(WireBytes) /\ Len(a) = Len(s.inp) + k
  <2> HIDE DEF s, w
  <2> QED BY <1>1, <1>4, ConcatProperties
<1>7. /\ s2 \in Records /\ s2.io = "RECV" /\ s2.inp = a /\ s2.size = s.size /\ Filled(s, SubSeq(w, 1, k)) = s2
  BY <1>1, <1>6 DEF Filled, Records, WireBytes
<1>8. wire'[to] = wire[to] /\ wire'[e] = rest
  BY <1>1 DEF RecvBytes
<1>9. Stream(e) = (s.inp \o w) \o r
  BY <1>2 DEF Stream
<1>10. (s.inp \o w) \o r = a \o (rest \o r)
  <2> DEFINE i == s.inp  x == SubSeq(w, 1, k)
  <2>1. i \in Seq(WireBytes) /\ x \in Seq(WireBytes) /\ rest \in Seq(WireBytes) /\ r \in Seq(WireBytes)
    BY <1>1, <1>2, <1>4
  <2>2. w = x \o rest /\ a = i \o x
    BY <1>5
  <2> HIDE DEF i, x, rest, r, w, a
  <2>3. i \o (x \o rest) = (i \o x) \o rest
    BY <2>1, Regroup, Zenon
  <2>4. ((i \o x) \o rest) \o r = (i \o x) \o (rest \o r)
    <3>1. i \o x \in Seq(WireBytes)
      BY <2>1, Joined
    <3> QED BY <2>1, <3>1, Regroup
  <2>5. (i \o w) \o r = a \o (rest \o r)
    BY <2>2, <2>3, <2>4
  <2> QED BY <2>5 DEF i
<1>11. Stream(e) # <<>>
  <2>1. rest \o r \in Seq(WireBytes)
    BY <1>2, <1>4, ConcatProperties
  <2>2. a # <<>>
    <3>1. Len(s.inp) \in Nat
      BY <1>1
    <3> DEFINE n == Len(s.inp)
    <3>2. n \in Nat /\ Len(a) = n + k
      BY <1>6, <3>1
    <3> HIDE DEF n, a
    <3>3. Len(a) # 0
      BY <1>3, <3>2
    <3> QED BY <3>3
  <2> HIDE DEF a, rest, r
  <2> QED BY <1>6, <1>9, <1>10, <2>1, <2>2, ConcatEqualIffEmpty
<1>12. CASE Len(s2.inp) < s2.size
  <2>1. sock' = [sock EXCEPT ![e] = s2] /\ UNCHANGED <<flight, taken>>
    BY <1>7, <1>12 DEF RecvBytes
  <2>2. sock'[e] = s2 /\ sock'[to] = sock[to]
    BY <1>1, <2>1
  <2>3. Got(s2) = a /\ Rest(s2) = <<>>
    BY <1>7 DEF Got, Rest, Receiving
  <2>4. Stream(to)' = Stream(to)
    BY <1>1, <1>2, <1>8, <2>2, <2>3, StreamSame
  <2>5. Stream(e)' = (a \o rest) \o r
    BY <1>8, <2>2, <2>3 DEF Stream
  <2>6. (a \o rest) \o r = a \o (rest \o r)
    <3>1. a \in Seq(WireBytes) /\ rest \in Seq(WireBytes) /\ r \in Seq(WireBytes)
      BY <1>2, <1>4, <1>6
    <3> HIDE DEF a, rest, r
    <3> QED BY <3>1, Regroup
  <2>7. sock'[e] = [sock[e] EXCEPT !.inp = sock'[e].inp]
    BY <1>7, <2>2
  <2> QED BY <1>9, <1>10, <1>11, <2>1, <2>4, <2>5, <2>6, <2>7
<1>13. CASE ~(Len(s2.inp) < s2.size)
  <2>1. /\ sock' = [sock EXCEPT ![e] = RxEnd(s2, "OK")]
        /\ taken' = [taken EXCEPT ![e] = FrameIn(a)]
        /\ flight' = [flight EXCEPT ![e] = IF flight[e] = <<>> THEN flight[e] ELSE Tail(flight[e])]
    BY <1>1, <1>7, <1>13 DEF RecvBytes
  <2>2. /\ sock'[e].io = "BACK" /\ sock'[e].state = "OK" /\ sock'[e].inp = a /\ sock'[to] = sock[to]
    BY <1>1, <1>7, <2>1 DEF RxEnd, sock_blocking, Records
  <2>3. Got(sock'[e]) = <<>> /\ Rest(sock'[e]) = <<>>
    BY <2>2 DEF Got, Rest, Receiving
  <2>4. Stream(to)' = Stream(to)
    BY <1>1, <1>2, <1>8, <2>2, <2>3, StreamSame
  <2>5. Stream(e)' = (<<>> \o rest) \o r
    BY <1>8, <2>2, <2>3 DEF Stream
  <2>6. Stream(e)' = rest \o r /\ rest \o r \in Seq(WireBytes)
    <3> HIDE DEF rest, r
    <3>1. <<>> \o rest = rest
      BY <1>4, ConcatEmptySeq
    <3> QED BY <1>2, <1>4, <2>5, <3>1, ConcatProperties
  <2>7. Len(a) = s.size
    <3> DEFINE n == Len(s.inp)  z == Len(a)
    <3>1. n \in Nat /\ z = n + k /\ s.size \in Nat /\ ~(z < s.size) /\ k <= s.size - n /\ k \in Nat
      BY <1>1, <1>3, <1>6, <1>7, <1>13
    <3> HIDE DEF n, z
    <3>2. z = s.size
      BY <3>1
    <3> QED BY <3>2 DEF z
  <2> HIDE DEF a
  <2> QED BY <1>6, <1>9, <1>10, <1>11, <2>1, <2>2, <2>4, <2>6, <2>7
<1> QED BY <1>12, <1>13

-----------------------------------------------------------------------------
(* What a call and a turn of a loop do with the streams *)

LEMMA GotAndRest ==
    ASSUME NEW s
    PROVE  /\ s.io = "BACK" => Got(s) = <<>> /\ Rest(s) = <<>>
           /\ s.io = "SEND" => Got(s) = <<>>
           /\ Receiving(s) => Rest(s) = <<>> /\ Got(s) = s.inp
BY DEF Got, Rest, Receiving

\* An end whose call has come back calls a function that does not send
LEMMA CallStream ==
    ASSUME IoInv, NEW d \in Ends, sock[d].io = "BACK", NEW s, Call(d, s),
           s.io = "BACK" \/ (Receiving(s) /\ s.inp = <<>>)
    PROVE  /\ \A e \in Ends : Stream(e)' = Stream(e)
           /\ UNCHANGED <<wire, open, flight, taken, broken>>
           /\ sock'[d] = s /\ sock'[Other(d)] = sock[Other(d)]
<1>1. /\ sock \in [Ends -> Records] /\ Other(d) \in Ends /\ Other(d) # d /\ Other(Other(d)) = d
      /\ Ends = {d, Other(d)}
  BY OtherEnd DEF IoInv, IoTypeOK
<1>2. sock' = [sock EXCEPT ![d] = s] /\ UNCHANGED <<wire, open, taken, broken>>
  BY DEF Call
<1>3. flight' = flight
  BY DEF Call, Receiving
<1>4. sock'[d] = s /\ sock'[Other(d)] = sock[Other(d)]
  BY <1>1, <1>2
<1>5. Got(s) = <<>> /\ Rest(s) = <<>> /\ Got(sock[d]) = <<>> /\ Rest(sock[d]) = <<>>
  BY GotAndRest
<1>6. Stream(d)' = Stream(d)
  BY <1>1, <1>2, <1>4, <1>5, StreamSame
<1>7. Stream(Other(d))' = Stream(Other(d))
  BY <1>1, <1>2, <1>4, <1>5, StreamSame
<1> QED BY <1>1, <1>2, <1>3, <1>4, <1>6, <1>7

\* It calls frame_tx
LEMMA CallSends ==
    ASSUME IoInv, NEW d \in Ends, sock[d].io = "BACK", NEW s, RecordOK(s), NEW f \in Frames, Size(f) # 0,
           Call(d, frame_tx(s, f))
    PROVE  /\ Stream(d)' = Stream(d) /\ UNCHANGED <<wire, open, taken, broken>>
           /\ flight'[d] = flight[d]
           /\ sock'[d].io = "SEND" /\ sock'[d].state = s.state /\ sock'[Other(d)] = sock[Other(d)]
           /\ Other(d) \in open => /\ Stream(Other(d))' = Stream(Other(d)) \o Bytes(f)
                                   /\ flight'[Other(d)] = Append(flight[Other(d)], f)
           /\ Other(d) \notin open => UNCHANGED flight
<1> DEFINE t == frame_tx(s, f)  to == Other(d)
<1>1. /\ sock \in [Ends -> Records] /\ Other(d) \in Ends /\ Other(d) # d /\ Other(Other(d)) = d
      /\ flight \in [Ends -> Seq(Frames)] /\ s \in Records
  BY OtherEnd DEF IoInv, IoTypeOK, RecordOK
<1>2. sock' = [sock EXCEPT ![d] = t] /\ UNCHANGED <<wire, open, taken, broken>>
  BY DEF Call
<1>3. t = [s EXCEPT !.io = "SEND", !.blocking = TRUE, !.out = f, !.cnt = 0]
  BY <1>1 DEF frame_tx, sock_blocking, Records
<1>4. t.io = "SEND" /\ t.out = f /\ t.cnt = 0 /\ t.state = s.state
  BY <1>1, <1>3 DEF Records
<1>5. sock'[d] = t /\ sock'[to] = sock[to]
  BY <1>1, <1>2
<1>6. Got(t) = <<>> /\ Got(sock[d]) = <<>> /\ Rest(sock[d]) = <<>>
  BY <1>4, GotAndRest
<1>7. Rest(t) = Bytes(f)
  <2>1. Rest(t) = SubSeq(Bytes(f), 0 + 1, Size(f))
    BY <1>4 DEF Rest
  <2>2. Bytes(f) \in Seq(WireBytes) /\ Len(Bytes(f)) = Size(f)
    BY BytesAre
  <2> QED BY <2>1, <2>2, SubSeqFull
<1>8. Stream(d)' = Stream(d)
  BY <1>1, <1>2, <1>5, <1>6, StreamSame
<1>9. Stream(to)' = Stream(to) \o Bytes(f)
  <2>1. Stream(to)' = (Got(sock[to]) \o wire[to]) \o Bytes(f)
    BY <1>1, <1>2, <1>5, <1>7 DEF Stream
  <2>2. Stream(to) = (Got(sock[to]) \o wire[to]) \o <<>>
    BY <1>1, <1>6 DEF Stream
  <2>3. Got(sock[to]) \in Seq(WireBytes) /\ wire[to] \in Seq(WireBytes)
    BY <1>1, StreamType
  <2>4. Got(sock[to]) \o wire[to] \in Seq(WireBytes)
    BY <2>3, ConcatProperties
  <2> QED BY <2>1, <2>2, <2>4, ConcatEmptySeq
<1> HIDE DEF t
<1>10. flight' = IF to \in open THEN [flight EXCEPT ![to] = Append(flight[to], f)] ELSE flight
  BY <1>4 DEF Call, t
<1>11. flight'[d] = flight[d] /\ (to \in open => flight'[to] = Append(flight[to], f))
  BY <1>1, <1>10
<1> QED BY <1>2, <1>4, <1>5, <1>8, <1>9, <1>10, <1>11

\* An end closes its socket
LEMMA CloseStream ==
    ASSUME IoInv, NEW d \in Ends, sock[d].io = "BACK", socket_close(d)
    PROVE  /\ Stream(Other(d))' = Stream(Other(d)) /\ flight'[Other(d)] = flight[Other(d)]
           /\ taken' = taken /\ broken' = broken \cup {d} /\ open' = open \ {d}
           /\ sock'[d] = Fresh /\ sock'[Other(d)] = sock[Other(d)]
           /\ wire'[Other(d)] = wire[Other(d)]
<1>1. /\ sock \in [Ends -> Records] /\ Other(d) \in Ends /\ Other(d) # d /\ Other(Other(d)) = d
      /\ flight \in [Ends -> Seq(Frames)] /\ wire \in [Ends -> Seq([of : Frames, at : Nat])]
  BY OtherEnd DEF IoInv, IoTypeOK
<1>2. /\ sock' = [sock EXCEPT ![d] = Fresh] /\ taken' = taken /\ broken' = broken \cup {d}
      /\ open' = open \ {d} /\ wire' = [wire EXCEPT ![d] = <<>>] /\ flight' = [flight EXCEPT ![d] = <<>>]
  BY DEF socket_close
<1>3. sock'[d] = Fresh /\ sock'[Other(d)] = sock[Other(d)] /\ flight'[Other(d)] = flight[Other(d)]
      /\ wire'[Other(d)] = wire[Other(d)]
  BY <1>1, <1>2
<1>4. Rest(Fresh) = <<>> /\ Rest(sock[d]) = <<>>
  BY GotAndRest DEF Fresh
<1>5. Stream(Other(d))' = Stream(Other(d))
  BY <1>1, <1>3, <1>4, StreamSame
<1> QED BY <1>2, <1>3, <1>5

\* A millisecond passes
LEMMA TickStream ==
    ASSUME IoInv, Tick
    PROVE  /\ UNCHANGED <<wire, open, flight, taken, broken>>
           /\ \A e \in Ends : /\ Stream(e)' = Stream(e)
                              /\ sock'[e].io = sock[e].io /\ sock'[e].state = sock[e].state
                              /\ sock'[e].inp = sock[e].inp /\ sock'[e].size = sock[e].size
<1>1. UNCHANGED <<wire, open, flight, taken, broken>>
  BY DEF Tick
<1>2. ASSUME NEW e \in Ends
      PROVE  /\ sock'[e].io = sock[e].io /\ sock'[e].state = sock[e].state
             /\ sock'[e].inp = sock[e].inp /\ sock'[e].size = sock[e].size
             /\ sock'[e].out = sock[e].out /\ sock'[e].cnt = sock[e].cnt
  <2> DEFINE left == IF sock[e].left = 0 THEN 0 ELSE sock[e].left - 1
             r == [sock[e] EXCEPT !.left = left]
  <2>1. sock'[e] = r
    BY DEF Tick
  <2>2. sock[e] \in Records
    BY DEF IoInv, IoTypeOK
  <2>3. left \in 0 .. Delay
    BY <2>2 DEF Records
  <2> HIDE DEF left
  <2> QED BY <2>1, <2>2, <2>3, OnlyLeft
<1>3. ASSUME NEW e \in Ends  PROVE Got(sock'[e]) = Got(sock[e]) /\ Rest(sock'[e]) = Rest(sock[e])
  BY <1>2 DEF Got, Rest, Receiving
<1>4. ASSUME NEW e \in Ends  PROVE Stream(e)' = Stream(e)
  BY <1>1, <1>3, OtherEnd, StreamSame
<1> QED BY <1>1, <1>2, <1>4

\* What a turn of a loop may do, as far as the frames go.  It sends, ...
TurnSends(e) ==
    /\ sock[e].io = "SEND" /\ sock'[e].io \in {"SEND", "BACK"}
    /\ sock'[e].state # "OK" => sock'[e].state = sock[e].state \/ Other(e) \notin open
    /\ UNCHANGED <<flight, taken, broken>>
    /\ Stream(e)' = Stream(e)
    /\ Other(e) \in open => Stream(Other(e))' = Stream(Other(e))

\* ... waits or takes part of what it wants, ...
TurnWaits(e) ==
    /\ Receiving(sock[e]) /\ Receiving(sock'[e])
    /\ sock'[e].state = sock[e].state /\ sock'[e].size = sock[e].size
    /\ UNCHANGED <<flight, taken, broken>>
    /\ \A d \in Ends : Stream(d)' = Stream(d)

\* ... takes the last of it, ...
TurnTakes(e) ==
    /\ Receiving(sock[e]) /\ sock'[e].io = "BACK" /\ sock'[e].state = "OK"
    /\ \E a \in Seq(WireBytes) :
         /\ Stream(e) = a \o Stream(e)' /\ Len(a) = sock[e].size
         /\ taken' = [taken EXCEPT ![e] = FrameIn(a)]
         /\ sock'[e].inp = a
    /\ Stream(e) # <<>> /\ Stream(e)' \in Seq(WireBytes)
    /\ flight' = [flight EXCEPT ![e] = IF flight[e] = <<>> THEN flight[e] ELSE Tail(flight[e])]
    /\ UNCHANGED broken
    /\ Stream(Other(e))' = Stream(Other(e))

\* ... or gives up
TurnGivesUp(e) ==
    /\ Receiving(sock[e]) /\ sock'[e].io = "BACK"
    /\ \/ broken' = broken \cup {e}
       \/ broken' = broken /\ sock'[e].state # "OK" /\ Stream(e)' = Stream(e)
    /\ UNCHANGED <<flight, taken>>
    /\ Stream(Other(e))' = Stream(Other(e))

LEMMA GivesUp ==
    ASSUME IoInv, NEW e \in Ends, NEW res \in IoStates, Receiving(sock[e]),
           sock' = [sock EXCEPT ![e] = RxEnd(sock[e], res)], UNCHANGED <<wire, flight, taken>>,
           \/ broken' = broken \cup {e}
           \/ broken' = broken /\ res # "OK" /\ sock[e].inp = <<>>
    PROVE  TurnGivesUp(e)
<1>1. sock[e] \in Records /\ sock \in [Ends -> Records] /\ Other(e) \in Ends /\ Other(e) # e
      /\ Other(Other(e)) = e
  BY OtherEnd DEF IoInv, IoTypeOK
<1>2. sock'[e] = RxEnd(sock[e], res) /\ sock'[Other(e)] = sock[Other(e)]
  BY <1>1
<1>3. sock'[e].io = "BACK" /\ sock'[e].state = res
  BY <1>1, <1>2 DEF RxEnd, sock_blocking, Records
<1>4. Got(sock'[e]) = <<>> /\ Rest(sock'[e]) = <<>> /\ Rest(sock[e]) = <<>> /\ Got(sock[e]) = sock[e].inp
  BY <1>3, GotAndRest
<1>5. Stream(Other(e))' = Stream(Other(e))
  BY <1>1, <1>2, <1>4, StreamSame
<1>6. sock[e].inp = <<>> => Stream(e)' = Stream(e)
  BY <1>1, <1>2, <1>4, StreamSame
<1> QED BY <1>3, <1>5, <1>6 DEF TurnGivesUp

LEMMA Waits ==
    ASSUME IoInv, NEW e \in Ends, Receiving(sock[e]), NEW io \in {"RECV", "SELECT"},
           sock' = [sock EXCEPT ![e].io = io], UNCHANGED <<wire, flight, taken, broken>>
    PROVE  TurnWaits(e)
<1> DEFINE s == [sock[e] EXCEPT !.io = io]
<1>1. /\ sock[e] \in Records /\ sock \in [Ends -> Records] /\ Other(e) \in Ends /\ Other(e) # e
      /\ Other(Other(e)) = e /\ Ends = {e, Other(e)}
  BY OtherEnd DEF IoInv, IoTypeOK
<1>2. sock'[e] = s /\ sock'[Other(e)] = sock[Other(e)]
  BY <1>1
<1>3. s.io = io /\ s.state = sock[e].state /\ s.size = sock[e].size /\ s.inp = sock[e].inp
  BY <1>1 DEF Records
<1> HIDE DEF s
<1>4. Receiving(s)
  BY <1>3 DEF Receiving
<1>5. Got(s) = Got(sock[e]) /\ Rest(s) = Rest(sock[e])
  BY <1>3, <1>4, GotAndRest
<1>6. Stream(e)' = Stream(e)
  BY <1>1, <1>2, <1>5, StreamSame
<1>7. Stream(Other(e))' = Stream(Other(e))
  BY <1>1, <1>2, <1>5, StreamSame
<1> QED BY <1>1, <1>2, <1>3, <1>4, <1>6, <1>7 DEF TurnWaits

LEMMA Turn ==
    ASSUME IoInv, NEW e \in Ends, LoopStep(e)
    PROVE  /\ open' = open /\ sock'[Other(e)] = sock[Other(e)]
           /\ TurnSends(e) \/ TurnWaits(e) \/ TurnTakes(e) \/ TurnGivesUp(e)
<1> DEFINE s == sock[e]
<1>0. /\ s \in Records /\ sock \in [Ends -> Records] /\ Other(e) \in Ends /\ Other(e) # e
      /\ RecordOK(s) /\ Ends = {e, Other(e)}
  BY OtherEnd, IoInvMeans DEF IoInv, IoTypeOK
<1>1. CASE Send(e)
  <2>1. s.io = "SEND" /\ UNCHANGED <<open, flight, taken, broken>>
    BY <1>1 DEF Send
  <2>2. \/ \E k \in 1 .. Size(s.out) - s.cnt : sock' = [sock EXCEPT ![e] = Advance(s, k)]
        \/ Other(e) \notin open /\ \E res \in {"TX", "CLOSED"} : sock' = [sock EXCEPT ![e] = TxEnd(s, res)]
    <3>1. s.blocking = TRUE
      BY <1>0, <2>1 DEF RecordOK, Sending
    <3> QED BY <1>1, <3>1 DEF Send
  <2>3. sock'[Other(e)] = sock[Other(e)]
    BY <1>0, <2>2
  <2>4. CASE \E k \in 1 .. Size(s.out) - s.cnt : sock' = [sock EXCEPT ![e] = Advance(s, k)]
    <3>1. PICK k \in 1 .. Size(s.out) - s.cnt : sock' = [sock EXCEPT ![e] = Advance(s, k)]
      BY <2>4
    <3>2. sock'[e] = Advance(s, k) /\ Advance(s, k).state \in {s.state, "OK"}
      BY <1>0, <2>1, <3>1, AdvanceOK
    <3>3. Advance(s, k).io \in {"SEND", "BACK"}
      BY <1>0, <2>1 DEF Advance, TxEnd, Records
    <3>4. TurnSends(e)
      BY <1>1, <2>1, <3>2, <3>3, SendStream DEF TurnSends
    <3> QED BY <2>1, <2>3, <3>4
  <2>5. CASE /\ Other(e) \notin open
             /\ \E res \in {"TX", "CLOSED"} : sock' = [sock EXCEPT ![e] = TxEnd(s, res)]
    <3>1. PICK res \in {"TX", "CLOSED"} : sock' = [sock EXCEPT ![e] = TxEnd(s, res)]
      BY <2>5
    <3>2. sock'[e] = TxEnd(s, res)
      BY <1>0, <3>1
    <3>3. sock'[e].io = "BACK"
      BY <1>0, <3>2 DEF TxEnd, Records
    <3>4. TurnSends(e)
      BY <1>1, <2>1, <2>5, <3>3, SendStream DEF TurnSends
    <3> QED BY <2>1, <2>3, <3>4
  <2> QED BY <2>2, <2>4, <2>5
<1>2. CASE Recv(e)
  <2>1. s.io = "RECV" /\ Receiving(s) /\ open' = open
    BY <1>2 DEF Recv, Receiving
  <2>2. CASE \E k \in 1 .. s.size - Len(s.inp) : RecvBytes(e, k)
    <3>1. PICK k \in 1 .. s.size - Len(s.inp) : RecvBytes(e, k)
      BY <2>2
    <3>2. broken' = broken /\ sock'[Other(e)] = sock[Other(e)]
      BY <1>0, <3>1 DEF RecvBytes
    <3>3. /\ Stream(Other(e))' = Stream(Other(e)) /\ Stream(e) # <<>>
          /\ \/ /\ Stream(e)' = Stream(e) /\ UNCHANGED <<flight, taken>>
                /\ sock'[e] = [sock[e] EXCEPT !.inp = sock'[e].inp]
             \/ \E a \in Seq(WireBytes) :
                  /\ Stream(e) = a \o Stream(e)' /\ Len(a) = sock[e].size
                  /\ Stream(e)' \in Seq(WireBytes)
                  /\ taken' = [taken EXCEPT ![e] = FrameIn(a)]
                  /\ flight' = [flight EXCEPT ![e] = IF flight[e] = <<>> THEN flight[e] ELSE Tail(flight[e])]
                  /\ sock'[e].io = "BACK" /\ sock'[e].state = "OK" /\ sock'[e].inp = a
      BY <2>1, <3>1, RecvStream
    <3>4. CASE /\ Stream(e)' = Stream(e) /\ UNCHANGED <<flight, taken>>
               /\ sock'[e] = [sock[e] EXCEPT !.inp = sock'[e].inp]
      <4>1. sock'[e].io = s.io /\ sock'[e].state = s.state /\ sock'[e].size = s.size
        BY <1>0, <3>4 DEF Records
      <4>2. Receiving(sock'[e])
        BY <2>1, <4>1 DEF Receiving
      <4>3. TurnWaits(e)
        BY <1>0, <2>1, <3>2, <3>3, <3>4, <4>1, <4>2 DEF TurnWaits
      <4> QED BY <2>1, <3>2, <4>3
    <3>5. CASE \E a \in Seq(WireBytes) :
                  /\ Stream(e) = a \o Stream(e)' /\ Len(a) = sock[e].size
                  /\ Stream(e)' \in Seq(WireBytes)
                  /\ taken' = [taken EXCEPT ![e] = FrameIn(a)]
                  /\ flight' = [flight EXCEPT ![e] = IF flight[e] = <<>> THEN flight[e] ELSE Tail(flight[e])]
                  /\ sock'[e].io = "BACK" /\ sock'[e].state = "OK" /\ sock'[e].inp = a
      <4>1. TurnTakes(e)
        BY <2>1, <3>2, <3>3, <3>5 DEF TurnTakes
      <4> QED BY <2>1, <3>2, <4>1
    <3> QED BY <3>3, <3>4, <3>5
  <2>3. CASE \E res \in {"CLOSED", "RX", "TIMEOUT"} : RecvFails(e, res)
    <3>1. PICK res \in {"CLOSED", "RX", "TIMEOUT"} : RecvFails(e, res)
      BY <2>3
    <3>2. /\ sock' = [sock EXCEPT ![e] = RxEnd(sock[e], res)] /\ UNCHANGED <<wire, flight, taken>>
          /\ \/ broken' = broken \cup {e}
             \/ broken' = broken /\ sock[e].inp = <<>>
      BY <3>1 DEF RecvFails
    <3>3. sock'[Other(e)] = sock[Other(e)]
      BY <1>0, <3>2
    <3>4. res \in IoStates /\ res # "OK"
      BY DEF IoStates
    <3> HIDE DEF s
    <3>5. TurnGivesUp(e)
      BY <2>1, <3>2, <3>4, GivesUp DEF s
    <3> QED BY <2>1, <3>3, <3>5
  <2>4. CASE sock' = [sock EXCEPT ![e].io = "SELECT"] /\ UNCHANGED <<wire, flight, taken, broken>>
    <3>1. sock'[Other(e)] = sock[Other(e)]
      BY <1>0, <2>4
    <3>2. TurnWaits(e)
      BY <2>1, <2>4, Waits
    <3> QED BY <2>1, <3>1, <3>2
  <2> QED BY <1>2, <2>2, <2>3, <2>4 DEF Recv
<1>3. CASE Select(e)
  <2>1. s.io = "SELECT" /\ Receiving(s) /\ UNCHANGED <<wire, open, flight, taken>>
    BY <1>3 DEF Select, Receiving
  <2>2. CASE sock' = [sock EXCEPT ![e].io = "RECV"] /\ UNCHANGED broken
    <3>1. sock'[Other(e)] = sock[Other(e)]
      BY <1>0, <2>2
    <3>2. TurnWaits(e)
      BY <2>1, <2>2, Waits
    <3> QED BY <2>1, <3>1, <3>2
  <2>3. CASE sock' = [sock EXCEPT ![e] = RxEnd(@, "OK")] /\ broken' = broken \cup {e}
    <3>1. sock' = [sock EXCEPT ![e] = RxEnd(sock[e], "OK")] /\ sock'[Other(e)] = sock[Other(e)]
      BY <1>0, <2>3
    <3>2. TurnGivesUp(e)
      BY <2>1, <2>3, <3>1, GivesUp DEF IoStates
    <3> QED BY <2>1, <3>1, <3>2
  <2> QED BY <1>3, <2>2, <2>3 DEF Select
<1> QED BY <1>1, <1>2, <1>3 DEF LoopStep

-----------------------------------------------------------------------------
(* What an end is about, in a call of a frame function and between two *)

\* "send": its frames; "err": CMD_ERROR, after a failure; "hdr" and "pay": it
\* receives a prefix, a payload; "rest": none of these
Phase(e) ==
    IF e = "CLI"
    THEN CASE cpc \in {"txHdr", "txPay", "txPing"} -> "send"
           [] cpc \in {"rxHdr", "rxPing"}          -> "hdr"
           [] cpc = "rxPay"                        -> "pay"
           [] OTHER                                -> "rest"
    ELSE CASE spc \in {"txHdr", "txPay"} -> "send"
           [] spc = "txErr"              -> "err"
           [] spc = "rxHdr"              -> "hdr"
           [] spc = "rxPay"              -> "pay"
           [] OTHER                      -> "rest"

\* The loop an end is in is the one of its step, and a send fails only when the
\* peer has left
Conduct(ph, s, peer) ==
    /\ s.io = "SEND" => ph \in {"send", "err"}
    /\ Receiving(s) => ph \in {"hdr", "pay"}
    /\ ph = "send" /\ s.state # "OK" => ~peer

\* An end wants what the frame it took last announces
Reading(ph, s, f) ==
    /\ Receiving(s) => s.size = Wanted(f)
    /\ ph = "hdr" /\ s.io = "BACK" /\ s.state = "OK" => f = FrameIn(s.inp)
    /\ ph = "pay" /\ Receiving(s) => Owed(f) > 0
    /\ (ph = "hdr" => Receiving(s)) /\ (ph = "pay" => s.io = "BACK" /\ s.state = "OK") /\ ph # "err"
         => Owed(f) = 0

SteadyEnd(e) ==
    /\ e \notin broken => e \in open
    /\ Conduct(Phase(e), sock[e], Other(e) \in open)
    /\ Intact(e) => Reading(Phase(e), sock[e], taken[e])

Steady == \A e \in Ends : SteadyEnd(e)

\* The invariant behind FramesAreWhole
FlowInv == Inv /\ Steady /\ Flow

\* An end that the step does not touch
LEMMA SteadyKept ==
    ASSUME NEW e \in Ends, SteadyEnd(e), sock'[e].io = sock[e].io, sock'[e].state = sock[e].state,
           sock'[e].inp = sock[e].inp, sock'[e].size = sock[e].size, taken'[e] = taken[e],
           Phase(e)' = Phase(e), e \in broken => e \in broken', late => late',
           e \in open => e \in open', Other(e) \in open' => Other(e) \in open
    PROVE  SteadyEnd(e)'
<1>1. Conduct(Phase(e), sock[e], Other(e) \in open)'
  BY DEF SteadyEnd, Conduct, Receiving
<1>2. Intact(e)' => Intact(e)
  BY DEF Intact
<1>3. Intact(e)' => Reading(Phase(e), sock[e], taken[e])'
  BY <1>2 DEF SteadyEnd, Reading, Receiving
<1> QED BY <1>1, <1>3 DEF SteadyEnd

LEMMA FlowKept ==
    ASSUME NEW e \in Ends, Flow, taken'[e] = taken[e], flight'[e] = flight[e], Stream(e)' = Stream(e),
           Due(Other(e))' = Due(Other(e)), Intact(e)' => Intact(e)
    PROVE  (Intact(e) => InFlow(taken[e], flight[e], Stream(e), Due(Other(e))))'
BY DEF Flow

\* A loop does not leave its step
LEMMA LoopIdle ==
    ASSUME NEW d \in Ends, Loop(d)
    PROVE  /\ \A e \in Ends : Phase(e)' = Phase(e) /\ Due(e)' = Due(e)
           /\ late' = late
BY DEF Loop, Phase, Due

LEMMA TakesFrame ==
    ASSUME FlowInv, NEW e \in Ends, TurnTakes(e), Intact(e)
    PROVE  /\ flight[e] # <<>> /\ taken'[e] = Head(flight[e]) /\ flight'[e] = Tail(flight[e])
           /\ InFlow(taken'[e], flight'[e], Stream(e)', Due(Other(e)))
           /\ Follows(taken[e], Head(flight[e]))
<1> DEFINE q == flight[e]  f == taken[e]  st == Stream(e)  st2 == Stream(e)'
<1>1. /\ IoInv /\ InFlow(f, q, st, Due(Other(e))) /\ SteadyEnd(e) /\ Receiving(sock[e])
      /\ q \in Seq(Frames) /\ st \in Seq(WireBytes) /\ f \in Frames \cup {NoFrame}
      /\ flight \in [Ends -> Seq(Frames)] /\ taken \in [Ends -> Frames \cup {NoFrame}]
  BY StreamType DEF FlowInv, Inv, Flow, Steady, TurnTakes, IoInv, IoTypeOK
<1>2. st # <<>> /\ st2 \in Seq(WireBytes)
  BY DEF TurnTakes
<1>3. PICK a \in Seq(WireBytes) : st = a \o st2 /\ Len(a) = sock[e].size
                                  /\ taken' = [taken EXCEPT ![e] = FrameIn(a)]
  BY DEF TurnTakes
<1>4. sock[e].size = Wanted(f)
  BY <1>1 DEF SteadyEnd, Reading
<1>5. flight' = [flight EXCEPT ![e] = IF flight[e] = <<>> THEN flight[e] ELSE Tail(flight[e])]
  BY DEF TurnTakes
<1> HIDE DEF st, st2, f
<1>6. q # <<>>
  BY <1>1, <1>2, LaidSome DEF InFlow
<1>7. flight'[e] = Tail(q)
  BY <1>1, <1>5, <1>6
<1> HIDE DEF q
<1>8. /\ Follows(f, Head(q)) /\ InTurn(Head(q), Tail(q)) /\ LastOf(Head(q), Tail(q)) = LastOf(f, q)
  BY <1>1, <1>6, TakeInTurn DEF InFlow
<1>9. Head(q) \in Frames
  BY <1>1, <1>6
<1>10. Size(Head(q)) = Wanted(f) /\ Wanted(f) # 0
  BY <1>1, <1>8, <1>9, FollowsSize
<1>11. a = Bytes(Head(q)) /\ Laid(Tail(q), st2)
  BY <1>1, <1>2, <1>3, <1>4, <1>6, <1>10, LaidTake DEF InFlow
<1>12. FrameIn(a) = Head(q)
  BY <1>9, <1>10, <1>11, FrameInBytes
<1>13. taken'[e] = Head(q)
  BY <1>1, <1>3, <1>12
<1>14. InFlow(Head(q), Tail(q), st2, Due(Other(e)))
  BY <1>1, <1>8, <1>11 DEF InFlow
<1> QED BY <1>6, <1>7, <1>8, <1>13, <1>14 DEF q, f, st2

LEMMA LoopFlows ==
    ASSUME FlowInv, NEW d \in Ends, Loop(d)
    PROVE  Steady' /\ Flow'
<1> DEFINE s == sock[d]  t == sock'[d]  to == Other(d)  ph == Phase(d)
<1>1. /\ Inv /\ IoInv /\ Steady /\ Flow /\ SteadyEnd(d) /\ SteadyEnd(to) /\ to \in Ends /\ to # d /\ Other(to) = d
      /\ Ends = {d, to} /\ taken \in [Ends -> Frames \cup {NoFrame}] /\ flight \in [Ends -> Seq(Frames)]
  BY OtherEnd DEF FlowInv, Inv, Steady, IoInv, IoTypeOK
<1>2. \A e \in Ends : Phase(e)' = Phase(e) /\ Due(e)' = Due(e)
  BY LoopIdle
<1>3. late' = late
  BY LoopIdle
<1>4. /\ open' = open /\ sock'[to] = sock[to]
      /\ TurnSends(d) \/ TurnWaits(d) \/ TurnTakes(d) \/ TurnGivesUp(d)
  BY <1>1, Turn DEF Loop
<1>5. Conduct(ph, s, to \in open) /\ (Intact(d) => Reading(ph, s, taken[d]))
      /\ (d \notin broken => d \in open)
  BY <1>1 DEF SteadyEnd
<1>6. /\ taken'[to] = taken[to] /\ flight'[to] = flight[to]
      /\ to \in broken' <=> to \in broken
      /\ d \in broken => d \in broken'
      /\ to \in open => Stream(to)' = Stream(to)
  <2>1. CASE TurnSends(d)
    BY <2>1 DEF TurnSends
  <2>2. CASE TurnWaits(d)
    BY <1>1, <2>2 DEF TurnWaits
  <2>3. CASE TurnTakes(d)
    <3>1. taken'[to] = taken[to]
      BY <1>1, <2>3 DEF TurnTakes
    <3>2. flight'[to] = flight[to]
      BY <1>1, <2>3 DEF TurnTakes
    <3> QED BY <2>3, <3>1, <3>2 DEF TurnTakes
  <2>4. CASE TurnGivesUp(d)
    BY <1>1, <2>4 DEF TurnGivesUp
  <2> QED BY <1>4, <2>1, <2>2, <2>3, <2>4
<1>7. SteadyEnd(to)'
  BY <1>1, <1>2, <1>3, <1>4, <1>6, SteadyKept
<1>8. (Intact(to) => InFlow(taken[to], flight[to], Stream(to), Due(Other(to))))'
  <2>1. Intact(to)' => Intact(to) /\ to \in open
    BY <1>1, <1>3, <1>6 DEF Intact, SteadyEnd
  <2>2. Due(Other(to))' = Due(Other(to))
    BY <1>1, <1>2
  <2>3. CASE to \in open
    BY <1>1, <1>6, <2>1, <2>2, <2>3, FlowKept
  <2>4. CASE to \notin open
    BY <2>1, <2>4
  <2> QED BY <2>3, <2>4
<1>9. SteadyEnd(d)' /\ (Intact(d) => InFlow(taken[d], flight[d], Stream(d), Due(Other(d))))'
  <2> DEFINE Goal == /\ Conduct(ph, t, to \in open)
                     /\ Intact(d)' => Intact(d) /\ Reading(ph, t, taken'[d])
                                      /\ InFlow(taken'[d], flight'[d], Stream(d)', Due(to))
  <2>1. SUFFICES Goal
    <3>1. ASSUME Goal PROVE SteadyEnd(d)'
      BY <1>1, <1>2, <1>4, <1>5, <1>6, <3>1 DEF SteadyEnd
    <3>2. ASSUME Goal PROVE (Intact(d) => InFlow(taken[d], flight[d], Stream(d), Due(Other(d))))'
      <4>1. Due(Other(d))' = Due(to)
        BY <1>1, <1>2
      <4> QED BY <3>2, <4>1
    <3> QED BY <3>1, <3>2
  <2>2. Intact(d)' => Intact(d)
    BY <1>3, <1>6 DEF Intact
  <2>3. Intact(d) => InFlow(taken[d], flight[d], Stream(d), Due(to))
    BY <1>1 DEF Flow
  <2> HIDE DEF ph
  <2>4. CASE TurnSends(d)
    <3>1. /\ s.io = "SEND" /\ t.io \in {"SEND", "BACK"}
          /\ t.state # "OK" => t.state = s.state \/ to \notin open
          /\ UNCHANGED <<flight, taken>> /\ Stream(d)' = Stream(d)
      BY <2>4 DEF TurnSends
    <3> HIDE DEF s, t
    <3>2. Conduct(ph, t, to \in open)
      BY <1>5, <3>1 DEF Conduct, Receiving
    <3>3. Intact(d) => Reading(ph, t, taken[d])
      BY <1>5, <3>1 DEF Conduct, Reading, Receiving
    <3> QED BY <2>2, <2>3, <3>1, <3>2, <3>3
  <2>5. CASE TurnWaits(d)
    <3>1. /\ Receiving(s) /\ Receiving(t) /\ t.state = s.state /\ t.size = s.size
          /\ UNCHANGED <<flight, taken>> /\ Stream(d)' = Stream(d)
      BY <2>5 DEF TurnWaits
    <3> HIDE DEF s, t
    <3>2. Conduct(ph, t, to \in open)
      BY <1>5, <3>1 DEF Conduct, Receiving
    <3>3. Intact(d) => Reading(ph, t, taken[d])
      BY <1>5, <3>1 DEF Conduct, Reading, Receiving
    <3> QED BY <2>2, <2>3, <3>1, <3>2, <3>3
  <2>6. CASE TurnTakes(d)
    <3>1. Receiving(s) /\ t.io = "BACK" /\ t.state = "OK" /\ taken'[d] = FrameIn(t.inp)
      BY <1>1, <2>6 DEF TurnTakes
    <3>2. Intact(d) => /\ InFlow(taken'[d], flight'[d], Stream(d)', Due(to))
                       /\ taken'[d] = Head(flight[d]) /\ Follows(taken[d], Head(flight[d]))
      BY <2>6, TakesFrame
    <3> HIDE DEF s, t
    <3>3. Conduct(ph, t, to \in open)
      BY <1>5, <3>1 DEF Conduct, Receiving
    <3>4. Intact(d) /\ ph = "pay" => Owed(taken'[d]) = 0
      BY <1>5, <3>1, <3>2 DEF Reading, Follows, Owed, HdrKinds
    <3>5. Intact(d) => Reading(ph, t, taken'[d])
      BY <1>5, <3>1, <3>4 DEF Conduct, Reading, Receiving
    <3> QED BY <2>2, <3>2, <3>3, <3>5
  <2>7. CASE TurnGivesUp(d)
    <3>1. /\ Receiving(s) /\ t.io = "BACK" /\ UNCHANGED <<flight, taken>>
          /\ d \in broken' \/ (t.state # "OK" /\ Stream(d)' = Stream(d))
      BY <2>7 DEF TurnGivesUp
    <3> HIDE DEF s, t
    <3>2. Conduct(ph, t, to \in open)
      BY <1>5, <3>1 DEF Conduct, Receiving
    <3>3. Intact(d)' => t.state # "OK" /\ Stream(d)' = Stream(d)
      BY <3>1 DEF Intact
    <3>4. Intact(d)' => Reading(ph, t, taken[d])
      BY <1>5, <3>1, <3>3 DEF Conduct, Reading, Receiving
    <3> QED BY <2>2, <2>3, <3>1, <3>2, <3>3, <3>4
  <2> QED BY <1>4, <2>4, <2>5, <2>6, <2>7
<1>10. Steady'
  BY <1>1, <1>7, <1>9 DEF Steady
<1>11. Flow'
  BY <1>1, <1>8, <1>9 DEF Flow
<1> QED BY <1>10, <1>11

-----------------------------------------------------------------------------
(* The calls of the frame functions keep the invariant *)

\* An end in no call of a frame function has no loop running
LEMMA AtRest ==
    ASSUME FlowInv, NEW d \in Ends, Phase(d) = "rest"
    PROVE  sock[d].io = "BACK"
<1>1. sock[d].io \in {"BACK", "SEND", "RECV", "SELECT"}
  BY DEF FlowInv, Inv, IoInv, IoTypeOK, Records
<1>2. Conduct("rest", sock[d], Other(d) \in open)
  BY DEF FlowInv, Steady, SteadyEnd
<1> QED BY <1>1, <1>2 DEF Conduct, Receiving

\* What a receive function makes of a record
LEMMA RxStarts ==
    ASSUME NEW s \in Records, NEW n \in Nat, NEW r \in {frame_rx(s, n), frame_rx_until(s, n)}
    PROVE  \/ r.io = "BACK" /\ r.state = "TIMEOUT"
           \/ n = 0 /\ r.io = "BACK" /\ r.state = s.state
           \/ n # 0 /\ r.io = "RECV" /\ r.state = s.state /\ r.size = n /\ r.inp = <<>>
<1>1. CASE s.left = 0 /\ r = frame_rx_until(s, n)
  BY <1>1 DEF frame_rx_until, Records
<1>2. CASE r = frame_rx(s, n)
  BY <1>2 DEF frame_rx, sock_nonblocking, Records
<1> QED BY <1>1, <1>2 DEF frame_rx_until

\* The end d calls a frame function that does not send
LEMMA CallFlows ==
    ASSUME FlowInv, NEW d \in Ends, sock[d].io = "BACK", NEW s, Call(d, s),
           s.io = "BACK" \/ (Receiving(s) /\ s.inp = <<>>),
           Phase(Other(d))' = Phase(Other(d)), Due(Other(d))' = Due(Other(d)), late => late',
           Due(d)' = Due(d), Conduct(Phase(d)', s, Other(d) \in open),
           Intact(d) /\ (d = "CLI" => ~late') => Reading(Phase(d)', s, taken[d])
    PROVE  Steady' /\ Flow'
<1> DEFINE to == Other(d)
<1>1. /\ IoInv /\ Steady /\ Flow /\ SteadyEnd(d) /\ SteadyEnd(to) /\ to \in Ends /\ to # d /\ Other(to) = d
      /\ Ends = {d, to}
  BY OtherEnd DEF FlowInv, Inv, Steady
<1>2. /\ \A e \in Ends : Stream(e)' = Stream(e)
      /\ UNCHANGED <<wire, open, flight, taken, broken>>
      /\ sock'[d] = s /\ sock'[to] = sock[to]
  BY <1>1, CallStream
<1>3. SteadyEnd(to)'
  BY <1>1, <1>2, SteadyKept
<1>4. SteadyEnd(d)'
  BY <1>1, <1>2 DEF SteadyEnd, Intact
<1>5. ASSUME NEW e \in Ends
      PROVE  (Intact(e) => InFlow(taken[e], flight[e], Stream(e), Due(Other(e))))'
  <2>1. (Intact(e)' => Intact(e)) /\ Due(Other(e))' = Due(Other(e))
    BY <1>1, <1>2 DEF Intact
  <2> QED BY <1>1, <1>2, <2>1, FlowKept
<1> QED BY <1>1, <1>3, <1>4, <1>5 DEF Steady, Flow

\* It calls frame_tx
LEMMA SendFlows ==
    ASSUME FlowInv, NEW d \in Ends, sock[d].io = "BACK", NEW s, RecordOK(s), NEW f \in Frames, Size(f) # 0,
           Call(d, frame_tx(s, f)),
           Phase(Other(d))' = Phase(Other(d)), Due(Other(d))' = Due(Other(d)), late => late',
           Phase(d)' \in {"send", "err"},
           Phase(d)' = "send" => s.state = "OK" /\ (Intact(d) => Owed(taken[d]) = 0),
           Other(d) \in open /\ Intact(Other(d)) =>
             Follows(LastOf(taken[Other(d)], flight[Other(d)]), f) /\ Owed(f) = Due(d)'
    PROVE  Steady' /\ Flow'
<1> DEFINE to == Other(d)  t == sock'[d]
<1>1. /\ IoInv /\ Steady /\ Flow /\ SteadyEnd(d) /\ SteadyEnd(to) /\ to \in Ends /\ to # d /\ Other(to) = d
      /\ Ends = {d, to}
  BY OtherEnd DEF FlowInv, Inv, Steady
<1>2. /\ Stream(d)' = Stream(d) /\ UNCHANGED <<wire, open, taken, broken>>
      /\ flight'[d] = flight[d]
      /\ t.io = "SEND" /\ t.state = s.state /\ sock'[to] = sock[to]
      /\ to \in open => /\ Stream(to)' = Stream(to) \o Bytes(f)
                        /\ flight'[to] = Append(flight[to], f)
  BY <1>1, CallSends
<1>3. SteadyEnd(to)'
  BY <1>1, <1>2, SteadyKept
<1>4. SteadyEnd(d)'
  <2> HIDE DEF t
  <2>1. Conduct(Phase(d)', t, to \in open)
    BY <1>2 DEF Conduct, Receiving
  <2>2. Intact(d)' => Intact(d)
    BY <1>2 DEF Intact
  <2>3. Intact(d) => Reading(Phase(d)', t, taken[d])
    BY <1>2 DEF Reading, Receiving
  <2> QED BY <1>1, <1>2, <2>1, <2>2, <2>3 DEF SteadyEnd, t
<1>5. (Intact(d) => InFlow(taken[d], flight[d], Stream(d), Due(Other(d))))'
  <2>1. (Intact(d)' => Intact(d)) /\ Due(Other(d))' = Due(Other(d))
    BY <1>1, <1>2 DEF Intact
  <2> QED BY <1>1, <1>2, <2>1, FlowKept
<1>6. (Intact(to) => InFlow(taken[to], flight[to], Stream(to), Due(Other(to))))'
  <2>1. SUFFICES ASSUME Intact(to)' PROVE InFlow(taken[to], flight'[to], Stream(to)', Due(d)')
    <3>1. Due(Other(to))' = Due(d)'
      BY <1>1
    <3> QED BY <1>2, <3>1
  <2>2. Intact(to) /\ to \in open
    BY <1>1, <1>2, <2>1 DEF Intact, SteadyEnd
  <2>3. InFlow(taken[to], flight[to], Stream(to), Due(d))
    BY <1>1, <2>2 DEF Flow
  <2>4. flight[to] \in Seq(Frames) /\ Stream(to) \in Seq(WireBytes)
    BY <1>1, StreamType
  <2>5. Follows(LastOf(taken[to], flight[to]), f) /\ Owed(f) = Due(d)'
    BY <2>2
  <2>6. Laid(Append(flight[to], f), Stream(to) \o Bytes(f))
    BY <2>3, <2>4, LaidAppend DEF InFlow
  <2>7. InTurn(taken[to], Append(flight[to], f)) /\ LastOf(taken[to], Append(flight[to], f)) = f
    BY <2>3, <2>4, <2>5, AppendInTurn DEF InFlow
  <2> QED BY <1>2, <2>2, <2>5, <2>6, <2>7 DEF InFlow
<1> QED BY <1>1, <1>3, <1>4, <1>5, <1>6 DEF Steady, Flow

\* It closes its socket
LEMMA CloseFlows ==
    ASSUME FlowInv, NEW d \in Ends, sock[d].io = "BACK", socket_close(d),
           Phase(Other(d))' = Phase(Other(d)), Due(Other(d))' = Due(Other(d)), late => late',
           Phase(d)' = "rest", Due(d)' = 0, Due(d) = 0 \/ Other(d) \notin open
    PROVE  Steady' /\ Flow'
<1> DEFINE to == Other(d)
<1>1. /\ IoInv /\ Steady /\ Flow /\ SteadyEnd(d) /\ SteadyEnd(to) /\ to \in Ends /\ to # d /\ Other(to) = d
      /\ Ends = {d, to}
  BY OtherEnd DEF FlowInv, Inv, Steady
<1>2. /\ Stream(to)' = Stream(to) /\ flight'[to] = flight[to]
      /\ taken' = taken /\ broken' = broken \cup {d} /\ open' = open \ {d}
      /\ sock'[d] = Fresh /\ sock'[to] = sock[to]
  BY <1>1, CloseStream
<1>3. SteadyEnd(to)'
  BY <1>1, <1>2, SteadyKept
<1>4. SteadyEnd(d)'
  BY <1>2 DEF SteadyEnd, Intact, Conduct, Receiving, Fresh
<1>5. (Intact(to) => InFlow(taken[to], flight[to], Stream(to), Due(Other(to))))'
  <2>1. Intact(to)' => Intact(to) /\ to \in open
    BY <1>1, <1>2 DEF Intact, SteadyEnd
  <2>2. to \in open => Due(Other(to))' = Due(Other(to))
    BY <1>1
  <2>3. CASE to \in open
    BY <1>1, <1>2, <2>1, <2>2, <2>3, FlowKept
  <2> QED BY <2>1, <2>3
<1>6. ~Intact(d)'
  BY <1>2 DEF Intact
<1> QED BY <1>1, <1>3, <1>4, <1>5, <1>6 DEF Steady, Flow

\* No end does anything
LEMMA StillFlows ==
    ASSUME FlowInv, UNCHANGED <<io_vars, late>>, \A e \in Ends : Phase(e)' = Phase(e) /\ Due(e)' = Due(e)
    PROVE  Steady' /\ Flow'
<1>1. \A e \in Ends : SteadyEnd(e)'
  BY SteadyKept DEF FlowInv, Steady, io_vars
<1>2. ASSUME NEW e \in Ends
      PROVE  (Intact(e) => InFlow(taken[e], flight[e], Stream(e), Due(Other(e))))'
  <2>1. Stream(e)' = Stream(e) /\ (Intact(e)' => Intact(e))
    BY DEF Stream, Intact, io_vars
  <2> QED BY <2>1, FlowKept, OtherEnd DEF FlowInv, io_vars
<1> QED BY <1>1, <1>2 DEF Steady, Flow

LEMMA TimeFlows ==
    ASSUME FlowInv, Time
    PROVE  Steady' /\ Flow'
<1>1. /\ UNCHANGED <<wire, open, flight, taken, broken>>
      /\ \A e \in Ends : /\ Stream(e)' = Stream(e)
                         /\ sock'[e].io = sock[e].io /\ sock'[e].state = sock[e].state
                         /\ sock'[e].inp = sock[e].inp /\ sock'[e].size = sock[e].size
  BY TickStream DEF Time, FlowInv, Inv
<1>2. /\ \A e \in Ends : Phase(e)' = Phase(e) /\ Due(e)' = Due(e)
      /\ late' = late
  BY DEF Time, Phase, Due
<1>3. \A e \in Ends : SteadyEnd(e)'
  BY <1>1, <1>2, SteadyKept DEF FlowInv, Steady
<1>4. ASSUME NEW e \in Ends
      PROVE  (Intact(e) => InFlow(taken[e], flight[e], Stream(e), Due(Other(e))))'
  <2>1. Intact(e)' => Intact(e)
    BY <1>1, <1>2 DEF Intact
  <2> QED BY <1>1, <1>2, <2>1, FlowKept, OtherEnd DEF FlowInv
<1> QED BY <1>3, <1>4 DEF Steady, Flow

-----------------------------------------------------------------------------
(* The client *)

\* The step of one end is not of the other
LEMMA OtherStep ==
    /\ spc' = spc /\ hdr'["SRV"] = hdr["SRV"] => Phase("SRV")' = Phase("SRV") /\ Due("SRV")' = Due("SRV")
    /\ cpc' = cpc /\ hdr'["CLI"] = hdr["CLI"] => Phase("CLI")' = Phase("CLI") /\ Due("CLI")' = Due("CLI")
BY DEF Phase, Due

\* An end that does not receive owes no payload
LEMMA NothingOwed ==
    ASSUME FlowInv, NEW d \in Ends, Intact(d),
           Phase(d) \in {"rest", "send"} \/ (Phase(d) = "pay" /\ BackOK(d))
    PROVE  Owed(taken[d]) = 0
BY DEF FlowInv, Steady, SteadyEnd, Reading, BackOK, Back

\* The payload of an end that failed to send its prefix is nobody's any more
LEMMA FailedSend ==
    ASSUME FlowInv, NEW d \in Ends, Phase(d) = "send", sock[d].state # "OK"
    PROVE  Other(d) \notin open
BY DEF FlowInv, Steady, SteadyEnd, Conduct

\* A prefix is sent
LEMMA HdrFlows ==
    ASSUME FlowInv, NEW d \in Ends, sock[d].io = "BACK", NEW s, RecordOK(s), NEW h \in Frames,
           h.kind \in HdrKinds, Call(d, frame_tx(s, h)),
           Phase(Other(d))' = Phase(Other(d)), Due(Other(d))' = Due(Other(d)), late => late',
           Phase(d)' \in {"send", "err"},
           Phase(d)' = "send" => s.state = "OK" /\ (Intact(d) => Owed(taken[d]) = 0),
           Due(d)' = h.len, Due(d) = 0 \/ Other(d) \notin open
    PROVE  Steady' /\ Flow'
<1> DEFINE to == Other(d)
<1>1. Size(h) # 0
  BY DEF Size, HdrKinds
<1>2. to \in Ends /\ Other(to) = d
  BY OtherEnd
<1>3. ASSUME to \in open, Intact(to)
      PROVE  Follows(LastOf(taken[to], flight[to]), h) /\ Owed(h) = Due(d)'
  <2>1. Owed(LastOf(taken[to], flight[to])) = 0
    BY <1>2, <1>3 DEF FlowInv, Flow, InFlow
  <2> QED BY <2>1 DEF Follows, Owed
<1> QED BY <1>1, <1>3, SendFlows

\* A payload is sent, or none
LEMMA PayFlows ==
    ASSUME FlowInv, NEW d \in Ends, BackOK(d), NEW p \in Frames, p.kind = "PAYLOAD", p.len = Due(d),
           Call(d, frame_tx(sock[d], p)),
           Phase(Other(d))' = Phase(Other(d)), Due(Other(d))' = Due(Other(d)), late' = late,
           Phase(d) = "send", Phase(d)' = "send", Due(d)' = 0
    PROVE  Steady' /\ Flow'
<1> DEFINE to == Other(d)  s == sock[d]
<1>1. /\ to \in Ends /\ Other(to) = d /\ Size(p) = p.len /\ s.io = "BACK" /\ s.state = "OK"
      /\ RecordOK(s) /\ s \in Records
  BY OtherEnd, IoInvMeans DEF Size, BackOK, Back, FlowInv, Inv, RecordOK
<1>2. Intact(d) => Owed(taken[d]) = 0
  BY NothingOwed
<1>3. CASE Due(d) = 0
  <2> DEFINE r == frame_tx(s, p)
  <2>1. r.io = "BACK" /\ r.state = "OK" /\ r.inp = s.inp /\ r.size = s.size
    BY <1>1, <1>3 DEF frame_tx, Records
  <2> HIDE DEF r, s
  <2>2. Conduct("send", r, to \in open)
    BY <2>1 DEF Conduct, Receiving
  <2>3. Intact(d) => Reading("send", r, taken[d])
    BY <1>2, <2>1 DEF Reading, Receiving
  <2>4. Call(d, r)
    BY DEF r, s
  <2> QED BY <1>1, <1>3, <2>1, <2>2, <2>3, <2>4, CallFlows DEF s
<1>4. CASE Due(d) # 0
  <2>1. ASSUME to \in open, Intact(to)
        PROVE  Follows(LastOf(taken[to], flight[to]), p) /\ Owed(p) = Due(d)'
    <3>1. Owed(LastOf(taken[to], flight[to])) = Due(d)
      BY <1>1, <2>1 DEF FlowInv, Flow, InFlow
    <3> QED BY <1>4, <3>1 DEF Follows, Owed, HdrKinds
  <2> HIDE DEF s
  <2> QED BY <1>1, <1>2, <1>4, <2>1, SendFlows DEF s
<1> QED BY <1>3, <1>4

\* A prefix or a payload is awaited
LEMMA RxFlows ==
    ASSUME FlowInv, NEW d \in Ends, sock[d].io = "BACK", NEW s \in Records, s.state = "OK", NEW n \in Nat,
           NEW r \in {frame_rx(s, n), frame_rx_until(s, n)}, Call(d, r),
           Phase(Other(d))' = Phase(Other(d)), Due(Other(d))' = Due(Other(d)), late' = late,
           Due(d) = 0, Due(d)' = 0,
           \/ Phase(d)' = "hdr" /\ n = HdrSize /\ (Intact(d) => Owed(taken[d]) = 0)
           \/ Phase(d)' = "pay" /\ (Intact(d) => Owed(taken[d]) = n)
    PROVE  Steady' /\ Flow'
<1>1. \/ r.io = "BACK" /\ r.state = "TIMEOUT"
      \/ n = 0 /\ r.io = "BACK" /\ r.state = s.state
      \/ n # 0 /\ r.io = "RECV" /\ r.state = s.state /\ r.size = n /\ r.inp = <<>>
  BY RxStarts
<1>2. Conduct(Phase(d)', r, Other(d) \in open)
  BY <1>1 DEF Conduct, Receiving
<1>3. Intact(d) => Reading(Phase(d)', r, taken[d])
  BY <1>1 DEF Reading, Receiving, Wanted
<1>4. r.io = "BACK" \/ (Receiving(r) /\ r.inp = <<>>)
  BY <1>1 DEF Receiving
<1> QED BY <1>2, <1>3, <1>4, CallFlows

\* A call or an exchange is over
LEMMA FreshFlows ==
    ASSUME FlowInv, NEW d \in Ends, sock[d].io = "BACK", Call(d, Fresh),
           Phase(Other(d))' = Phase(Other(d)), Due(Other(d))' = Due(Other(d)), late => late',
           Phase(d)' = "rest", Due(d) = 0, Due(d)' = 0,
           Intact(d) /\ (d = "CLI" => ~late') => Owed(taken[d]) = 0
    PROVE  Steady' /\ Flow'
<1>1. Fresh.io = "BACK" /\ Fresh.state = "OK"
  BY DEF Fresh
<1>2. Conduct("rest", Fresh, Other(d) \in open)
  BY <1>1 DEF Conduct, Receiving
<1>3. Intact(d) /\ (d = "CLI" => ~late') => Reading("rest", Fresh, taken[d])
  BY <1>1 DEF Reading, Receiving
<1> QED BY <1>1, <1>2, <1>3, CallFlows

LEMMA AppFlows == ASSUME FlowInv, AppStep PROVE Steady' /\ Flow'
<1> DEFINE d == "CLI"
<1>1. d \in Ends /\ Other(d) = "SRV" /\ hdr \in [Ends -> Frames \cup {NoFrame}] /\ calls \in Nat
  BY DEF Ends, Other, FlowInv, Inv, Control
<1>2. ASSUME NEW kind \in HdrKinds, NEW len \in Lens \cup {0}, NEW left \in 0 .. Delay,
             NEW pc \in {"txHdr", "txPing"}, pc = "txPing" => len = 0, Begin(kind, len, left, pc)
      PROVE  Steady' /\ Flow'
  <2> DEFINE h == Hdr(kind, calls + 1, len)  s == [Fresh EXCEPT !.left = left]
  <2>1. /\ cpc = "idle" /\ cpc' = pc /\ spc' = spc /\ late' = late /\ hdr' = [hdr EXCEPT !["CLI"] = h]
        /\ Call(d, frame_tx(s, h)) /\ calls < MaxCalls
    BY <1>2 DEF Begin
  <2>2. h \in Frames /\ h.kind = kind /\ h.len = len
    BY <1>1, <2>1, HdrType DEF Hdr
  <2>3. RecordOK(s) /\ s.state = "OK"
    BY FreshLeft
  <2>4. Phase("SRV")' = Phase("SRV") /\ Due("SRV")' = Due("SRV")
    BY <1>1, <2>1, OtherStep DEF Ends
  <2> HIDE DEF h, s
  <2>5. hdr'["CLI"] = h
    BY <1>1, <2>1
  <2>6. Phase(d) = "rest" /\ Phase(d)' = "send" /\ Due(d) = 0 /\ Due(d)' = h.len
    BY <1>2, <2>1, <2>2, <2>5 DEF Phase, Due
  <2>7. Intact(d) => Owed(taken[d]) = 0
    BY <1>1, <2>6, NothingOwed
  <2>8. sock[d].io = "BACK"
    BY <1>1, <2>6, AtRest
  <2> QED BY <1>1, <2>1, <2>2, <2>3, <2>4, <2>6, <2>7, <2>8, HdrFlows
<1>3. CASE Transaction
  <2>1. PICK len \in Lens : Begin("REQUEST", len, Delay, "txHdr")
    BY <1>3 DEF Transaction
  <2> QED BY <1>2, <2>1 DEF HdrKinds
<1>4. CASE Sync
  BY <1>2, <1>4 DEF Sync, HdrKinds
<1>5. CASE Close
  <2>1. /\ cpc = "idle" /\ cpc' = "closed" /\ spc' = spc /\ late' = late
        /\ hdr' = [hdr EXCEPT !["CLI"] = NoFrame] /\ socket_close(d)
    BY <1>5 DEF Close, Leave
  <2>2. Phase("SRV")' = Phase("SRV") /\ Due("SRV")' = Due("SRV")
    BY <1>1, <2>1, OtherStep DEF Ends
  <2>3. Phase(d) = "rest" /\ Phase(d)' = "rest" /\ Due(d) = 0 /\ Due(d)' = 0
    BY <2>1 DEF Phase, Due
  <2> QED BY <1>1, <2>1, <2>2, <2>3, AtRest, CloseFlows
<1>6. CASE Stop
  <2>1. UNCHANGED <<io_vars, late>> /\ \A e \in Ends : Phase(e)' = Phase(e) /\ Due(e)' = Due(e)
    BY <1>6 DEF Stop, Phase, Due
  <2> QED BY <2>1, StillFlows
<1> QED BY <1>3, <1>4, <1>5, <1>6 DEF AppStep

LEMMA ClientFlows == ASSUME FlowInv, ClientStep PROVE Steady' /\ Flow'
<1> DEFINE d == "CLI"
<1>1. /\ d \in Ends /\ Other(d) = "SRV" /\ hdr \in [Ends -> Frames \cup {NoFrame}] /\ calls \in 0 .. MaxCalls
      /\ sock[d] \in Records /\ RecordOK(sock[d]) /\ IoInv
  BY IoInvMeans DEF Ends, Other, FlowInv, Inv, Control, RecordOK
<1>2. CASE Loop(d)
  BY <1>1, <1>2, LoopFlows
<1>3. CASE SendPayload
  <2> DEFINE p == Pay(calls, hdr[d].len)
  <2>1. /\ cpc = "txHdr" /\ cpc' = "txPay" /\ UNCHANGED <<spc, hdr, late>> /\ BackOK(d)
        /\ Call(d, frame_tx(sock[d], p))
    BY <1>3 DEF SendPayload
  <2>2. p \in Frames /\ p.kind = "PAYLOAD" /\ p.len = hdr[d].len
    BY <1>1, FrameFields, PayType DEF Pay
  <2> HIDE DEF p
  <2>3. /\ Phase("SRV")' = Phase("SRV") /\ Due("SRV")' = Due("SRV")
        /\ Phase(d) = "send" /\ Phase(d)' = "send" /\ Due(d) = hdr[d].len /\ Due(d)' = 0
    BY <2>1 DEF Phase, Due
  <2> QED BY <1>1, <2>1, <2>2, <2>3, PayFlows
<1>4. CASE RecvHeader
  <2>1. /\ cpc = "txPay" /\ cpc' = "rxHdr" /\ UNCHANGED <<spc, hdr, late>> /\ BackOK(d)
        /\ Call(d, frame_rx_until(sock[d], HdrSize))
    BY <1>4 DEF RecvHeader
  <2>2. /\ Phase("SRV")' = Phase("SRV") /\ Due("SRV")' = Due("SRV")
        /\ Phase(d) = "send" /\ Phase(d)' = "hdr" /\ Due(d) = 0 /\ Due(d)' = 0
    BY <2>1 DEF Phase, Due
  <2>3. sock[d].io = "BACK" /\ sock[d].state = "OK" /\ HdrSize \in Nat
    BY <2>1 DEF BackOK, Back
  <2>4. Intact(d) => Owed(taken[d]) = 0
    BY <1>1, <2>2, NothingOwed
  <2> QED BY <1>1, <2>1, <2>2, <2>3, <2>4, RxFlows
<1>5. CASE RecvPayload
  <2> DEFINE n == Received(d).len
  <2>1. /\ cpc = "rxHdr" /\ cpc' = "rxPay" /\ UNCHANGED <<spc, late>> /\ BackOK(d) /\ Valid(d)
        /\ hdr' = [hdr EXCEPT ![d] = Received(d)] /\ Call(d, frame_rx_until(sock[d], n))
    BY <1>5 DEF RecvPayload
  <2>2. hdr'["SRV"] = hdr["SRV"]
    BY <1>1, <2>1 DEF Ends
  <2>3. /\ Phase("SRV")' = Phase("SRV") /\ Due("SRV")' = Due("SRV")
        /\ Phase(d) = "hdr" /\ Phase(d)' = "pay" /\ Due(d) = 0 /\ Due(d)' = 0
    BY <2>1, <2>2 DEF Phase, Due
  <2>4. sock[d].io = "BACK" /\ sock[d].state = "OK" /\ n \in Nat
    BY <1>1, <2>1, ReceivedType DEF BackOK, Back
  <2>5. Intact(d) => taken[d] = Received(d)
    BY <1>1, <2>3, <2>4 DEF FlowInv, Steady, SteadyEnd, Reading, Received
  <2>6. Intact(d) => Owed(taken[d]) = n
    BY <2>1, <2>5 DEF Valid, Owed
  <2> HIDE DEF n
  <2> QED BY <1>1, <2>1, <2>3, <2>4, <2>6, RxFlows
<1>6. CASE TransactionOK
  <2>1. /\ cpc = "rxPay" /\ cpc' = "idle" /\ UNCHANGED <<spc, late>> /\ BackOK(d)
        /\ hdr' = [hdr EXCEPT ![d] = NoFrame] /\ Call(d, Fresh)
    BY <1>6 DEF TransactionOK, Return
  <2>2. hdr'["SRV"] = hdr["SRV"]
    BY <1>1, <2>1 DEF Ends
  <2>3. /\ Phase("SRV")' = Phase("SRV") /\ Due("SRV")' = Due("SRV")
        /\ Phase(d) = "pay" /\ Phase(d)' = "rest" /\ Due(d) = 0 /\ Due(d)' = 0
    BY <2>1, <2>2 DEF Phase, Due
  <2>4. Intact(d) => Owed(taken[d]) = 0
    BY <1>1, <2>1, <2>3, NothingOwed
  <2>5. sock[d].io = "BACK"
    BY <2>1 DEF BackOK, Back
  <2> QED BY <1>1, <2>1, <2>3, <2>4, <2>5, FreshFlows
<1>7. CASE TransactionFails
  <2>1. /\ cpc \in {"txHdr", "txPay", "rxHdr", "rxPay"} /\ Back(d)
        /\ sock[d].state # "OK" \/ cpc = "rxHdr"
        /\ cpc' = "closed" /\ spc' = spc /\ late' = late
        /\ hdr' = [hdr EXCEPT ![d] = NoFrame] /\ socket_close(d)
    BY <1>7 DEF TransactionFails, Leave
  <2>2. hdr'["SRV"] = hdr["SRV"]
    BY <1>1, <2>1 DEF Ends
  <2>3. /\ Phase("SRV")' = Phase("SRV") /\ Due("SRV")' = Due("SRV")
        /\ Phase(d)' = "rest" /\ Due(d)' = 0
        /\ cpc # "txHdr" => Due(d) = 0
        /\ cpc = "txHdr" => Phase(d) = "send"
    BY <2>1, <2>2 DEF Phase, Due
  <2>4. Due(d) = 0 \/ Other(d) \notin open
    BY <1>1, <2>1, <2>3, FailedSend
  <2>5. sock[d].io = "BACK"
    BY <2>1 DEF Back
  <2> QED BY <1>1, <2>1, <2>3, <2>4, <2>5, CloseFlows
<1>8. CASE SyncRecv
  <2> DEFINE s == [sock[d] EXCEPT !.left = Delay]
  <2>1. /\ cpc = "txPing" /\ cpc' = "rxPing" /\ UNCHANGED <<spc, hdr, late>> /\ BackOK(d)
        /\ Call(d, frame_rx(s, HdrSize))
    BY <1>8 DEF SyncRecv
  <2>2. /\ Phase("SRV")' = Phase("SRV") /\ Due("SRV")' = Due("SRV")
        /\ Phase(d) = "send" /\ Phase(d)' = "hdr" /\ Due(d) = 0 /\ Due(d)' = 0
    BY <2>1 DEF Phase, Due
  <2>3. s \in Records /\ s.state = sock[d].state
    BY <1>1, OnlyLeft
  <2>4. sock[d].io = "BACK" /\ sock[d].state = "OK" /\ HdrSize \in Nat
    BY <2>1 DEF BackOK, Back
  <2>5. Intact(d) => Owed(taken[d]) = 0
    BY <1>1, <2>2, NothingOwed
  <2> HIDE DEF s
  <2> QED BY <1>1, <2>1, <2>2, <2>3, <2>4, <2>5, RxFlows
<1>9. CASE SyncReturns
  <2>1. /\ cpc \in {"txPing", "rxPing"} /\ cpc' = "idle" /\ spc' = spc /\ Back(d)
        /\ cpc = "txPing" => sock[d].state # "OK"
        /\ late' = (late \/ ~(sock[d].state = "OK" /\ Received(d) = Hdr("PING_RESPONSE", calls, 0)))
        /\ hdr' = [hdr EXCEPT ![d] = NoFrame] /\ Call(d, Fresh)
    BY <1>9 DEF SyncReturns, Return
  <2>2. hdr'["SRV"] = hdr["SRV"]
    BY <1>1, <2>1 DEF Ends
  <2>3. /\ Phase("SRV")' = Phase("SRV") /\ Due("SRV")' = Due("SRV")
        /\ Phase(d)' = "rest" /\ Due(d) = 0 /\ Due(d)' = 0
        /\ cpc = "rxPing" => Phase(d) = "hdr"
    BY <2>1, <2>2 DEF Phase, Due
  <2>4. sock[d].io = "BACK"
    BY <2>1 DEF Back
  <2>5. ASSUME Intact(d), ~late' PROVE Owed(taken[d]) = 0
    <3>1. sock[d].state = "OK" /\ Received(d) = Hdr("PING_RESPONSE", calls, 0) /\ Phase(d) = "hdr"
      BY <2>1, <2>3, <2>5
    <3>2. taken[d] = Received(d)
      BY <1>1, <2>4, <2>5, <3>1 DEF FlowInv, Steady, SteadyEnd, Reading, Received
    <3> QED BY <3>1, <3>2 DEF Owed, Hdr
  <2>6. late => late'
    BY <2>1
  <2> QED BY <1>1, <2>1, <2>3, <2>4, <2>5, <2>6, FreshFlows
<1> QED BY <1>2, <1>3, <1>4, <1>5, <1>6, <1>7, <1>8, <1>9 DEF ClientStep

-----------------------------------------------------------------------------
(* The shell *)

LEMMA ShellFlows == ASSUME FlowInv, ShellStep PROVE Steady' /\ Flow'
<1> DEFINE d == "SRV"
<1>1. /\ d \in Ends /\ Other(d) = "CLI" /\ hdr \in [Ends -> Frames \cup {NoFrame}]
      /\ sock[d] \in Records /\ RecordOK(sock[d]) /\ IoInv
  BY IoInvMeans DEF Ends, Other, FlowInv, Inv, Control, RecordOK
<1>2. CASE Loop(d)
  BY <1>1, <1>2, LoopFlows
<1>3. ASSUME spc \in {"top", "wait"}, spc' \in {"top", "wait"}, UNCHANGED <<io_vars, cpc, hdr, late>>
      PROVE  Steady' /\ Flow'
  <2>1. \A e \in Ends : Phase(e)' = Phase(e) /\ Due(e)' = Due(e)
    BY <1>3 DEF Phase, Due
  <2> QED BY <1>3, <2>1, StillFlows
<1>4. ASSUME spc' = "closed", socket_close(d), UNCHANGED <<cpc, late>>, hdr'["CLI"] = hdr["CLI"],
             Phase(d) = "rest" \/ sock[d].io = "BACK", Due(d) = 0 \/ Other(d) \notin open
      PROVE  Steady' /\ Flow'
  <2>1. /\ Phase("CLI")' = Phase("CLI") /\ Due("CLI")' = Due("CLI")
        /\ Phase(d)' = "rest" /\ Due(d)' = 0
    BY <1>4 DEF Phase, Due
  <2>2. sock[d].io = "BACK"
    BY <1>1, <1>4, AtRest
  <2> QED BY <1>1, <1>4, <2>1, <2>2, CloseFlows
<1>5. CASE ShellTop
  <2>1. CASE m_stop
    <3>1. /\ spc = "top" /\ spc' = "closed" /\ socket_close(d) /\ UNCHANGED <<cpc, hdr, late>>
      BY <1>5, <2>1 DEF ShellTop
    <3>2. Phase(d) = "rest" /\ Due(d) = 0
      BY <3>1 DEF Phase, Due
    <3> QED BY <1>4, <3>1, <3>2
  <2>2. CASE ~m_stop
    BY <1>3, <1>5, <2>2 DEF ShellTop
  <2> QED BY <2>1, <2>2
<1>6. CASE FrameWait
  <2>1. spc = "wait" /\ UNCHANGED <<cpc, hdr, late>> /\ Phase(d) = "rest" /\ Due(d) = 0
    BY <1>6 DEF FrameWait, Phase, Due
  <2>2. CASE spc' = "top" /\ UNCHANGED io_vars
    BY <1>3, <2>1, <2>2
  <2>3. CASE spc' = "closed" /\ socket_close(d)
    BY <1>4, <2>1, <2>3
  <2>4. CASE spc' = "rxHdr" /\ Call(d, frame_rx_until([Fresh EXCEPT !.left = Delay], HdrSize))
    <3> DEFINE s == [Fresh EXCEPT !.left = Delay]
    <3>1. s \in Records /\ s.state = "OK" /\ HdrSize \in Nat
      BY FreshLeft DEF RecordOK
    <3> HIDE DEF s
    <3>2. /\ Phase("CLI")' = Phase("CLI") /\ Due("CLI")' = Due("CLI")
          /\ Phase(d)' = "hdr" /\ Due(d)' = 0
      BY <2>1, <2>4 DEF Phase, Due
    <3>3. sock[d].io = "BACK"
      BY <1>1, <2>1, AtRest
    <3>4. Intact(d) => Owed(taken[d]) = 0
      BY <1>1, <2>1, NothingOwed
    <3>5. Call(d, frame_rx_until(s, HdrSize))
      BY <2>4 DEF s
    <3> QED BY <1>1, <2>1, <3>1, <3>2, <3>3, <3>4, <3>5, RxFlows
  <2> QED BY <1>6, <2>2, <2>3, <2>4 DEF FrameWait
<1>7. CASE ShellReadPayload
  <2> DEFINE n == Received(d).len
  <2>1. /\ spc = "rxHdr" /\ spc' = "rxPay" /\ UNCHANGED <<cpc, late>> /\ BackOK(d) /\ Valid(d)
        /\ hdr' = [hdr EXCEPT ![d] = Received(d)] /\ Call(d, frame_rx_until(sock[d], n))
    BY <1>7 DEF ShellReadPayload
  <2>2. hdr'["CLI"] = hdr["CLI"]
    BY <1>1, <2>1 DEF Ends
  <2>3. /\ Phase("CLI")' = Phase("CLI") /\ Due("CLI")' = Due("CLI")
        /\ Phase(d) = "hdr" /\ Phase(d)' = "pay" /\ Due(d) = 0 /\ Due(d)' = 0
    BY <2>1, <2>2 DEF Phase, Due
  <2>4. sock[d].io = "BACK" /\ sock[d].state = "OK" /\ n \in Nat
    BY <1>1, <2>1, ReceivedType DEF BackOK, Back
  <2>5. Intact(d) => taken[d] = Received(d)
    BY <1>1, <2>3, <2>4 DEF FlowInv, Steady, SteadyEnd, Reading, Received
  <2>6. Intact(d) => Owed(taken[d]) = n
    BY <2>1, <2>5 DEF Valid, Owed
  <2> HIDE DEF n
  <2> QED BY <1>1, <2>1, <2>3, <2>4, <2>6, RxFlows
<1>8. CASE ShellExec
  <2>1. PICK h \in Answers(hdr[d]) : hdr' = [hdr EXCEPT ![d] = h] /\ Call(d, frame_tx(sock[d], h))
    BY <1>8 DEF ShellExec
  <2>2. spc = "rxPay" /\ spc' = "txHdr" /\ UNCHANGED <<cpc, late>> /\ BackOK(d)
    BY <1>8 DEF ShellExec
  <2>3. h \in Frames
    BY <1>1, AnswersType
  <2>4. h.kind \in HdrKinds
    BY DEF Answers, Hdr, HdrKinds
  <2>5. hdr'["CLI"] = hdr["CLI"] /\ hdr'[d] = h
    BY <1>1, <2>1 DEF Ends
  <2>6. /\ Phase("CLI")' = Phase("CLI") /\ Due("CLI")' = Due("CLI")
        /\ Phase(d) = "pay" /\ Phase(d)' = "send" /\ Due(d) = 0 /\ Due(d)' = h.len
    BY <2>2, <2>5 DEF Phase, Due
  <2>7. Intact(d) => Owed(taken[d]) = 0
    BY <1>1, <2>2, <2>6, NothingOwed
  <2>8. sock[d].io = "BACK" /\ sock[d].state = "OK"
    BY <2>2 DEF BackOK, Back
  <2> QED BY <1>1, <2>1, <2>2, <2>3, <2>4, <2>6, <2>7, <2>8, HdrFlows
<1>9. CASE ShellSendPayload
  <2> DEFINE p == Pay(hdr[d].id, hdr[d].len)
  <2>1. /\ spc = "txHdr" /\ spc' = "txPay" /\ UNCHANGED <<cpc, hdr, late>> /\ BackOK(d)
        /\ Call(d, frame_tx(sock[d], p))
    BY <1>9 DEF ShellSendPayload
  <2>2. p \in Frames /\ p.kind = "PAYLOAD" /\ p.len = hdr[d].len
    BY <1>1, FrameFields, PayType DEF Pay
  <2> HIDE DEF p
  <2>3. /\ Phase("CLI")' = Phase("CLI") /\ Due("CLI")' = Due("CLI")
        /\ Phase(d) = "send" /\ Phase(d)' = "send" /\ Due(d) = hdr[d].len /\ Due(d)' = 0
    BY <2>1 DEF Phase, Due
  <2> QED BY <1>1, <2>1, <2>2, <2>3, PayFlows
<1>10. CASE ShellDone
  <2>1. /\ spc = "txPay" /\ spc' = "top" /\ UNCHANGED <<cpc, late>> /\ BackOK(d)
        /\ hdr' = [hdr EXCEPT ![d] = NoFrame] /\ Call(d, Fresh)
    BY <1>10 DEF ShellDone
  <2>2. hdr'["CLI"] = hdr["CLI"]
    BY <1>1, <2>1 DEF Ends
  <2>3. /\ Phase("CLI")' = Phase("CLI") /\ Due("CLI")' = Due("CLI")
        /\ Phase(d) = "send" /\ Phase(d)' = "rest" /\ Due(d) = 0 /\ Due(d)' = 0
    BY <2>1, <2>2 DEF Phase, Due
  <2>4. Intact(d) => Owed(taken[d]) = 0
    BY <1>1, <2>3, NothingOwed
  <2>5. sock[d].io = "BACK"
    BY <2>1 DEF BackOK, Back
  <2> QED BY <1>1, <2>1, <2>3, <2>4, <2>5, FreshFlows
<1>11. CASE ShellFails
  <2>1. /\ spc \in {"rxHdr", "rxPay", "txHdr", "txPay"} /\ Back(d)
        /\ sock[d].state # "OK" \/ spc \in {"rxHdr", "rxPay"}
        /\ hdr' = [hdr EXCEPT ![d] = NoFrame] /\ UNCHANGED <<cpc, late>>
        /\ \/ spc' = "closed" /\ socket_close(d)
           \/ spc' = "txErr" /\ Call(d, frame_tx(Fresh, Hdr("ERROR", 0, 0)))
    BY <1>11 DEF ShellFails
  <2>2. hdr'["CLI"] = hdr["CLI"]
    BY <1>1, <2>1 DEF Ends
  <2>3. /\ spc # "txHdr" => Due(d) = 0
        /\ spc = "txHdr" => Phase(d) = "send"
    BY <2>1 DEF Phase, Due
  <2>4. Due(d) = 0 \/ Other(d) \notin open
    BY <1>1, <2>1, <2>3, FailedSend
  <2>5. sock[d].io = "BACK"
    BY <2>1 DEF Back
  <2>6. CASE spc' = "closed" /\ socket_close(d)
    BY <1>4, <2>1, <2>2, <2>4, <2>5, <2>6
  <2>7. CASE spc' = "txErr" /\ Call(d, frame_tx(Fresh, Hdr("ERROR", 0, 0)))
    <3> DEFINE h == Hdr("ERROR", 0, 0)
    <3>1. h \in Frames /\ h.kind \in HdrKinds /\ h.len = 0
      BY HdrType DEF HdrKinds, Hdr
    <3> HIDE DEF h
    <3>2. /\ Phase("CLI")' = Phase("CLI") /\ Due("CLI")' = Due("CLI")
          /\ Phase(d)' = "err" /\ Due(d)' = 0
      BY <2>1, <2>2, <2>7 DEF Phase, Due
    <3>3. Call(d, frame_tx(Fresh, h))
      BY <2>7 DEF h
    <3> QED BY <1>1, <2>1, <2>4, <2>5, <3>1, <3>2, <3>3, FreshOK, HdrFlows
  <2> QED BY <2>1, <2>6, <2>7
<1>12. CASE ShellEnd
  <2>1. /\ spc = "txErr" /\ spc' = "closed" /\ socket_close(d) /\ UNCHANGED <<cpc, hdr, late>>
        /\ sock[d].io = "BACK"
    BY <1>12 DEF ShellEnd, Back
  <2>2. Due(d) = 0
    BY <2>1 DEF Due
  <2> QED BY <1>4, <2>1, <2>2
<1> QED BY <1>2, <1>5, <1>6, <1>7, <1>8, <1>9, <1>10, <1>11, <1>12 DEF ShellStep

LEMMA FlowInit == Init => FlowInv
<1> SUFFICES ASSUME Init PROVE FlowInv
  OBVIOUS
<1>1. /\ \A e \in Ends : /\ wire[e] = <<>> /\ sock[e] = Fresh /\ flight[e] = <<>> /\ taken[e] = NoFrame
                         /\ Other(e) \in Ends /\ Phase(e) = "rest" /\ Due(e) = 0
      /\ open = Ends
  BY OtherEnd DEF Init, IoInit, Phase, Due
<1>2. Fresh.io = "BACK" /\ Fresh.state = "OK" /\ Owed(NoFrame) = 0
  BY DEF Fresh, Owed, NoFrame, HdrKinds
<1>3. Got(Fresh) = <<>> /\ Rest(Fresh) = <<>>
  BY <1>2, GotAndRest
<1>4. ASSUME NEW e \in Ends PROVE SteadyEnd(e)
  BY <1>1, <1>2 DEF SteadyEnd, Conduct, Reading, Receiving
<1>5. ASSUME NEW e \in Ends PROVE InFlow(taken[e], flight[e], Stream(e), Due(Other(e)))
  <2>1. Stream(e) = <<>>
    <3>1. Stream(e) = (<<>> \o <<>>) \o <<>>
      BY <1>1, <1>3 DEF Stream
    <3> QED BY <3>1
  <2>2. InTurn(NoFrame, <<>>) /\ LastOf(NoFrame, <<>>) = NoFrame
    BY DEF InTurn, LastOf
  <2> QED BY <1>1, <1>2, <2>1, <2>2, NothingLaid DEF InFlow
<1> QED BY <1>4, <1>5, InvInit DEF FlowInv, Steady, Flow

LEMMA FlowStep == FlowInv /\ [Next]_vars => FlowInv'
<1> SUFFICES ASSUME FlowInv, [Next]_vars PROVE FlowInv'
  OBVIOUS
<1>1. Inv'
  BY InvStep DEF FlowInv
<1>2. CASE UNCHANGED vars
  <2>1. UNCHANGED <<io_vars, late>> /\ \A e \in Ends : Phase(e)' = Phase(e) /\ Due(e)' = Due(e)
    BY <1>2 DEF vars, Phase, Due
  <2> QED BY <1>1, <2>1, StillFlows DEF FlowInv
<1> QED BY <1>1, <1>2, AppFlows, ClientFlows, ShellFlows, TimeFlows DEF Next, FlowInv

-----------------------------------------------------------------------------
(* The refinement of FrameChannel *)

\* What a step may do with the connection
Moves ==
    \/ UNCHANGED io_vars
    \/ Tick
    \/ \E d \in Ends : LoopStep(d) \/ socket_close(d) \/ Call(d, sock'[d])

LEMMA StepMoves ==
    ASSUME FlowInv, [Next]_vars
    PROVE  Moves /\ (late => late')
<1> DEFINE Called(d) == \E s : Call(d, s)
<1>1. "CLI" \in Ends /\ "SRV" \in Ends /\ sock \in [Ends -> Records]
  BY DEF Ends, FlowInv, Inv, IoInv, IoTypeOK
<1>2. ASSUME NEW d \in Ends, Called(d) PROVE Moves
  <2>1. PICK s : Call(d, s)
    BY <1>2
  <2>2. sock'[d] = s
    BY <1>1, <2>1 DEF Call
  <2> QED BY <2>1, <2>2 DEF Moves
<1> HIDE DEF Moves
<1>3. CASE AppStep
  <2>1. CASE Transaction \/ Sync
    <3>1. Called("CLI") /\ late' = late
      BY <2>1 DEF Transaction, Sync, Begin
    <3> QED BY <1>1, <1>2, <3>1
  <2>2. CASE Close
    BY <1>1, <2>2 DEF Close, Leave, Moves
  <2>3. CASE Stop
    BY <2>3 DEF Stop, Moves
  <2> QED BY <1>3, <2>1, <2>2, <2>3 DEF AppStep
<1>4. CASE ClientStep
  <2>1. CASE Loop("CLI")
    BY <1>1, <2>1 DEF Loop, Moves
  <2>2. CASE SendPayload \/ RecvHeader \/ RecvPayload \/ SyncRecv
    <3>1. Called("CLI") /\ late' = late
      BY <2>2 DEF SendPayload, RecvHeader, RecvPayload, SyncRecv
    <3> QED BY <1>1, <1>2, <3>1
  <2>3. CASE TransactionOK \/ SyncReturns
    <3>1. Called("CLI")
      BY <2>3 DEF TransactionOK, SyncReturns, Return
    <3>2. late => late'
      BY <2>3, Zenon DEF TransactionOK, SyncReturns
    <3> QED BY <1>1, <1>2, <3>1, <3>2
  <2>4. CASE TransactionFails
    BY <1>1, <2>4 DEF TransactionFails, Leave, Moves
  <2> QED BY <1>4, <2>1, <2>2, <2>3, <2>4 DEF ClientStep
<1>5. CASE ShellStep
  <2>1. CASE Loop("SRV")
    BY <1>1, <2>1 DEF Loop, Moves
  <2>2. CASE ShellReadPayload \/ ShellExec \/ ShellSendPayload \/ ShellDone
    <3>1. Called("SRV") /\ late' = late
      BY <2>2 DEF ShellReadPayload, ShellExec, ShellSendPayload, ShellDone
    <3> QED BY <1>1, <1>2, <3>1
  <2>3. CASE ShellTop \/ FrameWait \/ ShellFails \/ ShellEnd
    <3>1. late' = late /\ (UNCHANGED io_vars \/ socket_close("SRV") \/ Called("SRV"))
      BY <2>3 DEF ShellTop, FrameWait, ShellFails, ShellEnd
    <3> QED BY <1>1, <1>2, <3>1 DEF Moves
  <2> QED BY <1>5, <2>1, <2>2, <2>3 DEF ShellStep
<1>6. CASE Time
  BY <1>6 DEF Time, Moves
<1>7. CASE UNCHANGED vars
  BY <1>7 DEF vars, Moves
<1> QED BY <1>3, <1>4, <1>5, <1>6, <1>7 DEF Next

\* One direction of the connection, until it breaks
LEMMA ChannelStep ==
    ASSUME FlowInv, [Next]_vars, NEW e \in Ends, Intact(e)'
    PROVE  /\ Intact(e)
           /\ \/ flight'[e] = flight[e] /\ taken'[e] = taken[e]
              \/ \E f \in Frames : flight'[e] = Append(flight[e], f) /\ taken'[e] = taken[e]
              \/ flight[e] # <<>> /\ taken'[e] = Head(flight[e]) /\ flight'[e] = Tail(flight[e])
<1> DEFINE to == Other(e)
           Done == /\ Intact(e)
                   /\ \/ flight'[e] = flight[e] /\ taken'[e] = taken[e]
                      \/ \E f \in Frames : flight'[e] = Append(flight[e], f) /\ taken'[e] = taken[e]
                      \/ flight[e] # <<>> /\ taken'[e] = Head(flight[e]) /\ flight'[e] = Tail(flight[e])
<1>1. /\ IoInv /\ IoInv' /\ to \in Ends /\ to # e /\ Other(to) = e /\ Ends = {e, to}
      /\ flight \in [Ends -> Seq(Frames)] /\ taken \in [Ends -> Frames \cup {NoFrame}]
      /\ e \notin broken' /\ (late => late')
  BY OtherEnd, FlowStep, StepMoves DEF FlowInv, Inv, IoInv, IoTypeOK, Intact
<1>2. e \notin broken => Intact(e)
  BY <1>1 DEF Intact
<1>3. CASE UNCHANGED io_vars \/ Tick
  BY <1>1, <1>2, <1>3 DEF Tick, io_vars
<1>4. CASE LoopStep(e)
  <2>1. CASE TurnTakes(e)
    <3>1. Intact(e)
      BY <1>1, <1>2, <2>1 DEF TurnTakes
    <3> QED BY <2>1, <3>1, TakesFrame
  <2>2. CASE TurnSends(e) \/ TurnWaits(e) \/ TurnGivesUp(e)
    BY <1>1, <1>2, <2>2 DEF TurnSends, TurnWaits, TurnGivesUp
  <2> QED BY <1>1, <1>4, <2>1, <2>2, Turn
<1>5. CASE LoopStep(to)
  <2>1. TurnSends(to) \/ TurnWaits(to) \/ TurnTakes(to) \/ TurnGivesUp(to)
    BY <1>1, <1>5, Turn
  <2>2. CASE TurnTakes(to)
    <3>1. flight'[e] = flight[e]
      BY <1>1, <2>2 DEF TurnTakes
    <3>2. taken'[e] = taken[e]
      BY <1>1, <2>2 DEF TurnTakes
    <3> QED BY <1>1, <1>2, <2>2, <3>1, <3>2 DEF TurnTakes
  <2>3. CASE TurnSends(to) \/ TurnWaits(to) \/ TurnGivesUp(to)
    BY <1>1, <1>2, <2>3 DEF TurnSends, TurnWaits, TurnGivesUp
  <2> QED BY <2>1, <2>2, <2>3
<1>6. CASE \E d \in Ends : socket_close(d)
  <2>1. socket_close(to)
    BY <1>1, <1>6 DEF socket_close
  <2> QED BY <1>1, <1>2, <2>1 DEF socket_close
<1>7. CASE Call(e, sock'[e])
  BY <1>1, <1>2, <1>7 DEF Call
<1>8. CASE Call(to, sock'[to])
  <2>1. RecordOK(sock[to])'
    BY <1>1, IoInvMeans DEF IoInv, IoTypeOK, RecordOK
  <2>2. sock'[to].io = "SEND" => sock'[to].out \in Frames
    BY <2>1 DEF RecordOK, Sending
  <2>3. UNCHANGED <<taken, broken>>
    BY <1>8 DEF Call
  <2>4. CASE sock'[to].io = "SEND" /\ e \in open
    <3>1. flight' = [flight EXCEPT ![e] = Append(@, sock'[to].out)]
      BY <1>1, <1>8, <2>4 DEF Call
    <3>2. flight'[e] = Append(flight[e], sock'[to].out)
      BY <1>1, <3>1
    <3> QED BY <1>1, <1>2, <2>2, <2>3, <2>4, <3>2
  <2>5. CASE ~(sock'[to].io = "SEND" /\ e \in open)
    BY <1>1, <1>2, <1>8, <2>3, <2>5 DEF Call
  <2> QED BY <2>4, <2>5
<1>9. Moves
  BY StepMoves
<1>10. \A d \in Ends : d = e \/ d = to
  BY <1>1
<1> HIDE DEF Done
<1>11. Done
  BY <1>3, <1>4, <1>5, <1>6, <1>7, <1>8, <1>9, <1>10 DEF Moves, Done
<1> QED BY <1>11 DEF Done

\* What one end sends, the other gets whole and in order, until the stream is
\* cut: recv() moves any part of it at a time, the loops of frame_tx and
\* frame_rx put the parts together, and Transaction, Sync and Shell, which ask
\* for a number of bytes and not for a frame, ask for as many as the frame has
\* that comes next.
THEOREM FramesArriveWhole == Spec => FramesAreWhole
<1>1. Init => Requests!Init /\ Replies!Init
  <2> SUFFICES ASSUME Init PROVE Requests!Init /\ Replies!Init
    OBVIOUS
  <2>1. /\ \A e \in Ends : flight[e] = <<>> /\ taken[e] = NoFrame
        /\ broken = {} /\ late = FALSE /\ "CLI" \in Ends /\ "SRV" \in Ends
    BY DEF Init, IoInit, Ends
  <2>2. ("SRV" \in broken) = FALSE /\ ("CLI" \in broken \/ late) = FALSE
    BY <2>1
  <2> QED BY <2>1, <2>2 DEF Requests!Init, Replies!Init
<1>2. FlowInv /\ [Next]_vars => [Requests!Next]_(Requests!vars)
  <2> SUFFICES ASSUME FlowInv, [Next]_vars PROVE [Requests!Next]_(Requests!vars)
    OBVIOUS
  <2>1. "SRV" \in Ends
    BY DEF Ends
  <2>2. CASE ~Intact("SRV")'
    <3>1. "SRV" \in broken'
      BY <2>2 DEF Intact
    <3>2. ("SRV" \in broken') = TRUE
      BY <3>1
    <3> QED BY <3>2 DEF Requests!Next, Requests!Break
  <2>3. CASE Intact("SRV")'
    <3>1. "SRV" \notin broken /\ "SRV" \notin broken'
      BY <2>1, <2>3, ChannelStep DEF Intact
    <3>2. ("SRV" \in broken') = ("SRV" \in broken)
      BY <3>1
    <3>3. \/ flight'["SRV"] = flight["SRV"] /\ taken'["SRV"] = taken["SRV"]
          \/ \E f \in Frames : flight'["SRV"] = Append(flight["SRV"], f) /\ taken'["SRV"] = taken["SRV"]
          \/ /\ flight["SRV"] # <<>>
             /\ taken'["SRV"] = Head(flight["SRV"]) /\ flight'["SRV"] = Tail(flight["SRV"])
      BY <2>1, <2>3, ChannelStep
    <3> QED BY <3>2, <3>3
            DEF Requests!Next, Requests!Send, Requests!Deliver, Requests!vars
  <2> QED BY <2>2, <2>3
<1>3. FlowInv /\ [Next]_vars => [Replies!Next]_(Replies!vars)
  <2> SUFFICES ASSUME FlowInv, [Next]_vars PROVE [Replies!Next]_(Replies!vars)
    OBVIOUS
  <2>1. "CLI" \in Ends
    BY DEF Ends
  <2>2. CASE ~Intact("CLI")'
    <3>1. "CLI" \in broken' \/ late'
      BY <2>2 DEF Intact
    <3>2. ("CLI" \in broken' \/ late') = TRUE
      BY <3>1
    <3> QED BY <3>2 DEF Replies!Next, Replies!Break
  <2>3. CASE Intact("CLI")'
    <3>1. ~("CLI" \in broken \/ late) /\ ~("CLI" \in broken' \/ late')
      BY <2>1, <2>3, ChannelStep DEF Intact
    <3>2. ("CLI" \in broken' \/ late') = ("CLI" \in broken \/ late)
      BY <3>1
    <3>3. \/ flight'["CLI"] = flight["CLI"] /\ taken'["CLI"] = taken["CLI"]
          \/ \E f \in Frames : flight'["CLI"] = Append(flight["CLI"], f) /\ taken'["CLI"] = taken["CLI"]
          \/ /\ flight["CLI"] # <<>>
             /\ taken'["CLI"] = Head(flight["CLI"]) /\ flight'["CLI"] = Tail(flight["CLI"])
      BY <2>1, <2>3, ChannelStep
    <3> QED BY <3>2, <3>3
            DEF Replies!Next, Replies!Send, Replies!Deliver, Replies!vars
  <2> QED BY <2>2, <2>3
<1> QED BY <1>1, <1>2, <1>3, FlowInit, FlowStep, PTL
        DEF Spec, FramesAreWhole, Requests!Spec, Replies!Spec

-----------------------------------------------------------------------------
(* Taking turns *)

\* The client has begun to take the answer of its call, or has no call
Served == cpc \in {"idle", "rxPay"} \/ (Phase("CLI") = "hdr" /\ BackOK("CLI"))

\* Part of a request has yet to be taken
Asking == flight["SRV"] # <<>> \/ Due("CLI") > 0

\* The shell has the prefix of a request
HasRequest == spc = "rxPay" \/ (spc = "rxHdr" /\ BackOK("SRV"))

\* The call of the client is about to fail
Failed == cpc # "idle" /\ Back("CLI") /\ sock["CLI"].state # "OK"

Only(q, first) == OnlyPayload(q, IF first THEN 1 ELSE 2)

\* Client and shell take turns: an answer is sent when its request has been
\* taken, whole or not, and the next request when the answer has been taken;
\* CMD_ERROR is the only frame on its way to the client
TakingTurns ==
    /\ spc \in {"rxHdr", "rxPay"} => ~Served /\ flight["CLI"] = <<>>
    /\ sock["SRV"].io = "SEND" /\ spc = "txErr" => ~Served /\ Len(flight["CLI"]) = 1
    /\ spc # "txErr" /\ Asking => ~Served /\ flight["CLI"] = <<>>
    /\ Only(flight["CLI"], Served)
    /\ spc # "txErr" => Only(flight["SRV"], HasRequest)

Lockstep == ~OutOfStep /\ ~Failed => TakingTurns

LockInv == FlowInv /\ Lockstep

LEMMA OnlyEmpty == ASSUME NEW first \in BOOLEAN PROVE Only(<<>>, first)
<1>1. Len(<<>>) = 0
  OBVIOUS
<1> QED BY <1>1 DEF Only, OnlyPayload

LEMMA OnlyWeaker ==
    ASSUME NEW q \in Seq(Frames), Only(q, TRUE), NEW first
    PROVE  Only(q, first)
<1>1. OnlyPayload(q, 1)
  BY DEF Only
<1>2. OnlyPayload(q, 2)
  BY <1>1 DEF OnlyPayload
<1> QED BY <1>1, <1>2 DEF Only

LEMMA OnlyAppend ==
    ASSUME NEW q \in Seq(Frames), NEW g \in Frames, NEW first
    PROVE  /\ q = <<>> => Only(Append(q, g), FALSE)
           /\ Only(q, first) /\ g.kind = "PAYLOAD" => Only(Append(q, g), first)
<1> DEFINE r == Append(q, g)
<1>1. /\ q = <<>> => OnlyPayload(r, 2)
      /\ \A from \in {1, 2} : OnlyPayload(q, from) /\ g.kind = "PAYLOAD" => OnlyPayload(r, from)
  BY OnlyPayloadAppend
<1> HIDE DEF r
<1>2. (IF first THEN 1 ELSE 2) \in {1, 2}
  OBVIOUS
<1> QED BY <1>1, <1>2 DEF Only, r

LEMMA OnlyTail ==
    ASSUME NEW q \in Seq(Frames), q # <<>>, NEW first, Only(q, first), NEW next
    PROVE  Only(Tail(q), next)
<1>1. (IF first THEN 1 ELSE 2) \in {1, 2} /\ Tail(q) \in Seq(Frames)
  OBVIOUS
<1>2. OnlyPayload(Tail(q), 1)
  BY <1>1, OnlyPayloadTail DEF Only
<1>3. Only(Tail(q), TRUE)
  BY <1>2 DEF Only
<1> QED BY <1>1, <1>3, OnlyWeaker

\* An end that sends has a frame on its way
LEMMA SendsSome ==
    ASSUME FlowInv, NEW e \in Ends, Intact(e), sock[Other(e)].io = "SEND" \/ wire[e] # <<>>
    PROVE  flight[e] # <<>>
<1>1. IoInv /\ Laid(flight[e], Stream(e)) /\ RecordOK(sock[Other(e)])
  BY OtherEnd, IoInvMeans DEF FlowInv, Inv, Flow, InFlow
<1> DEFINE g == Got(sock[e])  w == wire[e]  r == Rest(sock[Other(e)])
<1>2. g \in Seq(WireBytes) /\ w \in Seq(WireBytes) /\ r \in Seq(WireBytes) /\ Stream(e) = (g \o w) \o r
      /\ Stream(e) \in Seq(WireBytes) /\ flight[e] \in Seq(Frames)
  BY <1>1, StreamType DEF Stream
<1>3. w # <<>> \/ r # <<>>
  BY <1>1, RestIs
<1> HIDE DEF g, w, r
<1>4. Stream(e) # <<>>
  BY <1>2, <1>3, ConcatProperties, ConcatEqualIffEmpty
<1> QED BY <1>1, <1>2, <1>4, LaidSome

\* Nothing but a payload that is not owed is on its way
LEMMA NoneOnItsWay ==
    ASSUME FlowInv, NEW e \in Ends, Intact(e), Owed(taken[e]) = 0, OnlyPayload(flight[e], 1)
    PROVE  flight[e] = <<>> /\ Due(Other(e)) = 0
<1>1. flight[e] \in Seq(Frames) /\ InTurn(taken[e], flight[e])
      /\ Owed(LastOf(taken[e], flight[e])) = Due(Other(e))
  BY DEF FlowInv, Inv, IoInv, IoTypeOK, Flow, InFlow
<1>2. flight[e] = <<>>
  BY <1>1, NoPayloadFirst
<1> QED BY <1>1, <1>2 DEF LastOf

\* A client that is not yet served expects a prefix
LEMMA UnservedOwesNothing ==
    ASSUME FlowInv, Intact("CLI"), ~Served, ~Failed
    PROVE  Owed(taken["CLI"]) = 0
<1>1. "CLI" \in Ends /\ sock["CLI"].io \in {"BACK", "SEND", "RECV", "SELECT"}
  BY DEF Ends, FlowInv, Inv, IoInv, IoTypeOK, Records
<1>2. Phase("CLI") # "pay" /\ Phase("CLI") # "err"
  BY DEF Served, Phase
<1>3. ~(Phase("CLI") = "hdr" /\ BackOK("CLI")) /\ (Phase("CLI") = "hdr" => cpc # "idle")
  BY DEF Served, Phase
<1>4. Conduct(Phase("CLI"), sock["CLI"], Other("CLI") \in open) /\ Reading(Phase("CLI"), sock["CLI"], taken["CLI"])
  BY <1>1 DEF FlowInv, Steady, SteadyEnd
<1>5. Phase("CLI") = "hdr" => Receiving(sock["CLI"])
  BY <1>1, <1>3, <1>4 DEF Failed, Conduct, Receiving, BackOK, Back
<1> QED BY <1>2, <1>4, <1>5 DEF Reading

\* An end that is not out of step is there
LEMMA InStepMeans ==
    ASSUME FlowInv, ~OutOfStep
    PROVE  /\ ~late /\ broken = {} /\ "CLI" \in open /\ "SRV" \in open
           /\ Intact("CLI") /\ Intact("SRV") /\ SteadyEnd("CLI") /\ SteadyEnd("SRV")
           /\ IoInv /\ flight["CLI"] \in Seq(Frames) /\ flight["SRV"] \in Seq(Frames)
           /\ flight \in [Ends -> Seq(Frames)]
<1>1. ~late /\ broken = {} /\ "CLI" \in Ends /\ "SRV" \in Ends
  BY DEF OutOfStep, Ends
<1> QED BY <1>1 DEF FlowInv, Inv, IoInv, IoTypeOK, Steady, SteadyEnd, Intact

LEMMA StaysInStep ==
    ASSUME FlowInv, [Next]_vars, ~OutOfStep'
    PROVE  ~OutOfStep
<1>1. FlowInv'
  BY FlowStep
<1>2. ~late' /\ broken' = {} /\ (late => late')
  BY StepMoves DEF OutOfStep
<1>3. ASSUME NEW e \in Ends PROVE e \notin broken
  <2>1. Intact(e)'
    BY <1>2 DEF Intact
  <2> QED BY <2>1, ChannelStep DEF Intact
<1>4. broken \subseteq Ends
  BY DEF FlowInv, Inv, IoInv, IoTypeOK
<1> QED BY <1>2, <1>3, <1>4 DEF OutOfStep

\* The shell's part of a step, or the client's, that changes nothing of this
LEMMA TurnsKept ==
    ASSUME TakingTurns, Served' <=> Served, Asking' <=> Asking, HasRequest' <=> HasRequest,
           flight'["CLI"] = flight["CLI"], flight'["SRV"] = flight["SRV"],
           spc' \in {"rxHdr", "rxPay"} => spc \in {"rxHdr", "rxPay"},
           sock'["SRV"].io = "SEND" /\ spc' = "txErr" => sock["SRV"].io = "SEND" /\ spc = "txErr",
           spc = "txErr" => spc' = "txErr"
    PROVE  TakingTurns'
BY DEF TakingTurns, Only

-----------------------------------------------------------------------------
(* The client takes its turns *)

\* The client begins a call: the last answer is out of the way
LEMMA BeginTurns ==
    ASSUME LockInv, ~OutOfStep, NEW kind \in HdrKinds, NEW len \in Lens \cup {0}, NEW left \in 0 .. Delay,
           NEW pc \in {"txHdr", "txPing"}, Begin(kind, len, left, pc)
    PROVE  TakingTurns'
<1> DEFINE h == Hdr(kind, calls + 1, len)  s == [Fresh EXCEPT !.left = left]
           qs == flight["SRV"]
<1>1. /\ FlowInv /\ IoInv /\ Intact("CLI") /\ flight["CLI"] \in Seq(Frames) /\ qs \in Seq(Frames)
      /\ "SRV" \in open /\ "CLI" \in Ends /\ "SRV" \in Ends /\ Other("CLI") = "SRV"
      /\ calls \in Nat /\ sock \in [Ends -> Records] /\ flight \in [Ends -> Seq(Frames)]
  BY InStepMeans DEF LockInv, Ends, Other, FlowInv, Inv, Control, IoInv, IoTypeOK
<1>2. /\ cpc = "idle" /\ cpc' = pc /\ spc' = spc /\ Call("CLI", frame_tx(s, h)) /\ calls < MaxCalls
  BY DEF Begin
<1>3. h \in Frames /\ Size(h) # 0
  <2>1. calls + 1 \in 0 .. MaxCalls
    BY <1>1, <1>2
  <2>2. h \in Frames
    BY <2>1, HdrType
  <2> QED BY <2>2 DEF Hdr, Size, HdrKinds
<1>4. RecordOK(s)
  BY FreshLeft
<1>5. Served /\ ~Failed /\ Phase("CLI") = "rest"
  BY <1>2 DEF Served, Failed, Phase
<1>6. TakingTurns
  BY <1>5 DEF LockInv, Lockstep
<1>7. /\ spc \notin {"rxHdr", "rxPay"} /\ ~(sock["SRV"].io = "SEND" /\ spc = "txErr")
      /\ spc # "txErr" => qs = <<>>
      /\ OnlyPayload(flight["CLI"], 1)
  BY <1>5, <1>6 DEF TakingTurns, Only, Asking
<1>8. flight["CLI"] = <<>>
  BY <1>1, <1>5, <1>7, NothingOwed, NoneOnItsWay
<1>9. sock["CLI"].io = "BACK"
  BY <1>1, <1>5, AtRest
<1> HIDE DEF h, s
<1>10. flight' = [flight EXCEPT !["SRV"] = Append(qs, h)] /\ sock'["SRV"] = sock["SRV"]
  <2>1. /\ flight'["CLI"] = flight["CLI"] /\ sock'["SRV"] = sock["SRV"]
        /\ flight'["SRV"] = Append(flight["SRV"], h)
    BY <1>1, <1>2, <1>3, <1>4, <1>9, CallSends
  <2>2. frame_tx(s, h).io = "SEND" /\ frame_tx(s, h).out = h
    BY <1>3, <1>4 DEF frame_tx, sock_blocking, RecordOK, Records
  <2>3. flight' = [flight EXCEPT !["SRV"] = Append(@, h)]
    BY <1>1, <1>2, <2>2 DEF Call
  <2> QED BY <1>1, <2>1, <2>3
<1>11. flight'["CLI"] = <<>> /\ flight'["SRV"] = Append(qs, h)
  BY <1>1, <1>8, <1>10
<1>12. ~Served' /\ ~HasRequest'
  BY <1>2, <1>7 DEF Served, Phase, HasRequest
<1>13. spc # "txErr" => Only(flight'["SRV"], FALSE)
  BY <1>1, <1>3, <1>7, <1>11, OnlyAppend
<1>14. Only(flight'["CLI"], FALSE)
  BY <1>11, OnlyEmpty
<1>15. Only(flight["CLI"], Served)'
  BY <1>12, <1>14 DEF Only
<1>16. spc' # "txErr" => Only(flight["SRV"], HasRequest)'
  BY <1>2, <1>12, <1>13 DEF Only
<1> QED BY <1>2, <1>7, <1>10, <1>11, <1>12, <1>15, <1>16 DEF TakingTurns

\* It sends the payload
LEMMA SendPayloadTurns ==
    ASSUME LockInv, ~OutOfStep, SendPayload
    PROVE  TakingTurns'
<1> DEFINE p == Pay(calls, hdr["CLI"].len)  s == sock["CLI"]  qs == flight["SRV"]
<1>1. /\ FlowInv /\ qs \in Seq(Frames) /\ "SRV" \in open /\ "CLI" \in Ends /\ Other("CLI") = "SRV"
      /\ calls \in 0 .. MaxCalls /\ hdr["CLI"] \in Frames \cup {NoFrame} /\ RecordOK(s) /\ IoInv /\ s \in Records
  BY InStepMeans, IoInvMeans DEF LockInv, Ends, Other, FlowInv, Inv, Control, RecordOK
<1>2. /\ cpc = "txHdr" /\ cpc' = "txPay" /\ UNCHANGED <<spc, hdr>> /\ BackOK("CLI")
      /\ Call("CLI", frame_tx(s, p))
  BY DEF SendPayload
<1>3. p \in Frames /\ p.kind = "PAYLOAD" /\ Size(p) = hdr["CLI"].len /\ hdr["CLI"].len \in Nat
  BY <1>1, FrameFields, PayType DEF Pay, Size
<1>4. ~Served /\ ~Served' /\ ~Failed /\ Due("CLI") = hdr["CLI"].len /\ Due("CLI")' = 0
      /\ s.io = "BACK"
  BY <1>2 DEF Served, Phase, Failed, Due, BackOK, Back
<1>5. TakingTurns
  BY <1>4 DEF LockInv, Lockstep
<1> HIDE DEF p, s
<1>6. CASE Size(p) = 0
  <2> DEFINE r == frame_tx(s, p)
  <2>1. r.io = "BACK"
    BY <1>1, <1>6 DEF frame_tx, Records
  <2> HIDE DEF r
  <2>2. UNCHANGED flight /\ sock'["SRV"] = sock["SRV"]
    BY <1>1, <1>2, <1>4, <2>1, CallStream DEF r, s
  <2>3. (Asking' <=> Asking) /\ (HasRequest' <=> HasRequest)
    BY <1>2, <1>3, <1>4, <1>6, <2>2 DEF Asking, HasRequest, BackOK, Back
  <2> QED BY <1>2, <1>4, <1>5, <2>2, <2>3, TurnsKept
<1>7. CASE Size(p) # 0
  <2>1. /\ flight'["CLI"] = flight["CLI"] /\ sock'["SRV"] = sock["SRV"]
        /\ flight'["SRV"] = Append(qs, p)
    BY <1>1, <1>2, <1>3, <1>4, <1>7, CallSends DEF s
  <2>2. Asking /\ (HasRequest' <=> HasRequest)
    BY <1>2, <1>3, <1>4, <1>7, <2>1 DEF Asking, HasRequest, BackOK, Back
  <2>3. spc # "txErr" => Only(flight'["SRV"], HasRequest)
    BY <1>1, <1>3, <1>5, <2>1, OnlyAppend DEF TakingTurns
  <2>4. spc' # "txErr" => Only(flight["SRV"], HasRequest)'
    BY <1>2, <2>2, <2>3 DEF Only
  <2>5. Only(flight["CLI"], Served)'
    BY <1>4, <1>5, <2>1 DEF TakingTurns, Only
  <2> QED BY <1>2, <1>4, <1>5, <2>1, <2>2, <2>4, <2>5 DEF TakingTurns
<1> QED BY <1>6, <1>7

\* A step of the client that neither sends nor takes a frame
LEMMA ClientKeepsTurns ==
    ASSUME LockInv, ~OutOfStep, ~Failed, NEW s, Call("CLI", s), sock["CLI"].io = "BACK",
           s.io = "BACK" \/ (Receiving(s) /\ s.inp = <<>>), spc' = spc,
           Served' <=> Served, Due("CLI") = 0, Due("CLI")' = 0
    PROVE  TakingTurns'
<1>1. UNCHANGED flight /\ sock'["SRV"] = sock["SRV"]
  <2>1. "CLI" \in Ends /\ Other("CLI") = "SRV" /\ IoInv
    BY DEF Ends, Other, LockInv, FlowInv, Inv
  <2> QED BY <2>1, CallStream
<1>2. (Asking' <=> Asking) /\ (HasRequest' <=> HasRequest)
  BY <1>1 DEF Asking, HasRequest, BackOK, Back
<1>3. TakingTurns
  BY DEF LockInv, Lockstep
<1> QED BY <1>1, <1>2, <1>3, TurnsKept

\* A prefix that is awaited has not been received
LEMMA AwaitsHeader ==
    ASSUME LockInv, ~OutOfStep, BackOK("CLI"), cpc \in {"txPay", "txPing"}, cpc' \in {"rxHdr", "rxPing"}, spc' = spc,
           NEW s \in Records, NEW r \in {frame_rx(s, HdrSize), frame_rx_until(s, HdrSize)}, Call("CLI", r)
    PROVE  TakingTurns'
<1>1. HdrSize \in Nat \ {0} /\ sock \in [Ends -> Records] /\ "CLI" \in Ends
  BY DEF LockInv, FlowInv, Inv, IoInv, IoTypeOK, Ends
<1>2. \/ r.io = "BACK" /\ r.state = "TIMEOUT"
      \/ r.io = "RECV" /\ r.inp = <<>>
  BY <1>1, RxStarts
<1>3. sock'["CLI"] = r
  BY <1>1 DEF Call
<1>4. ~Served /\ ~Failed /\ Due("CLI") = 0 /\ Due("CLI")' = 0 /\ sock["CLI"].io = "BACK"
  BY DEF Served, Phase, Failed, Due, BackOK, Back
<1>5. ~Served'
  BY <1>2, <1>3 DEF Served, BackOK, Back
<1>6. r.io = "BACK" \/ (Receiving(r) /\ r.inp = <<>>)
  BY <1>2 DEF Receiving
<1> QED BY <1>4, <1>5, <1>6, ClientKeepsTurns

\* It is in the loop of a frame function
LEMMA ClientLoopTurns ==
    ASSUME LockInv, ~OutOfStep, ~OutOfStep', ~Failed', Loop("CLI")
    PROVE  TakingTurns'
<1> DEFINE e == "CLI"  s == sock["CLI"]  t == sock'["CLI"]  q == flight["CLI"]
<1>1. /\ FlowInv /\ IoInv /\ "CLI" \in Ends /\ "SRV" \in Ends /\ Other("CLI") = "SRV" /\ SteadyEnd("CLI") /\ Intact("CLI")
      /\ q \in Seq(Frames) /\ flight \in [Ends -> Seq(Frames)] /\ broken' = {} /\ UNCHANGED <<cpc, spc, hdr>>
  BY InStepMeans DEF LockInv, Ends, Other, OutOfStep, Loop
<1>2. /\ sock'["SRV"] = sock["SRV"]
      /\ TurnSends(e) \/ TurnWaits(e) \/ TurnTakes(e) \/ TurnGivesUp(e)
  BY <1>1, Turn DEF Loop
<1>3. Due("CLI")' = Due("CLI") /\ Phase("CLI")' = Phase("CLI") /\ (HasRequest' <=> HasRequest)
  BY <1>1, <1>2 DEF Due, Phase, HasRequest, BackOK, Back
<1>4. Conduct(Phase(e), s, Other(e) \in open)
  BY <1>1 DEF SteadyEnd
<1>5. ~Failed
  BY <1>2 DEF Failed, Back, TurnSends, TurnWaits, TurnTakes, TurnGivesUp, Receiving
<1>6. TakingTurns
  BY <1>5 DEF LockInv, Lockstep
<1>7. CASE TurnSends(e) \/ TurnWaits(e)
  <2>1. flight' = flight
    BY <1>7 DEF TurnSends, TurnWaits
  <2>2. Served' <=> Served
    <3>1. CASE TurnSends(e)
      <4>1. Phase(e) # "hdr" /\ cpc \notin {"idle", "rxPay"}
        BY <1>4, <3>1 DEF TurnSends, Conduct, Phase
      <4> QED BY <1>1, <1>3, <4>1 DEF Served
    <3>2. CASE TurnWaits(e)
      <4>1. ~BackOK(e) /\ ~BackOK(e)'
        BY <3>2 DEF TurnWaits, Receiving, BackOK, Back
      <4> QED BY <1>1, <4>1 DEF Served
    <3> QED BY <1>7, <3>1, <3>2
  <2>3. Asking' <=> Asking
    BY <1>3, <2>1 DEF Asking
  <2> QED BY <1>1, <1>2, <1>3, <1>6, <2>1, <2>2, <2>3, TurnsKept
<1>8. CASE TurnTakes(e)
  <2>1. q # <<>> /\ flight'[e] = Tail(q) /\ Follows(taken[e], Head(q)) /\ flight'["SRV"] = flight["SRV"]
    <3>1. flight'["SRV"] = flight["SRV"]
      BY <1>1, <1>8 DEF TurnTakes
    <3> QED BY <1>1, <1>8, <3>1, TakesFrame
  <2>2. ~(sock["SRV"].io = "SEND" /\ spc = "txErr")
    <3> SUFFICES ASSUME sock["SRV"].io = "SEND", spc = "txErr" PROVE FALSE
      OBVIOUS
    <3>1. Len(q) = 1 /\ q[1] = Head(q) /\ Head(q) \in Frames
      BY <1>1, <1>6, <2>1 DEF TakingTurns
    <3>2. Stream(e) \in Seq(WireBytes) /\ Laid(q, Stream(e)) /\ taken[e] \in Frames \cup {NoFrame}
      BY <1>1, StreamType DEF FlowInv, Flow, InFlow
    <3>3. Len(Stream(e)) = Size(Head(q))
      BY <1>1, <3>1, <3>2, LaidOne
    <3>4. Size(Head(q)) = Wanted(taken[e])
      BY <2>1, <3>1, <3>2, FollowsSize
    <3>5. s.size = Wanted(taken[e])
      BY <1>1, <1>8 DEF SteadyEnd, Reading, TurnTakes
    <3> DEFINE st2 == Stream(e)'
    <3>6. PICK a \in Seq(WireBytes) : Stream(e) = a \o st2 /\ Len(a) = s.size
      BY <1>8 DEF TurnTakes
    <3>7. st2 \in Seq(WireBytes)
      BY <1>8 DEF TurnTakes
    <3>8. IoInv' /\ RecordOK(sock["SRV"])
      BY <1>1, IoInvMeans, LoopKeeps DEF FlowInv, Inv
    <3>9. st2 # <<>>
      <4> DEFINE g == Got(sock'[e])  w == wire'[e]  r == Rest(sock["SRV"])
      <4>1. st2 = (g \o w) \o r
        BY <1>1, <1>2 DEF Stream
      <4>2. r \in Seq(WireBytes) /\ r # <<>>
        BY <1>1, <3>8, RestIs
      <4>3. (RecordOK(sock[e]) /\ wire[e] \in Seq(WireBytes))'
        BY <1>1, <3>8 DEF IoInv, IoTypeOK, RecordOK, WireBytes
      <4>4. g \in Seq(WireBytes) /\ w \in Seq(WireBytes)
        BY <4>3, RestIs
      <4> HIDE DEF g, w, r, st2
      <4> QED BY <4>1, <4>2, <4>4, ConcatProperties, ConcatEqualIffEmpty
    <3> HIDE DEF st2
    <3>10. Len(Stream(e)) = Len(a) + Len(st2)
      BY <3>6, <3>7, ConcatProperties
    <3> DEFINE n == Len(st2)  m == Len(a)
    <3>11. n \in Nat /\ m \in Nat /\ (n = 0 => st2 = <<>>)
      BY <3>7
    <3>12. m = m + n
      BY <3>3, <3>4, <3>5, <3>6, <3>10
    <3> HIDE DEF n, m
    <3>13. n = 0
      BY <3>11, <3>12
    <3> QED BY <3>9, <3>11, <3>13
  <2>3. spc \notin {"rxHdr", "rxPay"} /\ (spc # "txErr" => ~Asking)
    BY <1>6, <2>1 DEF TakingTurns
  <2>4. Only(flight["CLI"], Served)'
    BY <1>1, <1>6, <2>1, OnlyTail DEF TakingTurns
  <2>5. spc' # "txErr" => Only(flight["SRV"], HasRequest)'
    BY <1>1, <1>3, <1>6, <2>1 DEF TakingTurns, Only
  <2>6. Asking' <=> Asking
    BY <1>3, <2>1 DEF Asking
  <2> QED BY <1>1, <1>2, <2>2, <2>3, <2>4, <2>5, <2>6 DEF TakingTurns
<1>9. CASE TurnGivesUp(e)
  <2>1. Receiving(s) /\ t.io = "BACK" /\ t.state # "OK"
    BY <1>1, <1>9 DEF TurnGivesUp
  <2>2. cpc # "idle"
    BY <1>4, <2>1 DEF Conduct, Phase
  <2>3. Failed'
    BY <1>1, <2>1, <2>2 DEF Failed, Back
  <2> QED BY <2>3
<1> QED BY <1>2, <1>7, <1>8, <1>9

LEMMA ClientTurns ==
    ASSUME LockInv, ~OutOfStep, ~OutOfStep', ~Failed', ClientStep \/ Transaction \/ Sync \/ Close
    PROVE  TakingTurns'
<1>1. IoInv /\ sock["CLI"] \in Records /\ FlowInv /\ "CLI" \in Ends /\ sock \in [Ends -> Records]
      /\ broken' = {} /\ ~late'
  BY DEF LockInv, FlowInv, Inv, IoInv, IoTypeOK, Ends, OutOfStep
<1>2. CASE Transaction \/ Sync
  BY <1>2, BeginTurns DEF Transaction, Sync, HdrKinds
<1>3. CASE Loop("CLI")
  BY <1>3, ClientLoopTurns
<1>4. CASE SendPayload
  BY <1>4, SendPayloadTurns
<1>5. CASE RecvHeader
  BY <1>1, <1>5, AwaitsHeader DEF RecvHeader
<1>6. CASE SyncRecv
  <2> DEFINE s == [sock["CLI"] EXCEPT !.left = Delay]
  <2>1. s \in Records
    BY <1>1, OnlyLeft
  <2>2. /\ cpc = "txPing" /\ cpc' = "rxPing" /\ spc' = spc /\ BackOK("CLI")
        /\ Call("CLI", frame_rx(s, HdrSize))
    BY <1>6 DEF SyncRecv
  <2> HIDE DEF s
  <2> QED BY <2>1, <2>2, AwaitsHeader
<1>7. CASE RecvPayload
  <2> DEFINE r == frame_rx_until(sock["CLI"], Received("CLI").len)
  <2>1. /\ cpc = "rxHdr" /\ cpc' = "rxPay" /\ spc' = spc /\ BackOK("CLI") /\ Call("CLI", r)
    BY <1>7 DEF RecvPayload
  <2>2. r.io = "BACK" \/ (r.io = "RECV" /\ r.inp = <<>>)
    BY <1>1, ReceivedType, RxStarts
  <2>3. r.io = "BACK" \/ (Receiving(r) /\ r.inp = <<>>)
    BY <2>2 DEF Receiving
  <2> HIDE DEF r
  <2>4. Served /\ Served' /\ ~Failed /\ Due("CLI") = 0 /\ Due("CLI")' = 0 /\ sock["CLI"].io = "BACK"
    BY <2>1 DEF Served, Phase, Failed, Due, BackOK, Back
  <2> QED BY <2>1, <2>3, <2>4, ClientKeepsTurns
<1>8. CASE TransactionOK \/ SyncReturns
  <2>1. /\ cpc' = "idle" /\ spc' = spc /\ BackOK("CLI") /\ Call("CLI", Fresh)
        /\ cpc \in {"rxPay", "rxPing"}
    BY <1>1, <1>8 DEF TransactionOK, SyncReturns, Return, BackOK
  <2>2. Served /\ Served' /\ ~Failed /\ Due("CLI") = 0 /\ Due("CLI")' = 0 /\ sock["CLI"].io = "BACK"
    BY <2>1 DEF Served, Phase, Failed, Due, BackOK, Back
  <2>3. Fresh.io = "BACK"
    BY DEF Fresh
  <2> QED BY <2>1, <2>2, <2>3, ClientKeepsTurns
<1>9. CASE TransactionFails \/ Close
  <2>1. socket_close("CLI")
    BY <1>9 DEF TransactionFails, Close, Leave
  <2> QED BY <1>1, <2>1 DEF socket_close
<1> QED BY <1>2, <1>3, <1>4, <1>5, <1>6, <1>7, <1>8, <1>9 DEF ClientStep

-----------------------------------------------------------------------------
(* The shell takes its turns *)

\* The shell does not touch the client
LEMMA ClientSame ==
    ASSUME cpc' = cpc, sock'["CLI"] = sock["CLI"], hdr'["CLI"] = hdr["CLI"]
    PROVE  /\ Served' <=> Served
           /\ Failed' <=> Failed
           /\ Due("CLI")' = Due("CLI") /\ Phase("CLI")' = Phase("CLI")
BY DEF Served, Failed, Due, Phase, BackOK, Back

\* A step of the shell that neither sends nor takes a frame
LEMMA ShellKeepsTurns ==
    ASSUME LockInv, ~OutOfStep, ~Failed', NEW s, Call("SRV", s), sock["SRV"].io = "BACK",
           s.io = "BACK" \/ (Receiving(s) /\ s.inp = <<>>), UNCHANGED cpc, hdr'["CLI"] = hdr["CLI"],
           spc' \in {"rxHdr", "rxPay"} => spc \in {"rxHdr", "rxPay"},
           spc # "txErr", spc' # "txErr", HasRequest' <=> HasRequest
    PROVE  TakingTurns'
<1>1. UNCHANGED flight /\ sock'["CLI"] = sock["CLI"]
  <2>1. "SRV" \in Ends /\ Other("SRV") = "CLI" /\ IoInv
    BY DEF Ends, Other, LockInv, FlowInv, Inv
  <2> QED BY <2>1, CallStream
<1>2. (Served' <=> Served) /\ ~Failed /\ Due("CLI")' = Due("CLI")
  BY <1>1, ClientSame
<1>3. Asking' <=> Asking
  BY <1>1, <1>2 DEF Asking
<1>4. TakingTurns
  BY <1>2 DEF LockInv, Lockstep
<1> QED BY <1>1, <1>2, <1>3, <1>4, TurnsKept

\* It waits for a request: what has come is the start of one
LEMMA FrameWaitTurns ==
    ASSUME LockInv, ~OutOfStep, ~Failed', spc = "wait", spc' = "rxHdr", UNCHANGED <<cpc, hdr>>,
           Readable("SRV"), Call("SRV", frame_rx_until([Fresh EXCEPT !.left = Delay], HdrSize))
    PROVE  TakingTurns'
<1> DEFINE s == [Fresh EXCEPT !.left = Delay]  r == frame_rx_until(s, HdrSize)
<1>1. /\ FlowInv /\ IoInv /\ Intact("SRV") /\ "CLI" \in open /\ "SRV" \in Ends /\ Other("SRV") = "CLI"
      /\ sock \in [Ends -> Records] /\ Phase("SRV") = "rest"
  BY InStepMeans DEF LockInv, Ends, Other, FlowInv, Inv, IoInv, IoTypeOK, Phase
<1>2. s \in Records /\ s.state = "OK" /\ HdrSize \in Nat \ {0}
  BY FreshLeft DEF RecordOK
<1> HIDE DEF s
<1>3. \/ r.io = "BACK" /\ r.state = "TIMEOUT"
      \/ r.io = "RECV" /\ r.inp = <<>>
  BY <1>2, RxStarts
<1>4. Call("SRV", r) /\ sock["SRV"].io = "BACK"
  BY <1>1, AtRest DEF s
<1>5. r.io = "BACK" \/ (Receiving(r) /\ r.inp = <<>>)
  BY <1>3 DEF Receiving
<1>6. UNCHANGED flight /\ sock'["CLI"] = sock["CLI"] /\ sock'["SRV"] = r
  BY <1>1, <1>4, <1>5, CallStream
<1> HIDE DEF r
<1>7. (Served' <=> Served) /\ ~Failed /\ Due("CLI")' = Due("CLI")
  BY <1>6, ClientSame
<1>8. TakingTurns
  BY <1>7 DEF LockInv, Lockstep
<1>9. flight["SRV"] # <<>>
  BY <1>1, SendsSome DEF Readable
<1>10. ~Served /\ flight["CLI"] = <<>>
  BY <1>8, <1>9 DEF TakingTurns, Asking
<1>11. ~HasRequest /\ ~HasRequest'
  BY <1>3, <1>6 DEF HasRequest, BackOK, Back
<1>12. Only(flight["CLI"], Served)' /\ Only(flight["SRV"], HasRequest)'
  BY <1>6, <1>7, <1>8, <1>11 DEF TakingTurns, Only
<1> QED BY <1>6, <1>7, <1>10, <1>12 DEF TakingTurns

\* It answers: the request has been taken to its end
LEMMA ExecTurns ==
    ASSUME LockInv, ~OutOfStep, ~Failed', ShellExec
    PROVE  TakingTurns'
<1>1. /\ FlowInv /\ IoInv /\ Intact("SRV") /\ "CLI" \in open /\ "SRV" \in Ends /\ Other("SRV") = "CLI"
      /\ "CLI" \in Ends /\ RecordOK(sock["SRV"]) /\ hdr \in [Ends -> Frames \cup {NoFrame}]
      /\ flight["CLI"] \in Seq(Frames) /\ flight["SRV"] \in Seq(Frames) /\ taken \in [Ends -> Frames \cup {NoFrame}]
  BY InStepMeans, IoInvMeans DEF LockInv, Ends, Other, FlowInv, Inv, IoInv, IoTypeOK, Control
<1>2. PICK h \in Answers(hdr["SRV"]) :
        hdr' = [hdr EXCEPT !["SRV"] = h] /\ Call("SRV", frame_tx(sock["SRV"], h))
  BY DEF ShellExec
<1>3. spc = "rxPay" /\ spc' = "txHdr" /\ cpc' = cpc /\ BackOK("SRV")
  BY DEF ShellExec
<1>4. h \in Frames /\ Size(h) # 0
  <2>1. h \in Frames
    BY <1>1, AnswersType
  <2>2. h.kind \in HdrKinds
    BY DEF Answers, Hdr, HdrKinds
  <2> QED BY <2>1, <2>2 DEF Size, HdrKinds
<1>5. sock["SRV"].io = "BACK" /\ Phase("SRV") = "pay" /\ HasRequest
  BY <1>3 DEF BackOK, Back, Phase, HasRequest
<1>6. /\ sock'["CLI"] = sock["CLI"] /\ flight'["SRV"] = flight["SRV"]
      /\ flight'["CLI"] = Append(flight["CLI"], h)
  BY <1>1, <1>2, <1>4, <1>5, CallSends
<1>7. hdr'["CLI"] = hdr["CLI"]
  BY <1>1, <1>2 DEF Ends
<1>8. (Served' <=> Served) /\ ~Failed /\ Due("CLI")' = Due("CLI")
  BY <1>3, <1>6, <1>7, ClientSame
<1>9. TakingTurns
  BY <1>8 DEF LockInv, Lockstep
<1>10. ~Served /\ flight["CLI"] = <<>> /\ OnlyPayload(flight["SRV"], 1)
  BY <1>3, <1>5, <1>9 DEF TakingTurns, Only
<1>11. flight["SRV"] = <<>> /\ Due("CLI") = 0
  BY <1>1, <1>3, <1>5, <1>10, NothingOwed, NoneOnItsWay
<1>12. ~Asking'
  BY <1>6, <1>8, <1>11 DEF Asking
<1>13. Only(flight'["CLI"], FALSE) /\ \A b \in BOOLEAN : Only(<<>>, b)
  BY <1>1, <1>4, <1>6, <1>10, OnlyAppend, OnlyEmpty
<1>14. Only(flight["CLI"], Served)' /\ Only(flight["SRV"], HasRequest)'
  BY <1>6, <1>8, <1>10, <1>11, <1>13 DEF Only
<1> QED BY <1>3, <1>12, <1>14 DEF TakingTurns

\* It sends the payload of the answer, which the client has not yet taken
LEMMA ShellPayloadTurns ==
    ASSUME LockInv, ~OutOfStep, ~Failed', ShellSendPayload
    PROVE  TakingTurns'
<1> DEFINE p == Pay(hdr["SRV"].id, hdr["SRV"].len)  s == sock["SRV"]
<1>1. /\ FlowInv /\ IoInv /\ Intact("CLI") /\ "CLI" \in open /\ "SRV" \in Ends /\ Other("SRV") = "CLI"
      /\ "CLI" \in Ends /\ Other("CLI") = "SRV" /\ RecordOK(s) /\ s \in Records
      /\ hdr["SRV"] \in Frames \cup {NoFrame} /\ flight["CLI"] \in Seq(Frames)
  BY InStepMeans, IoInvMeans DEF LockInv, Ends, Other, FlowInv, Inv, IoInv, IoTypeOK, Control, RecordOK
<1>2. /\ spc = "txHdr" /\ spc' = "txPay" /\ UNCHANGED <<cpc, hdr>> /\ BackOK("SRV")
      /\ Call("SRV", frame_tx(s, p))
  BY DEF ShellSendPayload
<1>3. p \in Frames /\ p.kind = "PAYLOAD" /\ Size(p) = hdr["SRV"].len /\ hdr["SRV"].len \in Nat
  BY <1>1, FrameFields, PayType DEF Pay, Size
<1>4. s.io = "BACK" /\ Due("SRV") = hdr["SRV"].len /\ ~HasRequest /\ ~HasRequest'
  BY <1>2 DEF BackOK, Back, Due, HasRequest
<1> HIDE DEF p, s
<1>5. CASE Size(p) = 0
  <2> DEFINE r == frame_tx(s, p)
  <2>1. r.io = "BACK"
    BY <1>1, <1>5 DEF frame_tx, Records
  <2>2. Call("SRV", r)
    BY <1>2
  <2> HIDE DEF r
  <2> QED BY <1>2, <1>4, <2>1, <2>2, ShellKeepsTurns DEF s
<1>6. CASE Size(p) # 0
  <2>1. /\ sock'["CLI"] = sock["CLI"] /\ flight'["SRV"] = flight["SRV"]
        /\ flight'["CLI"] = Append(flight["CLI"], p)
    BY <1>1, <1>2, <1>3, <1>4, <1>6, CallSends DEF s
  <2>2. (Served' <=> Served) /\ ~Failed /\ Due("CLI")' = Due("CLI")
    BY <1>2, <2>1, ClientSame
  <2>3. TakingTurns
    BY <2>2 DEF LockInv, Lockstep
  <2>4. ~Asking
    <3> SUFFICES ASSUME Asking PROVE FALSE
      OBVIOUS
    <3>1. ~Served /\ flight["CLI"] = <<>>
      BY <1>2, <2>3 DEF TakingTurns
    <3>2. Owed(taken["CLI"]) = 0
      BY <1>1, <2>2, <3>1, UnservedOwesNothing
    <3>3. Owed(LastOf(taken["CLI"], flight["CLI"])) = Due("SRV")
      BY <1>1 DEF FlowInv, Flow, InFlow
    <3> QED BY <1>3, <1>4, <1>6, <3>1, <3>2, <3>3 DEF LastOf
  <2>5. ~Asking'
    BY <2>1, <2>2, <2>4 DEF Asking
  <2>6. Only(flight'["CLI"], Served)
    BY <1>1, <1>3, <2>1, <2>3, OnlyAppend DEF TakingTurns
  <2>7. Only(flight["CLI"], Served)' /\ Only(flight["SRV"], HasRequest)'
    BY <1>2, <1>4, <2>1, <2>2, <2>3, <2>6 DEF TakingTurns, Only
  <2> QED BY <1>2, <2>5, <2>7 DEF TakingTurns
<1> QED BY <1>5, <1>6

\* An exchange fails: the client is told, which waits for an answer
LEMMA ErrorTurns ==
    ASSUME LockInv, ~OutOfStep, ~Failed', ShellFails, spc' = "txErr"
    PROVE  TakingTurns'
<1> DEFINE h == Hdr("ERROR", 0, 0)
<1>1. /\ FlowInv /\ IoInv /\ "CLI" \in open /\ "SRV" \in Ends /\ Other("SRV") = "CLI" /\ "CLI" \in Ends
      /\ hdr \in [Ends -> Frames \cup {NoFrame}] /\ flight["CLI"] \in Seq(Frames)
  BY InStepMeans DEF LockInv, Ends, Other, FlowInv, Inv, Control
<1>2. /\ spc \in {"rxHdr", "rxPay", "txHdr", "txPay"} /\ sock["SRV"].io = "BACK"
      /\ sock["SRV"].state # "OK" \/ spc \in {"rxHdr", "rxPay"}
      /\ hdr' = [hdr EXCEPT !["SRV"] = NoFrame] /\ cpc' = cpc /\ Call("SRV", frame_tx(Fresh, h))
  BY DEF ShellFails, Back
<1>3. h \in Frames /\ Size(h) # 0
  BY HdrType DEF Hdr, HdrKinds, Size
<1> HIDE DEF h
<1>4. /\ sock'["CLI"] = sock["CLI"] /\ flight'["CLI"] = Append(flight["CLI"], h)
  BY <1>1, <1>2, <1>3, FreshOK, CallSends
<1>5. hdr'["CLI"] = hdr["CLI"]
  BY <1>1, <1>2 DEF Ends
<1>6. (Served' <=> Served) /\ ~Failed
  BY <1>2, <1>4, <1>5, ClientSame
<1>7. TakingTurns
  BY <1>6 DEF LockInv, Lockstep
<1>8. spc \in {"rxHdr", "rxPay"}
  <2>1. spc \in {"txHdr", "txPay"} => Phase("SRV") = "send" /\ sock["SRV"].state # "OK"
    BY <1>2 DEF Phase
  <2> QED BY <1>1, <1>2, <2>1, FailedSend
<1>9. ~Served /\ flight["CLI"] = <<>>
  BY <1>7, <1>8 DEF TakingTurns
<1>10. Len(flight'["CLI"]) = 1
  BY <1>4, <1>9
<1>11. Only(flight'["CLI"], FALSE)
  BY <1>1, <1>3, <1>4, <1>9, OnlyAppend
<1>12. Only(flight["CLI"], Served)'
  BY <1>6, <1>9, <1>11 DEF Only
<1> QED BY <1>6, <1>9, <1>10, <1>12 DEF TakingTurns

\* It is in the loop of a frame function
LEMMA ShellLoopTurns ==
    ASSUME LockInv, ~OutOfStep, ~OutOfStep', ~Failed', Loop("SRV")
    PROVE  TakingTurns'
<1> DEFINE e == "SRV"  s == sock["SRV"]  t == sock'["SRV"]  q == flight["SRV"]
<1>1. /\ FlowInv /\ IoInv /\ "SRV" \in Ends /\ "CLI" \in Ends /\ Other("SRV") = "CLI" /\ SteadyEnd("SRV") /\ Intact("SRV")
      /\ q \in Seq(Frames) /\ flight \in [Ends -> Seq(Frames)] /\ broken' = {} /\ UNCHANGED <<cpc, spc, hdr>>
  BY InStepMeans DEF LockInv, Ends, Other, OutOfStep, Loop
<1>2. /\ sock'["CLI"] = sock["CLI"]
      /\ TurnSends(e) \/ TurnWaits(e) \/ TurnTakes(e) \/ TurnGivesUp(e)
  BY <1>1, Turn DEF Loop
<1>3. (Served' <=> Served) /\ ~Failed /\ Due("CLI")' = Due("CLI")
  BY <1>1, <1>2, ClientSame
<1>4. Conduct(Phase(e), s, Other(e) \in open)
  BY <1>1 DEF SteadyEnd
<1>5. TakingTurns
  BY <1>3 DEF LockInv, Lockstep
<1>6. CASE TurnSends(e) \/ TurnWaits(e) \/ TurnGivesUp(e)
  <2>1. flight' = flight /\ (t.io = "SEND" => s.io = "SEND")
    BY <1>6 DEF TurnSends, TurnWaits, TurnGivesUp, Receiving
  <2>2. HasRequest' <=> HasRequest
    <3>1. CASE TurnSends(e)
      <4>1. spc \notin {"rxHdr", "rxPay"}
        BY <1>4, <3>1 DEF TurnSends, Conduct, Phase
      <4> QED BY <1>1, <4>1 DEF HasRequest
    <3>2. CASE TurnWaits(e)
      <4>1. ~BackOK(e) /\ ~BackOK(e)'
        BY <3>2 DEF TurnWaits, Receiving, BackOK, Back
      <4> QED BY <1>1, <4>1 DEF HasRequest
    <3>3. CASE TurnGivesUp(e)
      <4>1. ~BackOK(e) /\ ~BackOK(e)'
        BY <1>1, <3>3 DEF TurnGivesUp, Receiving, BackOK, Back
      <4> QED BY <1>1, <4>1 DEF HasRequest
    <3> QED BY <1>6, <3>1, <3>2, <3>3
  <2>3. Asking' <=> Asking
    BY <1>3, <2>1 DEF Asking
  <2> QED BY <1>1, <1>3, <1>5, <2>1, <2>2, <2>3, TurnsKept
<1>7. CASE TurnTakes(e)
  <2>1. q # <<>> /\ flight'[e] = Tail(q) /\ flight'["CLI"] = flight["CLI"]
    <3>1. flight'["CLI"] = flight["CLI"]
      BY <1>1, <1>7 DEF TurnTakes
    <3> QED BY <1>1, <1>7, <3>1, TakesFrame
  <2>2. Receiving(s) /\ t.io = "BACK"
    BY <1>7 DEF TurnTakes
  <2>3. spc \in {"rxHdr", "rxPay"}
    BY <1>4, <2>2 DEF Conduct, Phase
  <2>4. ~Served /\ flight["CLI"] = <<>>
    BY <1>5, <2>3 DEF TakingTurns
  <2>5. Only(q, HasRequest)
    BY <1>5, <2>3 DEF TakingTurns
  <2>6. Only(flight["SRV"], HasRequest)'
    BY <1>1, <2>1, <2>5, OnlyTail
  <2>7. Only(flight["CLI"], Served)'
    BY <1>3, <1>5, <2>1 DEF TakingTurns, Only
  <2> QED BY <1>1, <1>3, <2>1, <2>2, <2>3, <2>4, <2>6, <2>7 DEF TakingTurns
<1> QED BY <1>2, <1>6, <1>7

LEMMA ShellTurns ==
    ASSUME LockInv, ~OutOfStep, ~OutOfStep', ~Failed', ShellStep
    PROVE  TakingTurns'
<1>1. IoInv /\ sock["SRV"] \in Records /\ FlowInv /\ "SRV" \in Ends /\ broken' = {}
      /\ hdr \in [Ends -> Frames \cup {NoFrame}] /\ "CLI" \in Ends
  BY DEF LockInv, FlowInv, Inv, IoInv, IoTypeOK, Ends, OutOfStep, Control
<1>2. CASE Loop("SRV")
  BY <1>2, ShellLoopTurns
<1>3. ASSUME UNCHANGED <<io_vars, cpc, hdr>>, spc \in {"top", "wait"}, spc' \in {"top", "wait"}
      PROVE  TakingTurns'
  <2>1. (Served' <=> Served) /\ ~Failed /\ Due("CLI")' = Due("CLI")
    BY <1>3, ClientSame DEF io_vars
  <2>2. (Asking' <=> Asking) /\ (HasRequest' <=> HasRequest)
    BY <1>3, <2>1 DEF Asking, HasRequest, io_vars
  <2>3. TakingTurns
    BY <2>1 DEF LockInv, Lockstep
  <2> QED BY <1>3, <2>1, <2>2, <2>3, TurnsKept DEF io_vars
<1>4. CASE socket_close("SRV")
  BY <1>1, <1>4 DEF socket_close
<1>5. CASE ShellTop
  BY <1>3, <1>4, <1>5 DEF ShellTop
<1>6. CASE FrameWait
  BY <1>3, <1>4, <1>6, FrameWaitTurns DEF FrameWait
<1>7. CASE ShellReadPayload
  <2> DEFINE r == frame_rx_until(sock["SRV"], Received("SRV").len)
  <2>1. /\ spc = "rxHdr" /\ spc' = "rxPay" /\ cpc' = cpc /\ BackOK("SRV") /\ Call("SRV", r)
        /\ hdr' = [hdr EXCEPT !["SRV"] = Received("SRV")]
    BY <1>7 DEF ShellReadPayload
  <2>2. r.io = "BACK" \/ (r.io = "RECV" /\ r.inp = <<>>)
    BY <1>1, ReceivedType, RxStarts
  <2>3. r.io = "BACK" \/ (Receiving(r) /\ r.inp = <<>>)
    BY <2>2 DEF Receiving
  <2> HIDE DEF r
  <2>4. hdr'["CLI"] = hdr["CLI"]
    BY <1>1, <2>1 DEF Ends
  <2>5. HasRequest /\ HasRequest' /\ sock["SRV"].io = "BACK"
    BY <2>1 DEF HasRequest, BackOK, Back
  <2> QED BY <2>1, <2>3, <2>4, <2>5, ShellKeepsTurns
<1>8. CASE ShellDone
  <2>1. /\ spc = "txPay" /\ spc' = "top" /\ cpc' = cpc /\ BackOK("SRV") /\ Call("SRV", Fresh)
        /\ hdr' = [hdr EXCEPT !["SRV"] = NoFrame]
    BY <1>8 DEF ShellDone
  <2>2. hdr'["CLI"] = hdr["CLI"]
    BY <1>1, <2>1 DEF Ends
  <2>3. ~HasRequest /\ ~HasRequest' /\ sock["SRV"].io = "BACK" /\ Fresh.io = "BACK"
    BY <2>1 DEF HasRequest, BackOK, Back, Fresh
  <2> QED BY <2>1, <2>2, <2>3, ShellKeepsTurns
<1>9. CASE ShellFails
  <2>1. spc' = "txErr" \/ socket_close("SRV")
    BY <1>9 DEF ShellFails
  <2> QED BY <1>4, <1>9, <2>1, ErrorTurns
<1>10. CASE ShellEnd
  BY <1>4, <1>10 DEF ShellEnd
<1> QED BY <1>2, <1>5, <1>6, <1>7, <1>8, <1>9, <1>10, ExecTurns, ShellPayloadTurns DEF ShellStep

LEMMA LockStep == LockInv /\ [Next]_vars => LockInv'
<1> SUFFICES ASSUME LockInv, [Next]_vars, ~OutOfStep', ~Failed' PROVE TakingTurns'
  BY FlowStep DEF LockInv, Lockstep
<1>1. ~OutOfStep /\ FlowInv
  BY StaysInStep DEF LockInv
<1>2. ASSUME UNCHANGED <<cpc, spc, hdr, flight>>,
             \A e \in Ends : sock'[e].io = sock[e].io /\ sock'[e].state = sock[e].state
      PROVE  TakingTurns'
  <2>1. "CLI" \in Ends /\ "SRV" \in Ends
    BY DEF Ends
  <2>2. /\ Served' <=> Served
        /\ Failed' <=> Failed
        /\ HasRequest' <=> HasRequest
        /\ Asking' <=> Asking
    BY <1>2, <2>1 DEF Served, Failed, HasRequest, Asking, Phase, Due, BackOK, Back
  <2>3. TakingTurns
    BY <1>1, <2>2 DEF LockInv, Lockstep
  <2> QED BY <1>2, <2>1, <2>2, <2>3, TurnsKept
<1>3. CASE Time
  <2>1. /\ flight' = flight
        /\ \A e \in Ends : sock'[e].io = sock[e].io /\ sock'[e].state = sock[e].state
    BY <1>1, <1>3, TickStream DEF Time, FlowInv, Inv
  <2> QED BY <1>2, <1>3, <2>1 DEF Time
<1>4. CASE Stop \/ UNCHANGED vars
  BY <1>2, <1>4 DEF Stop, vars, io_vars
<1> QED BY <1>1, <1>3, <1>4, ClientTurns, ShellTurns DEF Next, AppStep

LEMMA LockInit == Init => LockInv
<1> SUFFICES ASSUME Init PROVE LockInv
  OBVIOUS
<1>1. /\ flight["CLI"] = <<>> /\ flight["SRV"] = <<>> /\ cpc = "idle" /\ spc = "top"
  BY DEF Init, IoInit, Ends
<1>2. Due("CLI") = 0 /\ sock["SRV"].io = "BACK"
  BY <1>1 DEF Due, Init, IoInit, Fresh, Ends
<1>3. Only(<<>>, TRUE) /\ Only(<<>>, FALSE)
  BY OnlyEmpty
<1>4. TakingTurns
  BY <1>1, <1>2, <1>3 DEF TakingTurns, Asking, Only
<1> QED BY <1>4, FlowInit DEF LockInv, Lockstep

\* Where the ends are in step, one of two ends that wait for room has none to
\* send to
LEMMA HeldMeans == LockInv => HeldOnlyOutOfStep
<1> SUFFICES ASSUME LockInv, Held("SRV"), cpc = "idle" \/ Held("CLI"), ~OutOfStep PROVE FALSE
  BY DEF HeldOnlyOutOfStep
<1> DEFINE e == "CLI"  q == flight["CLI"]
<1>1. /\ FlowInv /\ IoInv /\ "SRV" \in Ends /\ "CLI" \in Ends /\ Other("SRV") = "CLI" /\ Other("CLI") = "SRV"
      /\ Intact("SRV") /\ Intact("CLI") /\ SteadyEnd("CLI") /\ q \in Seq(Frames)
  BY InStepMeans DEF LockInv, Ends, Other
<1>2. sock["SRV"].io = "SEND" /\ Len(wire["CLI"]) = BufSize
  BY <1>1 DEF Held
<1>3. q # <<>>
  BY <1>1, <1>2, SendsSome
<1>4. ~Failed
  BY DEF Failed, Held, Back
<1>5. TakingTurns
  BY <1>4 DEF LockInv, Lockstep
<1>6. CASE cpc = "idle"
  <2>1. Served /\ Phase("CLI") = "rest"
    BY <1>6 DEF Served, Phase
  <2>2. OnlyPayload(q, 1)
    BY <1>5, <2>1 DEF TakingTurns, Only
  <2> QED BY <1>1, <1>3, <2>1, <2>2, NothingOwed, NoneOnItsWay
<1>7. CASE Held("CLI")
  <2>1. sock["CLI"].io = "SEND"
    BY <1>7 DEF Held
  <2>2. flight["SRV"] # <<>>
    BY <1>1, <2>1, SendsSome
  <2>3. spc = "txErr"
    BY <1>3, <1>5, <2>2 DEF TakingTurns, Asking
  <2>4. Len(q) = 1
    BY <1>2, <1>5, <2>3 DEF TakingTurns
  <2>5. Phase("CLI") = "send"
    BY <1>1, <2>1 DEF SteadyEnd, Conduct, Phase
  <2>6. /\ Stream(e) \in Seq(WireBytes) /\ Laid(q, Stream(e)) /\ taken[e] \in Frames \cup {NoFrame}
        /\ InTurn(taken[e], q) /\ Owed(taken[e]) = 0
    BY <1>1, <2>5, StreamType, NothingOwed DEF FlowInv, Flow, InFlow
  <2>7. Len(Stream(e)) = Size(q[1])
    BY <1>1, <2>4, <2>6, LaidOne
  <2>8. Follows(taken[e], q[1]) /\ q[1] \in Frames
    <3>1. 1 \in 1 .. Len(q)
      BY <2>4
    <3>2. Follows(taken[e], q[1])
      BY <2>6, <3>1 DEF InTurn
    <3> QED BY <1>1, <3>1, <3>2
  <2>9. Size(q[1]) = HdrSize
    BY <2>6, <2>8 DEF Follows, Size, HdrKinds
  <2> DEFINE g == Got(sock[e])  w == wire[e]  r == Rest(sock["SRV"])
  <2>10. /\ g \in Seq(WireBytes) /\ w \in Seq(WireBytes) /\ r \in Seq(WireBytes)
         /\ Stream(e) = (g \o w) \o r
    BY <1>1, StreamType DEF Stream
  <2>11. r # <<>>
    BY <1>1, <1>2, IoInvMeans, RestIs
  <2> HIDE DEF g, w, r
  <2>12. Len(Stream(e)) = (Len(g) + Len(w)) + Len(r)
    BY <2>10, ConcatProperties
  <2> DEFINE i == Len(g)  j == Len(w)  k == Len(r)
  <2>13. i \in Nat /\ j \in Nat /\ k \in Nat /\ k # 0
    BY <2>10, <2>11
  <2>14. HdrSize = (i + j) + k /\ j = BufSize
    BY <1>2, <2>7, <2>9, <2>12 DEF w
  <2> HIDE DEF i, j, k
  <2> QED BY <2>13, <2>14
<1> QED BY <1>6, <1>7

\* A send has no deadline.  Still no shell is held by a client that makes no
\* call, and shell and client never wait both for room that the other has to
\* make, unless a Sync failed on the connection or a stream was cut: the shell
\* answers a request that it has taken to its end, and the CMD_ERROR that it
\* sends instead, before the end, fits in any buffer.
THEOREM HeldOutOfStep == Spec => []HeldOnlyOutOfStep
BY LockInit, LockStep, HeldMeans, PTL DEF Spec

=============================================================================
