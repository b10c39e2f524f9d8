---------------------------- MODULE FrameChannel ----------------------------
(***************************************************************************)
(* What frame_tx and frame_rx of src/dev/common/src/SockServerClient.cpp   *)
(* promise together, for one direction of one connection: the frames put   *)
(* on the connection come out whole, in order, none lost, repeated or      *)
(* mixed with another.  The promise ends when the channel breaks: an end   *)
(* is closed, a receive gave up in the middle of a frame, or a Sync        *)
(* failed, which leaves a payload that its answer announced unread.        *)
(*                                                                         *)
(* SockTransaction takes this for granted; FrameExchange, where a          *)
(* connection is two streams of bytes, is shown to implement it.           *)
(***************************************************************************)
EXTENDS Sequences

CONSTANTS
    Frames,     \* what can be sent
    Nothing     \* what the receiver holds before its first frame

VARIABLES
    queue,      \* frames given to frame_tx and not yet received
    last,       \* the frame received last
    broken      \* the two ends need not agree any more

vars == <<queue, last, broken>>

Init == queue = <<>> /\ last = Nothing /\ broken = FALSE

Send ==
    /\ \E f \in Frames : queue' = Append(queue, f)
    /\ UNCHANGED <<last, broken>>

Deliver ==
    /\ queue # <<>>
    /\ last' = Head(queue) /\ queue' = Tail(queue)
    /\ UNCHANGED broken

\* Nothing is promised of a broken channel, and it stays broken
Break == broken' = TRUE

Next == Send \/ Deliver \/ Break

Spec == Init /\ [][Next]_vars

=============================================================================
