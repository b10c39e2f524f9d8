----------------------- MODULE SockTransactionRemote ------------------------
(***************************************************************************)
(* ExecsBounded of SockTransaction, for every value of its constants: the  *)
(* invariant adds to the executions of a request the connections that      *)
(* carry it still, and the sending that the client is about to make.       *)
(*                                                                         *)
(* With it, SockTransaction implements RemoteCall: every step of the       *)
(* client, of a shell or of the service is a step of RemoteCall under the  *)
(* mapping of Remote, or leaves it unchanged.                              *)
(***************************************************************************)
EXTENDS SockTransactionInStep

USE ConnsAssumption, MaxOpsAssumption DEF Ops

-----------------------------------------------------------------------------
(* Requests in a queue *)

Asks(u, o) == u.cmd = "REQUEST" /\ u.id = o

Has(q, o) == \E i \in DOMAIN q : Asks(q[i], o)

\* No request is in the queue twice
Once(q) == \A o \in Ops : \A i, j \in DOMAIN q : Asks(q[i], o) /\ Asks(q[j], o) => i = j

LEMMA HasEmpty == ASSUME NEW o PROVE ~Has(<<>>, o) /\ Once(<<>>)
BY DEF Has, Once

LEMMA HasAppend ==
    ASSUME NEW q \in Seq(Units), NEW u \in Units, NEW o
    PROVE  /\ Has(Append(q, u), o) => Has(q, o) \/ Asks(u, o)
           /\ Once(q) /\ (\A p \in Ops : Asks(u, p) => ~Has(q, p)) => Once(Append(q, u))
<1>1. DOMAIN Append(q, u) = DOMAIN q \cup {Len(q) + 1}
  OBVIOUS
<1>2. \A i \in DOMAIN q : Append(q, u)[i] = q[i]
  OBVIOUS
<1>3. Append(q, u)[Len(q) + 1] = u
  OBVIOUS
<1> DEFINE r == Append(q, u)
<1> HIDE DEF r
<1>4. /\ DOMAIN r = DOMAIN q \cup {Len(q) + 1} /\ r[Len(q) + 1] = u
      /\ \A i \in DOMAIN q : r[i] = q[i]
  BY <1>1, <1>2, <1>3 DEF r
<1>5. /\ Has(r, o) => Has(q, o) \/ Asks(u, o)
      /\ Once(q) /\ (\A p \in Ops : Asks(u, p) => ~Has(q, p)) => Once(r)
  <2>1. Has(r, o) => Has(q, o) \/ Asks(u, o)
    BY <1>4 DEF Has
  <2>2. ASSUME Once(q), \A p \in Ops : Asks(u, p) => ~Has(q, p),
               NEW p \in Ops, NEW i \in DOMAIN r, NEW j \in DOMAIN r, Asks(r[i], p), Asks(r[j], p)
        PROVE  i = j
    BY <1>4, <2>2 DEF Once, Has
  <2> QED BY <2>1, <2>2 DEF Once
<1> QED BY <1>5 DEF r

LEMMA HasTail ==
    ASSUME NEW q \in Seq(Units), q # <<>>, NEW o
    PROVE  /\ Has(Tail(q), o) => Has(q, o)
           /\ Asks(Head(q), o) => Has(q, o)
           /\ Once(q) => Once(Tail(q))
           /\ Once(q) /\ o \in Ops /\ Asks(Head(q), o) => ~Has(Tail(q), o)
<1>1. /\ Len(q) \in Nat \ {0} /\ DOMAIN q = 1 .. Len(q) /\ Head(q) = q[1]
      /\ DOMAIN Tail(q) = 1 .. Len(q) - 1
  OBVIOUS
<1>2. \A i \in DOMAIN Tail(q) : Tail(q)[i] = q[i + 1] /\ i + 1 \in DOMAIN q /\ i + 1 # 1
  BY <1>1
<1> DEFINE t == Tail(q)
<1> HIDE DEF t
<1>3. \A i \in DOMAIN t : t[i] = q[i + 1] /\ i + 1 \in DOMAIN q /\ i + 1 # 1 /\ i \in Int
  BY <1>1, <1>2 DEF t
<1>4. Has(t, o) => Has(q, o)
  BY <1>3 DEF Has
<1>5. Asks(Head(q), o) => Has(q, o)
  BY <1>1 DEF Has
<1>6. ASSUME Once(q), NEW p \in Ops, NEW i \in DOMAIN t, NEW j \in DOMAIN t,
             Asks(t[i], p), Asks(t[j], p)
      PROVE  i = j
  <2>1. i + 1 = j + 1
    BY <1>3, <1>6 DEF Once
  <2> QED BY <1>3, <2>1
<1>7. Once(q) => Once(t)
  BY <1>6 DEF Once
<1>8. Once(q) /\ o \in Ops /\ Asks(Head(q), o) => ~Has(t, o)
  BY <1>1, <1>3 DEF Once, Has
<1> QED BY <1>4, <1>5, <1>7, <1>8 DEF t

-----------------------------------------------------------------------------
(* The invariant *)

\* The shell of c has read request o and not started the handler
InShell(c, o) == spc[c] \in {"rxPay", "rxPayLoop", "exec"} /\ Asks(tr[c].inp, o)

Carries(c, o) == Has(up[c], o) \/ InShell(c, o)
Carrying(o) == {c \in Conns : Carries(c, o)}

ToSend(o) == IF cpc = "txHdr" /\ call = "TRANSACTION" /\ op = o THEN 1 ELSE 0

Counted ==
    \A o \in Ops : /\ IsFiniteSet(Carrying(o))
                   /\ execs[o] + Cardinality(Carrying(o)) + ToSend(o) <= attempts[o]

\* A connection carries a request once
CarriedOnce ==
    \A c \in Conns : /\ Once(up[c])
                     /\ \A o \in Ops : InShell(c, o) => ~Has(up[c], o)

\* What comes next was never sent, and a retry has a connection of its own
Unsent ==
    /\ \A o \in Ops : o > op => attempts[o] = 0
    /\ cpc = "txHdr" /\ call = "TRANSACTION" /\ m_sock \in Conns => ~Carries(m_sock, op)

ExecsInv == Counted /\ CarriedOnce /\ Unsent

LEMMA CarryingNat ==
    ASSUME TypeOK, Counted, NEW o \in Ops
    PROVE  /\ IsFiniteSet(Carrying(o)) /\ Cardinality(Carrying(o)) \in Nat
           /\ execs[o] \in Nat /\ attempts[o] \in Nat /\ ToSend(o) \in {0, 1}
<1>1. IsFiniteSet(Carrying(o)) /\ Cardinality(Carrying(o)) \in Nat
  BY FS_CardinalityType DEF Counted
<1>2. execs \in [Ops -> Nat] /\ attempts \in [Ops -> 0 .. 2]
  BY DEF TypeOK
<1>3. execs[o] \in Nat /\ attempts[o] \in Nat
  BY <1>2
<1> QED BY <1>1, <1>3 DEF ToSend

\* Where connections carry no more than before and the client sends nothing
LEMMA CountedFrame ==
    ASSUME TypeOK, ExecsInv, UNCHANGED <<execs, attempts, op>>,
           \A o \in Ops : ToSend(o)' <= ToSend(o),
           \A c \in Conns : \A o \in Ops : Carries(c, o)' => Carries(c, o)
    PROVE  Counted'
<1> SUFFICES ASSUME NEW o \in Ops
             PROVE  /\ IsFiniteSet(Carrying(o)')
                    /\ execs[o] + Cardinality(Carrying(o)') + ToSend(o)' <= attempts[o]
  BY DEF Counted
<1>1. Carrying(o)' \subseteq Carrying(o)
  BY DEF Carrying
<1>2. /\ IsFiniteSet(Carrying(o)') /\ Cardinality(Carrying(o)') <= Cardinality(Carrying(o))
      /\ Cardinality(Carrying(o)') \in Nat
  BY <1>1, CarryingNat, FS_Subset, FS_CardinalityType DEF ExecsInv
<1>3. ToSend(o)' \in {0, 1} /\ ToSend(o)' <= ToSend(o)
  BY DEF ToSend
<1>4. execs[o] + Cardinality(Carrying(o)) + ToSend(o) <= attempts[o]
  BY DEF ExecsInv, Counted
<1> QED BY <1>2, <1>3, <1>4, CarryingNat DEF ExecsInv

\* What most steps do to a connection: it stays, becomes empty, loses the unit
\* that its shell reads, or gets one that is not a request
Kept(c) == up'[c] = up[c] /\ \A o \in Ops : InShell(c, o)' => InShell(c, o)
Emptied(c) == up'[c] = <<>> /\ \A o \in Ops : ~InShell(c, o)'
Read(c) ==
    /\ up[c] # <<>> /\ up'[c] = Tail(up[c])
    /\ \A o \in Ops : InShell(c, o)' => InShell(c, o) \/ Asks(Head(up[c]), o)
Written(c) ==
    \E u \in Units : /\ up'[c] = Append(up[c], u)
                     /\ \A o \in Ops : ~Asks(u, o) /\ (InShell(c, o)' => InShell(c, o))

LEMMA OneConnection ==
    ASSUME TypeOK, CarriedOnce, NEW c \in Conns, Kept(c) \/ Emptied(c) \/ Read(c) \/ Written(c)
    PROVE  /\ \A o \in Ops : Carries(c, o)' => Carries(c, o)
           /\ Once(up[c])' /\ \A o \in Ops : InShell(c, o)' => ~Has(up[c], o)'
<1>0. up[c] \in Seq(Units) /\ Once(up[c]) /\ \A o \in Ops : InShell(c, o) => ~Has(up[c], o)
  BY DEF TypeOK, CarriedOnce
<1>1. CASE Kept(c)
  BY <1>0, <1>1 DEF Kept, Carries, Has, Once
<1>2. CASE Emptied(c)
  BY <1>2, HasEmpty DEF Emptied, Carries
<1>3. CASE Read(c)
  <2>1. Once(up[c])' /\ \A o \in Ops : Has(up[c], o)' => Has(up[c], o)
    BY <1>0, <1>3, HasTail DEF Read
  <2>2. ASSUME NEW o \in Ops, InShell(c, o)' PROVE Carries(c, o) /\ ~Has(up[c], o)'
    BY <1>0, <1>3, <2>1, <2>2, HasTail DEF Read, Carries
  <2> QED BY <2>1, <2>2 DEF Carries
<1>4. CASE Written(c)
  <2>1. PICK u \in Units :
          /\ up'[c] = Append(up[c], u)
          /\ \A o \in Ops : ~Asks(u, o) /\ (InShell(c, o)' => InShell(c, o))
    BY <1>4 DEF Written
  <2>2. Once(up[c])' /\ \A o \in Ops : Has(up[c], o)' => Has(up[c], o)
    BY <1>0, <2>1, HasAppend
  <2> QED BY <1>0, <2>1, <2>2 DEF Carries
<1> QED BY <1>1, <1>2, <1>3, <1>4

LEMMA ExecsFrame ==
    ASSUME TypeOK, ExecsInv, UNCHANGED <<execs, attempts, op>>,
           cpc' = "txHdr" /\ call' = "TRANSACTION" =>
               cpc = "txHdr" /\ call = "TRANSACTION" /\ m_sock' = m_sock,
           \A c \in Conns : Kept(c) \/ Emptied(c) \/ Read(c) \/ Written(c)
    PROVE  ExecsInv'
<1>0. \A o \in Ops : ToSend(o)' <= ToSend(o)
  BY DEF ToSend
<1>1. \A c \in Conns : \A o \in Ops : Carries(c, o)' => Carries(c, o)
  BY OneConnection DEF ExecsInv
<1>2. Counted'
  BY <1>0, <1>1, CountedFrame
<1>3. CarriedOnce'
  BY OneConnection DEF ExecsInv, CarriedOnce
<1>4. Unsent'
  BY <1>1 DEF ExecsInv, Unsent, TypeOK
<1> QED BY <1>2, <1>3, <1>4 DEF ExecsInv

-----------------------------------------------------------------------------
(* The shells *)

LEMMA ShellReads ==
    ASSUME TypeOK, NEW c \in Conns, ShellReadPrefix(c) \/ ShellReadPayload(c)
    PROVE  Kept(c) \/ Read(c)
<1>0. /\ spc \in [Conns -> ShellPCs] /\ tr \in [Conns -> Trs] /\ up \in [Conns -> Seq(Units)]
  BY DEF TypeOK, Trs
<1>1. CASE spc'[c] = "close"
  <2>1. \A o \in Ops : ~InShell(c, o)'
    BY <1>1 DEF InShell
  <2>2. up'[c] = up[c] \/ (up[c] # <<>> /\ up'[c] = Tail(up[c]))
    BY <1>0 DEF ShellReadPrefix, ShellReadPayload, ShellTakes, ShellRxFails
  <2> QED BY <2>1, <2>2 DEF Kept, Read
<1>2. CASE spc'[c] # "close" /\ ShellReadPrefix(c)
  <2>1. ShellTakes(c, Head(up[c])) /\ Stage(c, [tr[c] EXCEPT !.inp = Head(up[c])], "OK", "rxPay")
    BY <1>0, <1>2 DEF ShellReadPrefix, Stage
  <2>2. tr'[c].inp = Head(up[c])
    BY <1>0, <2>1 DEF Stage, Trs
  <2> QED BY <1>0, <2>1, <2>2 DEF ShellTakes, Read, InShell
<1>3. CASE spc'[c] # "close" /\ ShellReadPayload(c)
  <2>1. \/ ShellTakes(c, Head(up[c])) /\ Stage(c, [tr[c] EXCEPT !.pay = Head(up[c]).id], "OK", "exec")
        \/ UNCHANGED up /\ Stage(c, tr[c], "OK", "exec")
    BY <1>0, <1>3 DEF ShellReadPayload, Stage
  <2>2. tr'[c].inp = tr[c].inp /\ spc[c] = "rxPayLoop"
    BY <1>0, <1>3, <2>1 DEF Stage, Trs, ShellReadPayload
  <2> QED BY <1>0, <2>1, <2>2 DEF ShellTakes, Kept, Read, InShell
<1> QED BY <1>1, <1>2, <1>3

\* A shell that starts the handler is one connection fewer that carries it
LEMMA HandlerStarts ==
    ASSUME TypeOK, ExecsInv, NEW c \in Conns, ShellCmdExec(c), tr[c].inp.cmd = "REQUEST"
    PROVE  ExecsInv'
<1> DEFINE i == tr[c].inp.id
<1>0. /\ spc \in [Conns -> ShellPCs] /\ tr \in [Conns -> Trs] /\ execs \in [Ops -> Nat]
      /\ attempts \in [Ops -> 0 .. 2] /\ i \in Ops
  BY DEF TypeOK, Trs, Prefixes
<1>1. /\ UNCHANGED <<cpc, call, op, attempts, m_sock, up>> /\ InShell(c, i)
      /\ spc' = [spc EXCEPT ![c] = "handler"] /\ UNCHANGED tr
      /\ execs' = [execs EXCEPT ![i] = @ + 1]
  BY <1>0 DEF ShellCmdExec, client, network, Stage, InShell, Asks
<1>2. \A d \in Conns, o \in Ops : UNCHANGED Has(up[d], o) /\ (InShell(d, o)' <=> d # c /\ InShell(d, o))
  BY <1>0, <1>1 DEF InShell
<1>3. \A d \in Conns, o \in Ops : Carries(d, o)' => Carries(d, o)
  BY <1>2 DEF Carries
<1>4. CarriedOnce' /\ Unsent'
  <2>1. \A d \in Conns : UNCHANGED Once(up[d])
    BY <1>1 DEF Once
  <2>2. CarriedOnce'
    BY <1>2, <2>1 DEF ExecsInv, CarriedOnce
  <2> QED BY <1>1, <1>3, <2>2 DEF ExecsInv, Unsent, TypeOK
<1>5. ASSUME NEW o \in Ops
      PROVE  /\ IsFiniteSet(Carrying(o)')
             /\ execs'[o] + Cardinality(Carrying(o)') + ToSend(o)' <= attempts'[o]
  <2>0. /\ execs[o] + Cardinality(Carrying(o)) + ToSend(o) <= attempts[o]
        /\ IsFiniteSet(Carrying(o)) /\ Cardinality(Carrying(o)) \in Nat
        /\ execs[o] \in Nat /\ attempts[o] \in Nat
    BY CarryingNat DEF ExecsInv, Counted
  <2>1. ToSend(o)' = ToSend(o) /\ ToSend(o) \in {0, 1}
    BY <1>1 DEF ToSend
  <2>2. CASE o = i
    <3>1. Carrying(o)' = Carrying(o) \ {c} /\ c \in Carrying(o)
      BY <1>1, <1>2, <2>2 DEF Carrying, Carries, ExecsInv, CarriedOnce
    <3>2. IsFiniteSet(Carrying(o)') /\ Cardinality(Carrying(o)') = Cardinality(Carrying(o)) - 1
      BY <2>0, <3>1, FS_RemoveElement
    <3>3. execs'[o] = execs[o] + 1
      BY <1>0, <1>1, <2>2
    <3> QED BY <1>1, <2>0, <2>1, <3>2, <3>3
  <2>3. CASE o # i
    <3>1. Carrying(o)' \subseteq Carrying(o)
      BY <1>3 DEF Carrying
    <3>2. IsFiniteSet(Carrying(o)') /\ Cardinality(Carrying(o)') <= Cardinality(Carrying(o))
          /\ Cardinality(Carrying(o)') \in Nat
      BY <2>0, <3>1, FS_Subset, FS_CardinalityType
    <3>3. execs'[o] = execs[o]
      BY <1>0, <1>1, <2>3
    <3> QED BY <1>1, <2>0, <2>1, <3>2, <3>3
  <2> QED BY <2>2, <2>3
<1> QED BY <1>4, <1>5 DEF ExecsInv, Counted

LEMMA ShellExecs ==
    ASSUME Typing, ExecsInv, NEW c \in Conns, ShellStep(c) \/ HandlerReturns(c)
    PROVE  ExecsInv'
<1>0. /\ TypeOK /\ spc \in [Conns -> ShellPCs] /\ tr \in [Conns -> Trs]
      /\ up \in [Conns -> Seq(Units)]
  BY DEF Typing, TypeOK, Trs
<1>1. CASE ShellCmdExec(c) /\ tr[c].inp.cmd = "REQUEST"
  BY <1>0, <1>1, HandlerStarts
<1>2. CASE ~(ShellCmdExec(c) /\ tr[c].inp.cmd = "REQUEST")
  <2>1. UNCHANGED <<cpc, call, op, attempts, m_sock, execs>>
    BY <1>2
       DEF client, ShellStep, HandlerReturns, ShellTop, FrameWait, ShellRxEntry, ShellReadPrefix,
           ShellReadPayload, ShellCmdExec, ShellSendPrefix, ShellSendPayload, ShellClose, ShellEnd
  <2>2. ASSUME NEW d \in Conns, d # c PROVE Kept(d)
    <3>1. UNCHANGED <<up[d], spc[d], tr[d]>>
      BY <1>0, <2>2
         DEF ShellStep, HandlerReturns, ShellTop, FrameWait, ShellRxEntry, ShellReadPrefix,
             ShellReadPayload, ShellCmdExec, ShellSendPrefix, ShellSendPayload, ShellClose,
             ShellEnd, ShellTakes, ShellRxFails, Stage, network
    <3> QED BY <3>1 DEF Kept, InShell
  <2>3. Kept(c) \/ Emptied(c) \/ Read(c)
    <3>1. CASE ShellReadPrefix(c) \/ ShellReadPayload(c)
      BY <1>0, <3>1, ShellReads
    <3>2. CASE ShellEnd(c)
      BY <1>0, <3>2 DEF ShellEnd, Emptied, InShell
    <3>3. CASE ShellRxEntry(c)
      <4>1. /\ UNCHANGED up
            /\ \/ spc'[c] \in {"close", "rxHdrLoop"}
               \/ spc[c] = "rxPay" /\ tr'[c].inp = tr[c].inp
        BY <1>0, <3>3 DEF ShellRxEntry, Stage, network
      <4> QED BY <4>1 DEF Kept, InShell
    <3>4. CASE ShellTop(c) \/ FrameWait(c) \/ ShellCmdExec(c) \/ ShellClose(c) \/ HandlerReturns(c)
      <4>1. UNCHANGED up /\ spc'[c] \notin {"rxPay", "rxPayLoop", "exec"}
        BY <1>0, <1>2, <3>4
           DEF ShellTop, FrameWait, ShellCmdExec, ShellClose, HandlerReturns, Stage, network
      <4> QED BY <4>1 DEF Kept, InShell
    <3>5. CASE ShellSendPrefix(c) \/ ShellSendPayload(c)
      <4>1. UNCHANGED up /\ spc'[c] \notin {"rxPay", "rxPayLoop", "exec"}
        BY <1>0, <3>5 DEF ShellSendPrefix, ShellSendPayload, Stage
      <4> QED BY <4>1 DEF Kept, InShell
    <3> QED BY <3>1, <3>2, <3>3, <3>4, <3>5 DEF ShellStep
  <2> QED BY <1>0, <2>1, <2>2, <2>3, ExecsFrame
<1> QED BY <1>1, <1>2

-----------------------------------------------------------------------------
(* The service and the client *)

LEMMA ServiceExecs ==
    ASSUME Typing, ExecsInv, Manage \/ ServiceDown \/ \E d \in Conns : Accept(d)
    PROVE  ExecsInv'
<1>0. TypeOK /\ spc \in [Conns -> ShellPCs] /\ tr \in [Conns -> Trs]
  BY DEF Typing, TypeOK, Trs
<1>1. UNCHANGED <<cpc, call, op, attempts, m_sock, execs>>
  BY DEF Manage, Start, Stop, ServiceDown, Accept, client
<1>2. ASSUME NEW c \in Conns PROVE Kept(c) \/ Emptied(c)
  BY <1>0 DEF Manage, Start, Stop, ServiceDown, Accept, network, Kept, Emptied, InShell
<1> QED BY <1>0, <1>1, <1>2, ExecsFrame

\* A new connection carries nothing
LEMMA ConnectEmpties ==
    ASSUME TypeOK, NEW res, connect(res), UNCHANGED tr
    PROVE  /\ \A c \in Conns : Kept(c) \/ Emptied(c)
           /\ \A c \in Conns : c = m_sock' => Emptied(c)
<1>0. up \in [Conns -> Seq(Units)] /\ spc \in [Conns -> ShellPCs]
  BY DEF TypeOK
<1>1. CASE socket_close /\ UNCHANGED <<up, spc>>
  BY <1>1 DEF socket_close, Kept, InShell, Emptied
<1>2. ASSUME NEW d \in Conns, ConnectOn(d, res)
      PROVE  /\ m_sock' = d /\ Emptied(d)
             /\ \A c \in Conns \ {d} : Kept(c)
  BY <1>0, <1>2 DEF ConnectOn, Kept, Emptied, InShell
<1> QED BY <1>1, <1>2 DEF connect, FreeConns, socket_close

\* A new call was never sent
LEMMA BeginExecs ==
    ASSUME Typing, ExecsInv, NEW kind, NEW len, Begin(kind, len)
    PROVE  ExecsInv'
<1>0. TypeOK /\ op \in Ops /\ attempts \in [Ops -> 0 .. 2] /\ op + 1 \in Ops
  BY DEF Typing, TypeOK, Begin
<1>1. /\ op' = op + 1 /\ attempts' = [attempts EXCEPT ![op + 1] = 1] /\ cpc = "idle"
      /\ UNCHANGED <<m_sock, up, spc, tr, execs>>
  BY DEF Begin, network, server
<1>2. \A c \in Conns, o \in Ops : UNCHANGED <<Has(up[c], o), InShell(c, o), Carries(c, o)>>
  BY <1>1 DEF Has, InShell, Carries
<1>3. CarriedOnce'
  BY <1>1, <1>2 DEF ExecsInv, CarriedOnce, Once
<1>4. \A o \in Ops : o > op => execs[o] = 0 /\ Cardinality(Carrying(o)) = 0 /\ Carrying(o) = {}
  <2> SUFFICES ASSUME NEW o \in Ops, o > op
               PROVE  execs[o] = 0 /\ Cardinality(Carrying(o)) = 0 /\ Carrying(o) = {}
    OBVIOUS
  <2>1. execs[o] + Cardinality(Carrying(o)) + ToSend(o) <= 0
    BY DEF ExecsInv, Counted, Unsent
  <2>2. execs[o] = 0 /\ Cardinality(Carrying(o)) = 0
    <3>1. execs[o] \in Nat /\ Cardinality(Carrying(o)) \in Nat /\ ToSend(o) \in {0, 1}
      BY <1>0, CarryingNat DEF ExecsInv
    <3> QED BY <2>1, <3>1
  <2> QED BY <1>0, <2>2, CarryingNat, FS_EmptySet DEF ExecsInv
<1>5. Unsent'
  <2>1. \A o \in Ops : o > op' => attempts'[o] = 0
    BY <1>0, <1>1 DEF ExecsInv, Unsent
  <2>2. m_sock \in Conns => ~Carries(m_sock, op + 1)
    <3>1. op + 1 > op
      BY <1>0
    <3>2. Carrying(op + 1) = {}
      BY <1>0, <1>4, <3>1
    <3> QED BY <3>2 DEF Carrying
  <2> QED BY <1>0, <1>1, <1>2, <2>1, <2>2 DEF Unsent
<1>6. ASSUME NEW o \in Ops
      PROVE  /\ IsFiniteSet(Carrying(o)')
             /\ execs'[o] + Cardinality(Carrying(o)') + ToSend(o)' <= attempts'[o]
  <2>1. Carrying(o)' = Carrying(o)
    BY <1>2 DEF Carrying
  <2>2. CASE o = op + 1
    BY <1>0, <1>1, <1>4, <2>1, <2>2, CarryingNat DEF ExecsInv, ToSend
  <2>3. CASE o # op + 1
    <3>1. ToSend(o)' = 0 /\ ToSend(o) = 0 /\ attempts'[o] = attempts[o]
      BY <1>0, <1>1, <2>3 DEF ToSend
    <3> QED BY <1>0, <1>1, <2>1, <3>1, CarryingNat DEF ExecsInv, Counted
  <2> QED BY <2>2, <2>3
<1> QED BY <1>3, <1>5, <1>6 DEF ExecsInv, Counted

\* The sending that was due becomes a connection that carries the request
LEMMA SendExecs ==
    ASSUME Typing, ExecsInv, SendPrefix
    PROVE  ExecsInv'
<1>0. TypeOK /\ op \in Ops /\ up \in [Conns -> Seq(Units)] /\ outLen \in {0, 1}
  BY DEF Typing, TypeOK
<1> DEFINE u == Prefix("REQUEST", op, outLen)
<1>1. /\ cpc = "txHdr" /\ call = "TRANSACTION" /\ cpc' # "txHdr"
      /\ UNCHANGED <<call, op, attempts, m_sock, spc, tr, execs>>
  BY DEF SendPrefix, server, Go
<1>2. CASE UNCHANGED up
  BY <1>0, <1>1, <1>2, ExecsFrame DEF Kept, InShell
<1>3. CASE m_sock \in Conns /\ up' = [up EXCEPT ![m_sock] = Append(@, u)]
  <2>1. u \in Units /\ \A o : Asks(u, o) => o = op
    BY <1>0, PrefixType DEF Cmds, Asks, Prefix
  <2>2. /\ Once(up'[m_sock]) /\ \A o \in Ops : Has(up'[m_sock], o) => Has(up[m_sock], o) \/ o = op
        /\ \A c \in Conns \ {m_sock} : up'[c] = up[c]
    <3>1. up[m_sock] \in Seq(Units) /\ Once(up[m_sock]) /\ ~Has(up[m_sock], op)
      BY <1>0, <1>1, <1>3 DEF ExecsInv, CarriedOnce, Unsent, Carries
    <3>2. up'[m_sock] = Append(up[m_sock], u)
      BY <1>0, <1>3
    <3> HIDE DEF u
    <3>3. Once(Append(up[m_sock], u))
      BY <2>1, <3>1, HasAppend
    <3>4. \A o \in Ops : Has(Append(up[m_sock], u), o) => Has(up[m_sock], o) \/ Asks(u, o)
      BY <2>1, <3>1, HasAppend
    <3> QED BY <1>0, <1>3, <2>1, <3>2, <3>3, <3>4
  <2>3. \A c \in Conns, o \in Ops : UNCHANGED InShell(c, o)
    BY <1>1 DEF InShell
  <2>4. ~InShell(m_sock, op)
    BY <1>1, <1>3 DEF ExecsInv, Unsent, Carries
  <2>5. CarriedOnce'
    BY <2>2, <2>3, <2>4 DEF ExecsInv, CarriedOnce
  <2>6. Unsent'
    BY <1>1 DEF ExecsInv, Unsent
  <2>7. ASSUME NEW o \in Ops
        PROVE  /\ IsFiniteSet(Carrying(o)')
               /\ execs'[o] + Cardinality(Carrying(o)') + ToSend(o)' <= attempts'[o]
    <3>0. /\ execs[o] + Cardinality(Carrying(o)) + ToSend(o) <= attempts[o]
          /\ IsFiniteSet(Carrying(o)) /\ Cardinality(Carrying(o)) \in Nat
          /\ execs[o] \in Nat /\ attempts[o] \in Nat
      BY <1>0, CarryingNat DEF ExecsInv, Counted
    <3>1. ToSend(o)' = 0 /\ ToSend(o) = IF o = op THEN 1 ELSE 0
      BY <1>1 DEF ToSend
    <3> DEFINE more == IF o = op THEN Carrying(o) \cup {m_sock} ELSE Carrying(o)
    <3>2. Carrying(o)' \subseteq more
      BY <2>2, <2>3 DEF Carrying, Carries
    <3>3. /\ IsFiniteSet(more) /\ Cardinality(more) \in Nat
          /\ Cardinality(more) <= Cardinality(Carrying(o)) + ToSend(o)
      <4>1. CASE o = op
        <5>1. more = Carrying(o) \cup {m_sock}
          BY <4>1
        <5> HIDE DEF more
        <5>2. /\ IsFiniteSet(more)
              /\ Cardinality(more) \in {Cardinality(Carrying(o)), Cardinality(Carrying(o)) + 1}
          BY <3>0, <5>1, FS_AddElement
        <5> QED BY <3>0, <3>1, <4>1, <5>2
      <4>2. CASE o # op
        BY <3>0, <3>1, <4>2
      <4> QED BY <4>1, <4>2
    <3>4. /\ IsFiniteSet(Carrying(o)') /\ Cardinality(Carrying(o)') \in Nat
          /\ Cardinality(Carrying(o)') <= Cardinality(more)
      BY <3>2, <3>3, FS_Subset, FS_CardinalityType
    <3> QED BY <1>1, <3>0, <3>1, <3>3, <3>4
  <2> QED BY <2>5, <2>6, <2>7 DEF ExecsInv, Counted
<1> QED BY <1>0, <1>2, <1>3 DEF SendPrefix, ClientTx, Peer, TypeOK

\* A retry is an attempt more, on a connection that carries nothing
LEMMA RetryExecs ==
    ASSUME Typing, ExecsInv, Reconnect
    PROVE  ExecsInv'
<1>0. TypeOK /\ op \in Ops /\ attempts \in [Ops -> 0 .. 2]
  BY DEF Typing, TypeOK
<1>1. /\ cpc = "end" /\ attempts' = [attempts EXCEPT ![op] = @ + 1]
      /\ UNCHANGED <<call, op, tr, execs>>
      /\ \E res : connect(res)
  BY DEF Reconnect
<1>2. /\ \A c \in Conns : Kept(c) \/ Emptied(c)
      /\ \A c \in Conns : c = m_sock' => Emptied(c)
  BY <1>0, <1>1, ConnectEmpties
<1>3. \A c \in Conns, o \in Ops : Carries(c, o)' => Carries(c, o)
  BY <1>0, <1>2, OneConnection DEF ExecsInv
<1>4. CarriedOnce'
  BY <1>0, <1>2, OneConnection DEF ExecsInv, CarriedOnce
<1>5. Unsent'
  <2>1. ASSUME NEW c \in Conns, c = m_sock' PROVE ~Carries(c, op)'
    BY <1>0, <1>1, <1>2, <2>1, HasEmpty DEF Emptied, Carries
  <2> QED BY <1>0, <1>1, <2>1 DEF ExecsInv, Unsent
<1>6. ASSUME NEW o \in Ops
      PROVE  /\ IsFiniteSet(Carrying(o)')
             /\ execs'[o] + Cardinality(Carrying(o)') + ToSend(o)' <= attempts'[o]
  <2>0. /\ execs[o] + Cardinality(Carrying(o)) + ToSend(o) <= attempts[o]
        /\ IsFiniteSet(Carrying(o)) /\ Cardinality(Carrying(o)) \in Nat
        /\ execs[o] \in Nat /\ attempts[o] \in Nat
    BY <1>0, CarryingNat DEF ExecsInv, Counted
  <2>1. Carrying(o)' \subseteq Carrying(o)
    BY <1>3 DEF Carrying
  <2>2. /\ IsFiniteSet(Carrying(o)') /\ Cardinality(Carrying(o)') <= Cardinality(Carrying(o))
        /\ Cardinality(Carrying(o)') \in Nat
    BY <2>0, <2>1, FS_Subset, FS_CardinalityType
  <2>3. /\ ToSend(o) = 0 /\ ToSend(o)' \in {0, 1} /\ ToSend(o)' <= attempts'[o] - attempts[o]
        /\ attempts'[o] \in Int
    BY <1>0, <1>1 DEF ToSend
  <2> QED BY <1>1, <2>0, <2>2, <2>3
<1> QED BY <1>4, <1>5, <1>6 DEF ExecsInv, Counted

LEMMA ClientExecs ==
    ASSUME Typing, ExecsInv, AppCall \/ ClientStep
    PROVE  ExecsInv'
<1>0. TypeOK /\ op \in Ops
  BY DEF Typing, TypeOK
<1>1. CASE Connect
  <2>1. UNCHANGED <<cpc, call, op, attempts, execs, tr>> /\ cpc = "idle" /\ \E res : connect(res)
    BY <1>1 DEF Connect, client
  <2> QED BY <1>0, <2>1, ConnectEmpties, ExecsFrame
<1>2. CASE Close \/ FrameRxEntry \/ RecvHeader \/ RecvPayload \/ TransactionEnd \/ SyncRecv
  <2>1. UNCHANGED <<call, op, attempts, execs, up, spc, tr>> /\ cpc' # "txHdr"
    BY <1>2 DEF Close, FrameRxEntry, RecvHeader, RecvPayload, TransactionEnd, SyncRecv, SyncEnd,
       Return, Go, client, network, server
  <2> QED BY <1>0, <2>1, ExecsFrame DEF Kept, InShell
<1>3. CASE SendPayload \/ SyncSend
  <2>1. UNCHANGED <<call, op, attempts, execs, spc, tr>> /\ cpc' # "txHdr"
    BY <1>3 DEF SendPayload, SyncSend, SyncEnd, Return, Go, server
  <2>2. PICK u \in Units : /\ \A o \in Ops : ~Asks(u, o)
                           /\ \E res : ClientTx(u, res)
    <3>1. CASE SendPayload
      BY <1>0, <3>1, PayloadType DEF SendPayload, Asks, Payload
    <3>2. CASE SyncSend
      <4>1. Prefix("PING_REQUEST", op, 0) \in Units
        BY <1>0, PrefixType DEF Cmds
      <4> QED BY <3>2, <4>1 DEF SyncSend, Asks, Prefix
    <3> QED BY <1>3, <3>1, <3>2
  <2>3. ASSUME NEW c \in Conns PROVE Kept(c) \/ Written(c)
    BY <1>0, <2>1, <2>2 DEF ClientTx, TypeOK, Kept, Written, InShell
  <2> QED BY <1>0, <2>1, <2>3, ExecsFrame
<1> QED
  BY <1>1, <1>2, <1>3, BeginExecs, SendExecs, RetryExecs
     DEF AppCall, StartTransaction, StartSync, ClientStep

-----------------------------------------------------------------------------
\* The handler is started at most once for each sending of a request, for any
\* number of retries, failures, connections and stops in between.
THEOREM HandlerNotRepeated == Spec => []ExecsBounded
<1>1. Init => ExecsInv
  <2> SUFFICES ASSUME Init PROVE ExecsInv
    OBVIOUS
  <2>1. \A c \in Conns, o \in Ops : ~Has(up[c], o) /\ ~InShell(c, o) /\ Once(up[c])
    BY HasEmpty DEF Init, InShell
  <2>2. \A o \in Ops : Carrying(o) = {}
    BY <2>1 DEF Carrying, Carries
  <2>3. Counted
    BY <2>2, FS_EmptySet DEF Init, Counted, ToSend
  <2>4. CarriedOnce /\ Unsent
    BY <2>1 DEF Init, CarriedOnce, Unsent
  <2> QED BY <2>3, <2>4 DEF ExecsInv
<1>2. Typing /\ ExecsInv /\ [Next]_vars => ExecsInv'
  <2>1. ASSUME Typing, ExecsInv, UNCHANGED vars PROVE ExecsInv'
    BY <2>1, ExecsFrame DEF Typing, vars, client, network, server, Kept, InShell
  <2> QED BY <2>1, ClientExecs, ServiceExecs, ShellExecs DEF Next
<1>3. Typing /\ ExecsInv => ExecsBounded
  <2> SUFFICES ASSUME Typing, ExecsInv, NEW o \in Ops PROVE execs[o] <= attempts[o]
    BY DEF ExecsBounded
  <2> QED BY CarryingNat DEF Typing, ExecsInv, Counted
<1> QED BY <1>1, <1>2, <1>3, TypingInit, TypingStep, PTL DEF Spec

-----------------------------------------------------------------------------
(* SockTransaction implements RemoteCall *)

USE DEF Remote!Ops

Safe == Typing /\ InStep /\ ExecsBounded

\* The variables of RemoteCall, as SockTransaction has them
CallVars == <<op, Phase, attempts, execs>>

\* A step of RemoteCall, its actions written out over SockTransaction
LEMMA RemoteStep ==
    ASSUME \/ UNCHANGED CallVars
           \/ Remote!Begin \/ Remote!Resend \/ Remote!Answer \/ Remote!Return
           \/ \E o \in Ops : Remote!Execute(o)
    PROVE  [Remote!Next]_Remote!vars
BY DEF Remote!Next, Remote!vars, CallVars

\* The beginning of a call, and what the application does between calls
LEMMA RemoteAppCall ==
    ASSUME Typing, AppCall
    PROVE  [Remote!Next]_Remote!vars
<1>1. CASE Connect \/ Close
  <2>1. UNCHANGED CallVars
    BY <1>1 DEF Connect, Close, client, CallVars, Phase
  <2> QED BY <2>1, RemoteStep
<1>2. CASE StartTransaction \/ StartSync
  <2>1. PICK kind, len : Begin(kind, len)
    BY <1>2 DEF StartTransaction, StartSync
  <2>2. Phase = "idle" /\ Phase' = "pending"
    BY <2>1 DEF Begin, Phase
  <2>3. Remote!Begin
    BY <2>1, <2>2 DEF Begin, Remote!Begin
  <2> QED BY <2>3, RemoteStep
<1> QED BY <1>1, <1>2 DEF AppCall

\* A call in progress: it stays pending, is answered by a handler that ran,
\* sends again or returns
LEMMA RemoteClientStep ==
    ASSUME Typing, InStep', Typing', ClientStep
    PROVE  [Remote!Next]_Remote!vars
<1>1. CASE SendPrefix \/ SendPayload \/ FrameRxEntry \/ RecvHeader \/ RecvPayload
  <2>1. UNCHANGED <<op, attempts, execs>>
    BY <1>1 DEF SendPrefix, SendPayload, FrameRxEntry, RecvHeader, RecvPayload
  <2>2. Phase = "pending" /\ cpc' # "idle"
    BY <1>1 DEF SendPrefix, SendPayload, FrameRxEntry, RecvHeader, RecvPayload, Phase, Go
  <2>3. CASE Phase' = "answered"
    <3>1. cpc' = "end" /\ state' = "OK" /\ got'.cmd = "RESPONSE" /\ m_sock' \notin tainted'
      BY <2>3 DEF Phase
    <3>2. OwnAnswer' /\ call' = "TRANSACTION"
      BY <3>1 DEF InStep, InStepOn, Exchange
    <3>3. execs'[op'] >= 1
      BY <3>1, <3>2 DEF OwnAnswer, Executed, Error, Prefix
    <3>4. execs[op] \in Nat
      BY DEF Typing, TypeOK
    <3>5. execs[op] > 0
      BY <2>1, <3>3, <3>4
    <3>6. Remote!Answer
      BY <2>1, <2>2, <2>3, <3>5 DEF Remote!Answer
    <3> QED BY <3>6, RemoteStep
  <2>4. CASE Phase' = "pending"
    <3>1. UNCHANGED CallVars
      BY <2>1, <2>2, <2>4 DEF CallVars
    <3> QED BY <3>1, RemoteStep
  <2> QED BY <2>2, <2>3, <2>4 DEF Phase
<1>2. CASE Reconnect
  <2>1. Phase = "pending" /\ Phase' = "pending" /\ attempts[op] = 1
    <3>1. cpc = "end" /\ state \in {"TX", "RX"} /\ attempts[op] = 1
      BY <1>2 DEF Reconnect, Retries
    <3>2. cpc' = "txHdr" \/ (cpc' = "end" /\ state' # "OK")
      BY <1>2 DEF Reconnect, Go
    <3> QED BY <3>1, <3>2 DEF Phase
  <2>2. attempts' = [attempts EXCEPT ![op] = 2] /\ UNCHANGED <<op, execs>>
    BY <1>2, <2>1 DEF Reconnect
  <2>3. Remote!Resend
    BY <2>1, <2>2 DEF Remote!Resend
  <2> QED BY <2>3, RemoteStep
<1>3. CASE TransactionEnd \/ SyncSend \/ SyncRecv
  <2>1. UNCHANGED <<op, attempts, execs>> /\ cpc # "idle"
    BY <1>3 DEF TransactionEnd, SyncSend, SyncRecv, SyncEnd, Return
  <2>2. CASE cpc' = "idle"
    <3>1. Phase # "idle" /\ Phase' = "idle"
      BY <2>1, <2>2 DEF Phase
    <3>2. Remote!Return
      BY <2>1, <3>1 DEF Remote!Return
    <3> QED BY <3>2, RemoteStep
  <2>3. CASE cpc' # "idle"
    <3>1. cpc = "txHdr" /\ cpc' = "rxHdrLoop"
      BY <1>3, <2>3 DEF TransactionEnd, SyncSend, SyncRecv, SyncEnd, Return, Go
    <3>2. UNCHANGED CallVars
      BY <2>1, <3>1 DEF CallVars, Phase
    <3> QED BY <3>2, RemoteStep
  <2> QED BY <2>2, <2>3
<1> QED BY <1>1, <1>2, <1>3 DEF ClientStep

\* A shell changes nothing that RemoteCall sees, except when it starts the
\* handler.  The connection of an answered call cannot fall out of step, for
\* its shell is at rest.
LEMMA RemoteShell ==
    ASSUME Typing, InStep, ExecsBounded', NEW c \in Conns, ShellStep(c) \/ HandlerReturns(c)
    PROVE  [Remote!Next]_Remote!vars
<1>1. UNCHANGED <<cpc, state, got, m_sock, op, attempts>>
  BY ShellFrame DEF client
<1>2. UNCHANGED Phase
  <2>1. UNCHANGED tainted \/ (spc[c] = "rxPayLoop" /\ tainted' = tainted \cup {c})
    BY DEF ShellStep, HandlerReturns, ShellTop, FrameWait, ShellRxEntry, ShellReadPrefix,
           ShellReadPayload, ShellCmdExec, ShellSendPrefix, ShellSendPayload, ShellClose, ShellEnd
  <2>2. CASE UNCHANGED tainted
    BY <1>1, <2>2 DEF Phase
  <2>3. CASE spc[c] = "rxPayLoop" /\ tainted' = tainted \cup {c}
    <3>1. cpc = "end" /\ state = "OK" /\ m_sock \notin tainted => m_sock # c
      BY <2>3 DEF InStep, InStepOn, Exchange, Quiet, AtRest
    <3> QED BY <1>1, <2>3, <3>1 DEF Phase
  <2> QED BY <2>1, <2>2, <2>3
<1>3. CASE UNCHANGED execs
  <2>1. UNCHANGED CallVars
    BY <1>1, <1>2, <1>3 DEF CallVars
  <2> QED BY <2>1, RemoteStep
<1>4. CASE execs' # execs
  <2>1. execs' = [execs EXCEPT ![tr[c].inp.id] = @ + 1]
    BY <1>4 DEF ShellStep, HandlerReturns, ShellTop, FrameWait, ShellRxEntry, ShellReadPrefix,
           ShellReadPayload, ShellCmdExec, ShellSendPrefix, ShellSendPayload, ShellClose, ShellEnd
  <2>2. PICK o \in Ops : o = tr[c].inp.id
    BY DEF Typing, TypeOK, Prefixes
  <2>3. execs[o] \in Nat /\ attempts[o] \in Nat /\ execs'[o] = execs[o] + 1
    <3>1. execs \in [Ops -> Nat] /\ attempts \in [Ops -> 0 .. 2]
      BY DEF Typing, TypeOK
    <3>2. execs' = [execs EXCEPT ![o] = @ + 1]
      BY <2>1, <2>2
    <3>3. attempts[o] \in 0 .. 2 /\ 0 .. 2 \subseteq Nat
      BY <3>1
    <3> QED BY <3>1, <3>2, <3>3
  <2>4. execs'[o] <= attempts[o]
    BY <1>1 DEF ExecsBounded
  <2>5. execs[o] < attempts[o]
    BY <2>3, <2>4
  <2>6. Remote!Execute(o)
    BY <1>1, <1>2, <2>1, <2>2, <2>5 DEF Remote!Execute
  <2> QED BY <2>6, RemoteStep
<1> QED BY <1>3, <1>4

LEMMA RemoteService ==
    ASSUME Manage \/ ServiceDown \/ \E c \in Conns : Accept(c)
    PROVE  [Remote!Next]_Remote!vars
<1>1. UNCHANGED <<client, m_sock, execs, tainted>>
  BY DEF Manage, Start, Stop, ServiceDown, Accept
<1>2. UNCHANGED CallVars
  BY <1>1 DEF client, CallVars, Phase
<1> QED BY <1>2, RemoteStep

-----------------------------------------------------------------------------
\* The client, the shells of all its connections and the service, with their
\* retries, failures and stops, implement calls that run the handler at most
\* once per sending and are answered only after it ran.
THEOREM ImplementsRemoteCall == Spec => CallsAreRemote
<1>1. Init => Remote!Init
  BY DEF Init, Remote!Init, Phase
<1>2. Safe /\ Safe' /\ [Next]_vars => [Remote!Next]_Remote!vars
  <2> SUFFICES ASSUME Safe, Safe', [Next]_vars PROVE [Remote!Next]_Remote!vars
    OBVIOUS
  <2>1. CASE UNCHANGED vars
    <3>1. UNCHANGED CallVars
      BY <2>1 DEF vars, client, CallVars, Phase
    <3> QED BY <3>1, RemoteStep
  <2>2. CASE Next
    BY <2>2, RemoteAppCall, RemoteClientStep, RemoteShell, RemoteService DEF Next, Safe
  <2> QED BY <2>1, <2>2
<1>3. Spec => []Safe
  BY AlwaysInStep, HandlerNotRepeated, PTL DEF Safe
<1> QED BY <1>1, <1>2, <1>3, PTL DEF Spec, CallsAreRemote, Remote!Spec

=============================================================================
