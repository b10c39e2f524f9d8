----------------------- MODULE SockTransactionInStep -----------------------
(***************************************************************************)
(* ReplyIsOwn and IdleIsQuiet of SockTransaction, for every value of its   *)
(* constants: an inductive invariant that lists, for the client's          *)
(* connection while nothing has put it out of step, what the shell does    *)
(* and what the two streams carry at each stage of the client.             *)
(***************************************************************************)
EXTENDS SockTransactionProofs

USE ConnsAssumption, MaxOpsAssumption DEF Ops

-----------------------------------------------------------------------------
(* The invariant *)

Request == Prefix(IF call = "SYNC" THEN "PING_REQUEST" ELSE "REQUEST", op, outLen)

Answers ==
    IF call = "SYNC" THEN {Prefix("PING_RESPONSE", op, 0)}
    ELSE {Prefix("RESPONSE", op, 0), Prefix("RESPONSE", op, 1)}

Error == Prefix("ERROR", 0, 0)

\* The handler was started for the request in progress
Executed == call = "TRANSACTION" => execs[op] >= 1

\* A prefix of this exchange, with the payload that follows it
Frame(u) == IF u.len = 0 THEN <<u>> ELSE <<u, Payload(op)>>

\* The shell of c waits, with nothing to read, or has ended
AtRest(c) ==
    \/ spc[c] \in {"backlog", "top", "wait"} /\ up[c] = <<>>
    \/ spc[c] \in {"closing", "done"}

Quiet(c) == down[c] = <<>> /\ (AtRest(c) \/ spc[c] = "refused")

NotRead(c) ==
    /\ spc[c] \in {"backlog", "top", "wait", "rxHdr", "rxHdrLoop"}
    /\ up[c] = IF cpc = "txPay" THEN <<Request>> ELSE Frame(Request)
    /\ down[c] = <<>>

HalfRead(c) ==
    /\ spc[c] \in {"rxPay", "rxPayLoop"} /\ (spc[c] = "rxPayLoop" => outLen = 1)
    /\ tr[c].inp = Request /\ up[c] = IF outLen = 0 \/ cpc = "txPay" THEN <<>> ELSE <<Payload(op)>>
    /\ down[c] = <<>>

Executing(c) ==
    /\ spc[c] \in {"exec", "handler"} /\ (spc[c] = "handler" => Executed /\ call = "TRANSACTION")
    /\ tr[c].inp = Request /\ (outLen = 1 => tr[c].pay = op)
    /\ up[c] = <<>> /\ down[c] = <<>>

Answering(c) ==
    /\ Executed /\ tr[c].out \in Answers /\ up[c] = <<>>
    /\ \/ spc[c] = "txHdr" /\ down[c] = <<>>
       \/ spc[c] = "txPay" /\ tr[c].out.len = 1 /\ down[c] = <<tr[c].out>>

Answered(c) ==
    /\ Executed /\ AtRest(c) /\ spc[c] # "backlog"
    /\ \E a \in Answers : down[c] = Frame(a)

Failed(c) ==
    \/ spc[c] = "close" /\ down[c] = <<>>
    \/ spc[c] \in {"closing", "done"} /\ down[c] \in {<<>>, <<Error>>}

\* The client waits for an answer
Asked(c) ==
    \/ NotRead(c) \/ HalfRead(c) \/ Failed(c)
    \/ cpc # "txPay" /\ (Executing(c) \/ Answering(c) \/ Answered(c))

\* The client has the prefix of the answer
HalfAnswered(c) ==
    \/ got = Error /\ Quiet(c) /\ spc[c] \in {"closing", "done"}
    \/ /\ Executed /\ got \in Answers
       /\ \/ AtRest(c) /\ down[c] = IF got.len = 0 THEN <<>> ELSE <<Payload(op)>>
          \/ /\ spc[c] = "txPay" /\ tr[c].out = got /\ got.len = 1
             /\ up[c] = <<>> /\ down[c] = <<>>

OwnAnswer ==
    \/ got = Error
    \/ Executed /\ got \in Answers /\ (got.len = 1 => pay = op)

InStepOn(c) ==
    /\ cpc \in {"idle", "txHdr"} => Quiet(c)
    /\ cpc \in {"txPay", "rxHdr", "rxHdrLoop"} => Asked(c)
    /\ cpc \in {"rxPay", "rxPayLoop"} => HalfAnswered(c)
    /\ cpc = "end" /\ state = "OK" => Quiet(c) /\ OwnAnswer

Exchange ==
    /\ cpc \in {"txPay", "rxHdr", "rxPay", "rxPayLoop", "end"} => call = "TRANSACTION"
    /\ cpc = "txPay" => outLen = 1
    /\ cpc # "idle" /\ call = "SYNC" => outLen = 0
    /\ cpc = "rxPayLoop" => got.len = 1
    /\ cpc = "end" /\ state = "OK" => m_sock \in Conns

InStep == Exchange /\ (m_sock \in Conns \ tainted => InStepOn(m_sock))

-----------------------------------------------------------------------------
(* The shell of the client's connection *)

LEMMA OneAction ==
    ASSUME NEW c \in Conns, ShellStep(c) \/ HandlerReturns(c)
    PROVE  /\ spc[c] \notin Unserved
           /\ spc[c] = "top" => ShellTop(c)
           /\ spc[c] = "wait" => FrameWait(c)
           /\ spc[c] \in {"rxHdr", "rxPay"} => ShellRxEntry(c)
           /\ spc[c] = "rxHdrLoop" => ShellReadPrefix(c)
           /\ spc[c] = "rxPayLoop" => ShellReadPayload(c)
           /\ spc[c] = "exec" => ShellCmdExec(c)
           /\ spc[c] = "handler" => HandlerReturns(c)
           /\ spc[c] = "txHdr" => ShellSendPrefix(c)
           /\ spc[c] = "txPay" => ShellSendPayload(c)
           /\ spc[c] = "close" => ShellClose(c)
           /\ spc[c] = "closing" => ShellEnd(c)
BY DEF Unserved, ShellStep, HandlerReturns, ShellTop, FrameWait, ShellRxEntry, ShellReadPrefix,
       ShellReadPayload, ShellCmdExec, ShellSendPrefix, ShellSendPayload, ShellClose, ShellEnd

LEMMA ShellFrame ==
    ASSUME NEW c \in Conns, ShellStep(c) \/ HandlerReturns(c)
    PROVE  UNCHANGED <<client, m_sock, copen, listening, m_stop>>
BY DEF ShellStep, HandlerReturns, ShellTop, FrameWait, ShellRxEntry, ShellReadPrefix,
       ShellReadPayload, ShellCmdExec, ShellSendPrefix, ShellSendPayload, ShellClose, ShellEnd,
       network

\* The count of executions never goes down
LEMMA ExecsGrow ==
    ASSUME TypeOK, NEW c \in Conns, ShellStep(c) \/ HandlerReturns(c), NEW o \in Ops
    PROVE  execs'[o] >= execs[o]
<1>1. execs \in [Ops -> Nat]
  BY DEF TypeOK
<1>2. \/ UNCHANGED execs
      \/ \E i \in Ops : execs' = [execs EXCEPT ![i] = @ + 1]
      \/ ShellCmdExec(c) /\ tr[c].inp.id \notin Ops
  BY DEF ShellStep, HandlerReturns, ShellTop, FrameWait, ShellRxEntry, ShellReadPrefix,
         ShellReadPayload, ShellCmdExec, ShellSendPrefix, ShellSendPayload, ShellClose, ShellEnd
<1>3. tr[c].inp.id \in Ops
  BY DEF TypeOK, Prefixes
<1> QED BY <1>1, <1>2, <1>3

LEMMA ExecutedStays ==
    ASSUME TypeOK, NEW c \in Conns, ShellStep(c) \/ HandlerReturns(c), Executed
    PROVE  Executed'
<1>1. execs'[op] >= execs[op] /\ UNCHANGED <<call, op>>
  BY ExecsGrow, ShellFrame DEF TypeOK, client
<1>2. execs[op] \in Nat /\ execs'[op] \in Int
  <2>1. execs[op] \in Nat /\ op \in Ops
    BY DEF TypeOK
  <2>2. \/ UNCHANGED execs
        \/ execs' = [execs EXCEPT ![tr[c].inp.id] = @ + 1]
    BY DEF ShellStep, HandlerReturns, ShellTop, FrameWait, ShellRxEntry, ShellReadPrefix,
           ShellReadPayload, ShellCmdExec, ShellSendPrefix, ShellSendPayload, ShellClose, ShellEnd
  <2>3. execs \in [Ops -> Nat]
    BY DEF TypeOK
  <2> QED BY <2>1, <2>2, <2>3
<1> QED BY <1>1, <1>2 DEF Executed

\* A shell at rest goes on waiting, or ends
LEMMA RestStep ==
    ASSUME TypeOK, NEW c \in Conns, c \in copen, AtRest(c), ShellStep(c) \/ HandlerReturns(c)
    PROVE  AtRest(c)' /\ UNCHANGED down /\ spc'[c] # "backlog"
<1>1. CASE spc[c] = "top"
  BY <1>1, OneAction DEF ShellTop, AtRest, network, TypeOK
<1>2. CASE spc[c] = "wait"
  BY <1>2, OneAction DEF FrameWait, AtRest, network, TypeOK
<1>3. CASE spc[c] = "closing"
  BY <1>3, OneAction DEF ShellEnd, AtRest, TypeOK
<1> QED BY <1>1, <1>2, <1>3, OneAction DEF AtRest, Unserved

LEMMA QuietStep ==
    ASSUME TypeOK, NEW c \in Conns, c \in copen, Quiet(c), ShellStep(c) \/ HandlerReturns(c)
    PROVE  Quiet(c)'
BY RestStep, OneAction DEF Quiet, Unserved

LEMMA NotReadStep ==
    ASSUME TypeOK, Exchange, NEW c \in Conns, c \in copen, NotRead(c),
           ShellStep(c) \/ HandlerReturns(c)
    PROVE  (NotRead(c) \/ HalfRead(c) \/ Failed(c))'
<1> USE ShellFrame DEF client
<1>0. /\ spc \in [Conns -> ShellPCs] /\ tr \in [Conns -> Trs]
      /\ up \in [Conns -> Seq(Units)] /\ outLen \in {0, 1}
  BY DEF TypeOK, Trs
<1>1. CASE spc[c] \in {"top", "wait"}
  <2>1. UNCHANGED <<up, down>> /\ spc'[c] \in {"top", "wait", "rxHdr", "closing"}
    BY <1>0, <1>1, OneAction DEF ShellTop, FrameWait, network
  <2> QED BY <2>1 DEF NotRead, Failed, Frame, Request
<1>2. CASE spc[c] = "rxHdr"
  <2>1. UNCHANGED <<up, down>> /\ spc'[c] \in {"rxHdrLoop", "close"}
    BY <1>0, <1>2, OneAction DEF ShellRxEntry, Stage, network
  <2> QED BY <2>1 DEF NotRead, Failed, Frame, Request
<1>3. CASE spc[c] = "rxHdrLoop"
  <2>1. ShellReadPrefix(c) /\ UNCHANGED down
    BY <1>3, OneAction DEF ShellReadPrefix
  <2>2. Head(up[c]) = Request /\ IsPrefix(Request)
    BY DEF NotRead, Frame, Request, Prefix, IsPrefix
  <2>3. CASE /\ ShellTakes(c, Request)
             /\ Stage(c, [tr[c] EXCEPT !.inp = Request], "OK", "rxPay")
    <3>1. spc'[c] = "rxPay" /\ tr'[c].inp = Request
      BY <1>0, <2>3 DEF Stage, Trs
    <3>2. up'[c] = IF outLen = 0 \/ cpc = "txPay" THEN <<>> ELSE <<Payload(op)>>
      BY <1>0, <2>3 DEF ShellTakes, NotRead, Frame, Request, Prefix
    <3> QED BY <2>1, <3>1, <3>2 DEF NotRead, HalfRead, Request
  <2>4. CASE spc'[c] = "close"
    BY <2>1, <2>4 DEF NotRead, Failed
  <2> QED
    BY <1>0, <2>1, <2>2, <2>3, <2>4 DEF ShellReadPrefix, Stage, ShellTakes
<1> QED BY <1>1, <1>2, <1>3, OneAction DEF NotRead, Unserved

LEMMA HalfReadStep ==
    ASSUME TypeOK, Exchange, NEW c \in Conns, c \in copen, HalfRead(c), c \notin tainted',
           ShellStep(c) \/ HandlerReturns(c)
    PROVE  (HalfRead(c) \/ Failed(c) \/ (cpc # "txPay" /\ Executing(c)))'
<1> USE ShellFrame DEF client
<1>0. /\ spc \in [Conns -> ShellPCs] /\ tr \in [Conns -> Trs]
      /\ up \in [Conns -> Seq(Units)] /\ outLen \in {0, 1}
  BY DEF TypeOK, Trs
<1>1. CASE spc[c] = "rxPay"
  <2>1. ShellRxEntry(c) /\ UNCHANGED <<up, down>>
    BY <1>1, OneAction DEF ShellRxEntry, network
  <2>2. CASE Stage(c, tr[c], "TIMEOUT", "close")
    BY <1>0, <2>1, <2>2 DEF Stage, HalfRead, Failed
  <2>3. CASE Stage(c, tr[c], "OK", IF tr[c].inp.len = 0 THEN "exec" ELSE "rxPayLoop")
    <3>1. spc'[c] = (IF outLen = 0 THEN "exec" ELSE "rxPayLoop") /\ tr'[c] = tr[c]
      BY <1>0, <2>3 DEF Stage, HalfRead, Request, Prefix
    <3> QED BY <1>0, <2>1, <3>1 DEF HalfRead, Executing, Exchange, Request
  <2> QED BY <1>1, <2>1, <2>2, <2>3 DEF ShellRxEntry
<1>2. CASE spc[c] = "rxPayLoop"
  <2>1. ShellReadPayload(c) /\ UNCHANGED down /\ outLen = 1
    BY <1>2, OneAction DEF ShellReadPayload, HalfRead
  <2>2. CASE /\ ShellTakes(c, Head(up[c]))
             /\ Stage(c, [tr[c] EXCEPT !.pay = Head(up[c]).id], "OK", "exec")
    <3>1. cpc # "txPay" /\ Head(up[c]).id = op /\ up'[c] = <<>>
      BY <1>0, <2>1, <2>2 DEF ShellTakes, HalfRead, Payload
    <3>2. spc'[c] = "exec" /\ tr'[c].inp = Request /\ tr'[c].pay = op
      BY <1>0, <2>2, <3>1 DEF Stage, HalfRead, Trs
    <3> QED BY <2>1, <3>1, <3>2 DEF HalfRead, Executing, Request
  <2>3. CASE spc'[c] = "close"
    BY <2>1, <2>3 DEF HalfRead, Failed
  <2> QED BY <1>0, <2>1, <2>2, <2>3 DEF ShellReadPayload, Stage
<1> QED BY <1>1, <1>2 DEF HalfRead

LEMMA ExecutingStep ==
    ASSUME TypeOK, Exchange, NEW c \in Conns, Executing(c), cpc # "idle",
           ShellStep(c) \/ HandlerReturns(c)
    PROVE  (Executing(c) \/ Answering(c) \/ Failed(c))'
<1> USE ShellFrame DEF client
<1>0. /\ spc \in [Conns -> ShellPCs] /\ tr \in [Conns -> Trs] /\ outLen \in {0, 1}
      /\ execs \in [Ops -> Nat] /\ op \in Ops /\ call \in {"TRANSACTION", "SYNC"}
  BY DEF TypeOK, Trs
<1>1. CASE spc[c] = "exec"
  <2>1. ShellCmdExec(c) /\ UNCHANGED <<up, down>>
    BY <1>1, OneAction DEF ShellCmdExec, network
  <2>2. CASE call = "SYNC"
    <3>1. outLen = 0 /\ tr[c].inp = Prefix("PING_REQUEST", op, 0)
      BY <2>2 DEF Exchange, Executing, Request
    <3>2. Stage(c, [tr[c] EXCEPT !.out = Prefix("PING_RESPONSE", op, 0)], "OK", "txHdr")
      BY <2>1, <3>1 DEF ShellCmdExec, Prefix
    <3>3. spc'[c] = "txHdr" /\ tr'[c].out = Prefix("PING_RESPONSE", op, 0)
      BY <1>0, <3>2 DEF Stage, Trs
    <3> QED BY <2>1, <2>2, <3>3 DEF Executing, Answering, Answers, Executed
  <2>3. CASE call = "TRANSACTION"
    <3>1. tr[c].inp = Request /\ Request = Prefix("REQUEST", op, outLen)
      BY <2>3 DEF Executing, Request
    <3>2. Stage(c, tr[c], "OK", "handler") /\ execs' = [execs EXCEPT ![op] = @ + 1]
      BY <2>1, <3>1 DEF ShellCmdExec, Prefix
    <3>3. spc'[c] = "handler" /\ tr'[c] = tr[c]
      BY <1>0, <3>2 DEF Stage
    <3>4. Executed'
      BY <1>0, <3>2 DEF Executed
    <3> QED BY <2>1, <2>3, <3>3, <3>4 DEF Executing, Request
  <2> QED BY <1>0, <2>2, <2>3
<1>2. CASE spc[c] = "handler"
  <2>1. HandlerReturns(c) /\ UNCHANGED <<up, down>> /\ call = "TRANSACTION" /\ Executed
    BY <1>2, OneAction DEF HandlerReturns, network, Executing
  <2>2. Executed'
    BY <2>1, ExecutedStays
  <2>3. (IF tr[c].inp.len = 0 THEN tr[c].inp.id ELSE tr[c].pay) = op
    BY <1>0 DEF Executing, Request, Prefix
  <2>4. ASSUME NEW len \in {0, 1},
               Stage(c, [tr[c] EXCEPT !.out = Prefix("RESPONSE", op, len)], "OK", "txHdr")
        PROVE  Answering(c)'
    <3>1. spc'[c] = "txHdr" /\ tr'[c].out = Prefix("RESPONSE", op, len)
      BY <1>0, <2>4 DEF Stage, Trs
    <3> QED BY <2>1, <2>2, <2>4, <3>1 DEF Executing, Answering, Answers
  <2>5. CASE spc'[c] = "close"
    BY <2>1, <2>5 DEF Executing, Failed
  <2> QED BY <1>0, <2>1, <2>3, <2>4, <2>5 DEF HandlerReturns, Stage
<1> QED BY <1>1, <1>2 DEF Executing

LEMMA AnswersType ==
    ASSUME op \in Ops, NEW a \in Answers
    PROVE  a \in Prefixes /\ a.id = op /\ a.len \in {0, 1} /\ a \in Units
BY DEF Answers, Prefix, Prefixes, Cmds, Units

LEMMA SendOK ==
    ASSUME TypeOK, NEW c \in Conns, c \in copen, NEW u, NEW res, ShellTx(c, u, res)
    PROVE  res = "OK" /\ down'[c] = Append(down[c], u)
BY DEF TypeOK, ShellTx

LEMMA AppendToOne ==
    ASSUME NEW S, NEW a \in S, NEW b \in S
    PROVE  Append(<<a>>, b) = <<a, b>>
<1>1. <<a>> \in Seq(S) /\ Len(<<a>>) = 1
  OBVIOUS
<1>2. /\ Append(<<a>>, b) \in Seq(S) /\ Len(Append(<<a>>, b)) = 2
      /\ Append(<<a>>, b)[1] = a /\ Append(<<a>>, b)[2] = b
  BY <1>1
<1>3. <<a, b>> \in Seq(S) /\ Len(<<a, b>>) = 2 /\ <<a, b>>[1] = a /\ <<a, b>>[2] = b
  OBVIOUS
<1> DEFINE p == Append(<<a>>, b) q == <<a, b>>
<1>4. p \in Seq(S) /\ q \in Seq(S) /\ Len(p) = 2 /\ Len(q) = 2 /\ p[1] = q[1] /\ p[2] = q[2]
  BY <1>2, <1>3
<1> HIDE DEF p, q
<1>5. p = q
  <2>1. DOMAIN p = 1 .. 2 /\ DOMAIN q = 1 .. 2
    BY <1>4
  <2> QED BY <1>4, <2>1
<1> QED BY <1>5 DEF p, q

LEMMA AnsweringStep ==
    ASSUME TypeOK, NEW c \in Conns, c \in copen, Answering(c), ShellStep(c) \/ HandlerReturns(c)
    PROVE  (Answering(c) \/ Answered(c))'
<1> USE ShellFrame DEF client
<1>0. /\ spc \in [Conns -> ShellPCs] /\ tr \in [Conns -> Trs] /\ op \in Ops
  BY DEF TypeOK, Trs
<1>1. Executed' /\ UNCHANGED Answers
  BY ExecutedStays DEF Answering, Answers
<1>2. tr[c].out.id = op /\ tr[c].out.len \in {0, 1}
  BY <1>0, AnswersType DEF Answering
<1>3. CASE spc[c] = "txHdr"
  <2>1. ShellSendPrefix(c) /\ UNCHANGED up
    BY <1>3, OneAction DEF ShellSendPrefix
  <2>2. /\ down'[c] = Append(down[c], tr[c].out)
        /\ Stage(c, tr[c], "OK", IF tr[c].out.len = 0 THEN "top" ELSE "txPay")
    BY <2>1, SendOK DEF ShellSendPrefix
  <2>3. down'[c] = <<tr[c].out>>
    <3>1. down[c] = <<>>
      BY <1>3 DEF Answering
    <3> QED BY <2>2, <3>1
  <2>4. CASE tr[c].out.len = 0
    <3>1. spc'[c] = "top" /\ down'[c] = Frame(tr[c].out)
      BY <1>0, <2>2, <2>3, <2>4 DEF Stage, Frame
    <3>2. AtRest(c)' /\ spc'[c] # "backlog"
      BY <2>1, <3>1 DEF AtRest, Answering
    <3>3. \E a \in Answers : down'[c] = Frame(a)'
      <4>1. \A a : a.len = 0 => Frame(a)' = <<a>>
        BY DEF Frame
      <4> QED BY <2>3, <2>4, <4>1 DEF Answering
    <3> QED BY <1>1, <3>2, <3>3 DEF Answered
  <2>5. CASE tr[c].out.len = 1
    <3>1. spc'[c] = "txPay" /\ tr'[c] = tr[c]
      BY <1>0, <2>2, <2>5 DEF Stage
    <3> QED BY <1>1, <2>1, <2>3, <2>5, <3>1 DEF Answering
  <2> QED BY <1>2, <2>4, <2>5
<1>4. CASE spc[c] = "txPay"
  <2>1. ShellSendPayload(c) /\ UNCHANGED up
    BY <1>4, OneAction DEF ShellSendPayload
  <2>2. down'[c] = Append(down[c], Payload(op)) /\ Stage(c, tr[c], "OK", "top")
    BY <1>2, <2>1, SendOK DEF ShellSendPayload
  <2>3. down'[c] = <<tr[c].out, Payload(op)>> /\ tr[c].out.len = 1
    <3>1. down[c] = <<tr[c].out>> /\ tr[c].out.len = 1
      BY <1>4 DEF Answering
    <3>2. tr[c].out \in Units /\ Payload(op) \in Units
      BY <1>0, PayloadType DEF Trs, Units
    <3> QED BY <2>2, <3>1, <3>2, AppendToOne
  <2>4. AtRest(c)' /\ spc'[c] # "backlog"
    BY <1>0, <2>1, <2>2 DEF Stage, AtRest, Answering
  <2>5. \A a : a.len = 1 => Frame(a)' = <<a, Payload(op)>>
    BY DEF Frame, Payload
  <2> QED BY <1>1, <2>3, <2>4, <2>5 DEF Answering, Answered
<1> QED BY <1>3, <1>4 DEF Answering

LEMMA AnsweredStep ==
    ASSUME TypeOK, NEW c \in Conns, c \in copen, Answered(c), ShellStep(c) \/ HandlerReturns(c)
    PROVE  Answered(c)'
<1>1. AtRest(c)' /\ UNCHANGED down /\ spc'[c] # "backlog" /\ Executed'
  BY RestStep, ExecutedStays DEF Answered
<1>2. UNCHANGED Answers /\ \A a : UNCHANGED Frame(a)
  BY ShellFrame DEF client, Answers, Frame, Payload
<1> QED BY <1>1, <1>2 DEF Answered

LEMMA FailedStep ==
    ASSUME TypeOK, NEW c \in Conns, c \in copen, Failed(c), ShellStep(c) \/ HandlerReturns(c)
    PROVE  Failed(c)'
<1>0. spc \in [Conns -> ShellPCs]
  BY DEF TypeOK
<1>1. CASE spc[c] = "close"
  <2>1. ShellClose(c) /\ down[c] = <<>>
    BY <1>1, OneAction DEF Failed
  <2>2. down'[c] = <<>> \/ down'[c] = <<Error>>
    BY <2>1, SendOK DEF ShellClose, Error
  <2> QED BY <1>0, <2>1, <2>2 DEF ShellClose, Failed, Error
<1>2. CASE spc[c] = "closing"
  BY <1>0, <1>2, OneAction DEF ShellEnd, Failed, Error
<1> QED BY <1>1, <1>2, OneAction DEF Failed, Unserved

LEMMA HalfAnsweredStep ==
    ASSUME TypeOK, NEW c \in Conns, c \in copen, HalfAnswered(c), ShellStep(c) \/ HandlerReturns(c)
    PROVE  HalfAnswered(c)'
<1>0. /\ spc \in [Conns -> ShellPCs] /\ tr \in [Conns -> Trs] /\ op \in Ops
  BY DEF TypeOK, Trs
<1>1. UNCHANGED <<got, Answers, Error, Payload(op)>>
  BY ShellFrame DEF client, Answers, Error, Payload
<1>2. CASE got = Error /\ Quiet(c) /\ spc[c] \in {"closing", "done"}
  <2>1. Quiet(c)'
    BY <1>2, QuietStep
  <2>2. spc'[c] \in {"closing", "done"}
    BY <1>0, <1>2, OneAction DEF ShellEnd, Unserved
  <2> QED BY <1>1, <1>2, <2>1, <2>2 DEF HalfAnswered
<1>3. CASE /\ Executed /\ got \in Answers /\ AtRest(c)
           /\ down[c] = IF got.len = 0 THEN <<>> ELSE <<Payload(op)>>
  <2>1. AtRest(c)' /\ UNCHANGED down /\ Executed'
    BY <1>3, RestStep, ExecutedStays
  <2> QED BY <1>1, <1>3, <2>1, ShellFrame DEF HalfAnswered, client
<1>4. CASE /\ Executed /\ got \in Answers /\ spc[c] = "txPay" /\ tr[c].out = got /\ got.len = 1
           /\ up[c] = <<>> /\ down[c] = <<>>
  <2>1. ShellSendPayload(c) /\ UNCHANGED up /\ Executed'
    BY <1>4, OneAction, ExecutedStays DEF ShellSendPayload
  <2>2. down'[c] = <<Payload(op)>> /\ Stage(c, tr[c], "OK", "top")
    BY <1>0, <1>4, <2>1, SendOK, AnswersType DEF ShellSendPayload
  <2>3. AtRest(c)'
    BY <1>0, <1>4, <2>1, <2>2 DEF Stage, AtRest
  <2> QED BY <1>1, <1>4, <2>1, <2>2, <2>3, ShellFrame DEF HalfAnswered, client
<1> QED BY <1>2, <1>3, <1>4 DEF HalfAnswered

LEMMA OwnShellStep ==
    ASSUME Typing, NoLeakedHandle, InStep, m_sock \in Conns \ tainted',
           ShellStep(m_sock) \/ HandlerReturns(m_sock)
    PROVE  InStepOn(m_sock)'
<1> USE ShellFrame DEF client
<1>0. TypeOK /\ m_sock \in copen /\ Exchange
  BY DEF Typing, NoLeakedHandle, InStep
<1>1. UNCHANGED <<cpc, state, m_sock, got, pay, op, call, Error, Answers>>
  BY <1>0 DEF Error, Answers
<1>2. m_sock \notin tainted
  BY <1>0 DEF ShellStep, HandlerReturns, ShellTop, FrameWait, ShellRxEntry, ShellReadPrefix,
       ShellReadPayload, ShellCmdExec, ShellSendPrefix, ShellSendPayload, ShellClose, ShellEnd
<1>3. InStepOn(m_sock)
  BY <1>2 DEF InStep
<1> DEFINE c == m_sock
<1>4. ASSUME Quiet(c) PROVE Quiet(c)'
  BY <1>0, <1>1, <1>4, QuietStep
<1>5. ASSUME Asked(c), cpc # "idle" PROVE Asked(c)'
  BY <1>0, <1>1, <1>5, NotReadStep, HalfReadStep, ExecutingStep, AnsweringStep, AnsweredStep,
     FailedStep DEF Asked
<1>6. ASSUME HalfAnswered(c) PROVE HalfAnswered(c)'
  BY <1>0, <1>1, <1>6, HalfAnsweredStep
<1>7. ASSUME OwnAnswer PROVE OwnAnswer'
  BY <1>0, <1>1, <1>7, ExecutedStays DEF OwnAnswer
<1> QED BY <1>1, <1>3, <1>4, <1>5, <1>6, <1>7 DEF InStepOn

-----------------------------------------------------------------------------
(* The steps of others *)

\* Where nothing of the connection, the client and the exchange changes
LEMMA InStepFrame ==
    ASSUME NEW c, InStepOn(c), Executed => Executed',
           UNCHANGED <<client, m_sock, up[c], down[c], spc[c], tr[c]>>
    PROVE  InStepOn(c)'
<1> USE DEF client
<1>1. UNCHANGED <<Request, Answers, Error, Payload(op)>> /\ \A u : UNCHANGED Frame(u)
  BY DEF Request, Answers, Error, Payload, Frame
<1>2. UNCHANGED <<AtRest(c), Quiet(c), NotRead(c), HalfRead(c), Failed(c)>>
  BY <1>1 DEF AtRest, Quiet, NotRead, HalfRead, Failed
<1>3. /\ Executing(c) => Executing(c)'
      /\ Answering(c) => Answering(c)'
      /\ Answered(c) => Answered(c)'
      /\ HalfAnswered(c) => HalfAnswered(c)'
      /\ OwnAnswer => OwnAnswer'
  BY <1>1, <1>2 DEF Executing, Answering, Answered, HalfAnswered, OwnAnswer
<1> QED BY <1>2, <1>3 DEF InStepOn, Asked

\* tr of a shell matters only while a request is being served
LEMMA Unaccepted ==
    ASSUME TypeOK, NEW c, InStepOn(c), spc[c] = "backlog",
           UNCHANGED <<client, m_sock, execs, down[c]>>,
           \/ spc'[c] = "top" /\ UNCHANGED up[c]
           \/ spc'[c] = "done"
    PROVE  InStepOn(c)'
<1> USE DEF client
<1>1. UNCHANGED <<Request, Answers, Error, Payload(op), Executed>> /\ \A u : UNCHANGED Frame(u)
  BY DEF Request, Answers, Error, Payload, Executed, Frame
<1>2. AtRest(c) => AtRest(c)'
  BY DEF AtRest
<1>3. Quiet(c) => Quiet(c)'
  BY <1>2 DEF Quiet
<1>4. Asked(c) => NotRead(c)
  BY DEF Asked, HalfRead, Failed, Executing, Answering, Answered
<1>5. NotRead(c) => (NotRead(c) \/ Failed(c))'
  BY <1>1 DEF NotRead, Failed
<1>6. HalfAnswered(c) => HalfAnswered(c)'
  BY <1>1, <1>2 DEF HalfAnswered
<1>7. UNCHANGED OwnAnswer
  BY <1>1 DEF OwnAnswer
<1> QED BY <1>3, <1>4, <1>5, <1>6, <1>7 DEF InStepOn, Asked

LEMMA ServiceInStep ==
    ASSUME Typing, InStep, Manage \/ ServiceDown \/ \E d \in Conns : Accept(d)
    PROVE  InStep'
<1>1. UNCHANGED <<client, m_sock, tainted, execs, down>>
  BY DEF Manage, Start, Stop, ServiceDown, Accept, network
<1>2. UNCHANGED <<Exchange, Executed>>
  BY <1>1 DEF Exchange, Executed, client
<1> SUFFICES ASSUME m_sock \in Conns, InStepOn(m_sock) PROVE InStepOn(m_sock)'
  BY <1>1, <1>2 DEF InStep
<1>3. CASE UNCHANGED <<up[m_sock], spc[m_sock], tr[m_sock]>>
  BY <1>1, <1>2, <1>3, InStepFrame
<1>4. CASE /\ spc[m_sock] = "backlog"
           /\ \/ spc'[m_sock] = "top" /\ UNCHANGED up[m_sock]
              \/ spc'[m_sock] = "done"
  BY <1>1, <1>4, Unaccepted DEF Typing
<1> QED
  BY <1>1, <1>3, <1>4 DEF Manage, Start, Stop, ServiceDown, Accept, network, Typing, TypeOK

LEMMA ShellInStep ==
    ASSUME Typing, NoLeakedHandle, InStep, NEW d \in Conns, ShellStep(d) \/ HandlerReturns(d)
    PROVE  InStep'
<1>1. UNCHANGED <<client, m_sock>> /\ tainted \subseteq tainted'
  BY ShellFrame
     DEF ShellStep, HandlerReturns, ShellTop, FrameWait, ShellRxEntry, ShellReadPrefix,
         ShellReadPayload, ShellCmdExec, ShellSendPrefix, ShellSendPayload, ShellClose, ShellEnd
<1>2. Exchange'
  BY <1>1 DEF Exchange, InStep, client
<1> SUFFICES ASSUME m_sock \in Conns \ tainted' PROVE InStepOn(m_sock)'
  BY <1>1, <1>2 DEF InStep
<1>3. CASE d = m_sock
  BY <1>1, <1>3, OwnShellStep
<1>4. CASE d # m_sock
  <2>1. UNCHANGED <<up[m_sock], down[m_sock], spc[m_sock], tr[m_sock]>>
    BY <1>1, <1>4
       DEF ShellStep, HandlerReturns, ShellTop, FrameWait, ShellRxEntry, ShellReadPrefix,
           ShellReadPayload, ShellCmdExec, ShellSendPrefix, ShellSendPayload, ShellClose,
           ShellEnd, Stage, ShellTx, ShellTakes, ShellRxFails, network, Typing, TypeOK
  <2>2. Executed => Executed'
    BY ExecutedStays DEF Typing
  <2> QED BY <1>1, <2>1, <2>2, InStepFrame DEF InStep
<1> QED BY <1>3, <1>4

-----------------------------------------------------------------------------
(* The client's steps *)

\* No connection, or one out of step
LEMMA Excused ==
    ASSUME Exchange', m_sock' \in Conns => m_sock' \in tainted'
    PROVE  InStep'
BY DEF InStep

\* A new connection is quiet
LEMMA ConnectQuiet ==
    ASSUME TypeOK, NEW res, connect(res), m_sock' \in Conns
    PROVE  Quiet(m_sock)'
BY DEF TypeOK, connect, ConnectOn, socket_close, Quiet, AtRest

LEMMA AppCallInStep ==
    ASSUME Typing, InStep, AppCall
    PROVE  InStep'
<1>1. CASE Connect
  <2>1. cpc' = "idle"
    BY <1>1 DEF Connect, client
  <2> QED BY <1>1, <2>1, ConnectQuiet DEF Connect, InStep, InStepOn, Exchange, Typing
<1>2. CASE Close
  <2>1. cpc' = "idle" /\ m_sock' = NoSock
    BY <1>2 DEF Close, client, socket_close
  <2> QED BY <2>1, Excused DEF Exchange
<1>3. ASSUME NEW kind, NEW len \in {0, 1}, kind = "SYNC" => len = 0, Begin(kind, len)
      PROVE  InStep'
  <2>1. /\ cpc = "idle" /\ cpc' = "txHdr" /\ call' = kind /\ outLen' = len
        /\ UNCHANGED <<m_sock, tainted, spc, up, down>>
    BY <1>3 DEF Begin, network, server
  <2>2. Exchange'
    BY <1>3, <2>1 DEF Exchange
  <2>3. UNCHANGED Quiet(m_sock)
    BY <2>1 DEF Quiet, AtRest
  <2> QED BY <2>1, <2>2, <2>3 DEF InStep, InStepOn
<1> QED BY <1>1, <1>2, <1>3 DEF AppCall, StartTransaction, StartSync

\* The request is on its way, or is lost with its connection
LEMMA RequestSent ==
    ASSUME TypeOK, m_sock \in Conns, Quiet(m_sock), ClientTx(Request, "OK"),
           cpc' = "txPay" <=> outLen # 0,
           UNCHANGED <<call, op, outLen, m_sock, down, spc, tr>>
    PROVE  Asked(m_sock)'
<1> DEFINE c == m_sock
<1>1. UNCHANGED Request /\ Frame(Request)' = Frame(Request)
  BY DEF Request, Frame, Payload
<1>2. CASE spc[c] \in {"closing", "done"}
  BY <1>2 DEF Quiet, Asked, Failed
<1>3. CASE spc[c] \in {"backlog", "top", "wait"}
  <2>1. up[c] = <<>> /\ down[c] = <<>>
    BY <1>3 DEF Quiet, AtRest
  <2>2. up'[c] = <<Request>>
    BY <1>3, <2>1 DEF ClientTx, Peer, TypeOK
  <2>3. outLen = 0 => Frame(Request) = <<Request>>
    BY DEF Frame, Request, Prefix
  <2> QED BY <1>1, <1>3, <2>1, <2>2, <2>3 DEF TypeOK, Asked, NotRead
<1> QED BY <1>2, <1>3 DEF ClientTx, Peer, Quiet, AtRest

LEMMA SendPrefixInStep ==
    ASSUME Typing, InStep, SendPrefix
    PROVE  InStep'
<1>1. /\ cpc = "txHdr" /\ call = "TRANSACTION" /\ outLen \in {0, 1}
      /\ UNCHANGED <<call, op, outLen, got, m_sock, down, spc, tr, tainted>>
  BY DEF SendPrefix, server, Typing, TypeOK
<1>2. PICK res \in {"OK", "TX"} :
        /\ ClientTx(Request, res)
        /\ Go(res, IF outLen = 0 THEN "rxHdr" ELSE "txPay")
  BY <1>1 DEF SendPrefix, Request
<1>3. Exchange'
  BY <1>1, <1>2 DEF Go, Exchange
<1>4. CASE res = "TX"
  BY <1>2, <1>3, <1>4 DEF Go, InStep, InStepOn
<1>5. ASSUME res = "OK", m_sock \in Conns \ tainted PROVE Asked(m_sock)'
  <2>1. Quiet(m_sock)
    BY <1>1, <1>5 DEF InStep, InStepOn
  <2> QED BY <1>1, <1>2, <1>5, <2>1, RequestSent DEF Go, Typing
<1>6. CASE res = "OK"
  BY <1>1, <1>2, <1>3, <1>5, <1>6 DEF Go, InStep, InStepOn
<1> QED BY <1>4, <1>6

LEMMA SendPayloadInStep ==
    ASSUME Typing, InStep, SendPayload
    PROVE  InStep'
<1>1. /\ cpc = "txPay" /\ call = "TRANSACTION" /\ outLen = 1 /\ m_sock \in Conns
      /\ UNCHANGED <<call, op, outLen, got, m_sock, down, spc, tr, tainted>>
  BY DEF SendPayload, server, Typing, SockHeld, InStep, Exchange
<1>2. PICK res \in {"OK", "TX"} : ClientTx(Payload(op), res) /\ Go(res, "rxHdr")
  BY <1>1 DEF SendPayload
<1>3. Exchange'
  BY <1>1, <1>2 DEF Go, Exchange
<1>4. CASE res = "TX"
  BY <1>2, <1>3, <1>4 DEF Go, InStep, InStepOn
<1>5. ASSUME res = "OK", m_sock \notin tainted PROVE Asked(m_sock)'
  <2> DEFINE c == m_sock
  <2>0. /\ UNCHANGED <<Request, Payload(op)>> /\ cpc' = "rxHdr"
        /\ op \in Ops /\ up \in [Conns -> Seq(Units)]
    BY <1>1, <1>2, <1>5 DEF Request, Payload, Go, Typing, TypeOK
  <2>1. CASE NotRead(c)
    <3>1. up'[c] = Append(<<Request>>, Payload(op))
      BY <1>1, <1>2, <1>5, <2>0, <2>1 DEF ClientTx, Peer, NotRead
    <3>2. Request \in Units /\ Payload(op) \in Units
      BY <1>1, <2>0, PrefixType, PayloadType DEF Request, Cmds
    <3>3. up'[c] = <<Request, Payload(op)>>
      BY <3>1, <3>2, AppendToOne
    <3>4. Frame(Request)' = <<Request, Payload(op)>>
      BY <1>1, <2>0 DEF Frame, Request, Prefix, Payload
    <3> QED BY <1>1, <2>0, <2>1, <3>3, <3>4 DEF NotRead, Asked
  <2>2. CASE HalfRead(c)
    <3>1. up'[c] = <<Payload(op)>>
      BY <1>1, <1>2, <1>5, <2>0, <2>2 DEF ClientTx, Peer, HalfRead
    <3> QED BY <1>1, <2>0, <2>2, <3>1 DEF HalfRead, Asked
  <2>3. CASE Failed(c)
    BY <1>1, <2>3 DEF Failed, Error, Asked
  <2>4. Asked(c)
    BY <1>1, <1>5 DEF InStep, InStepOn
  <2> QED BY <1>1, <2>1, <2>2, <2>3, <2>4 DEF Asked
<1>6. CASE res = "OK"
  BY <1>1, <1>2, <1>3, <1>5, <1>6 DEF Go, InStep, InStepOn
<1> QED BY <1>4, <1>6

LEMMA FrameRxEntryInStep ==
    ASSUME Typing, InStep, FrameRxEntry
    PROVE  InStep'
<1> DEFINE c == m_sock
<1>1. /\ UNCHANGED <<call, op, outLen, got, pay, m_sock, up, down, spc, tr, execs, tainted>>
      /\ c \in Conns /\ got \in Prefixes
  BY DEF FrameRxEntry, network, server, Typing, TypeOK, SockHeld
<1>2. /\ cpc \in {"rxHdr", "rxPay"}
      /\ \/ Go("TIMEOUT", "end")
         \/ cpc = "rxHdr" /\ Go("OK", "rxHdrLoop")
         \/ cpc = "rxPay" /\ Go("OK", IF got.len = 0 THEN "end" ELSE "rxPayLoop")
  BY DEF FrameRxEntry
<1>3. Exchange'
  BY <1>1, <1>2 DEF Go, InStep, Exchange, Prefixes
<1>4. UNCHANGED <<Request, Answers, Error, Payload(op), Executed>> /\ \A u : UNCHANGED Frame(u)
  BY <1>1 DEF Request, Answers, Error, Payload, Executed, Frame
<1>5. CASE Go("TIMEOUT", "end")
  BY <1>3, <1>5 DEF Go, InStep, InStepOn
<1>6. CASE cpc = "rxHdr" /\ Go("OK", "rxHdrLoop")
  <2>1. Asked(c) => Asked(c)'
    BY <1>1, <1>4, <1>6
       DEF Go, Asked, NotRead, HalfRead, Failed, Executing, Answering, Answered, AtRest
  <2> QED BY <1>1, <1>3, <1>6, <2>1 DEF Go, InStep, InStepOn
<1>7. CASE cpc = "rxPay" /\ got.len # 0 /\ Go("OK", "rxPayLoop")
  <2>1. HalfAnswered(c) => HalfAnswered(c)'
    BY <1>1, <1>4 DEF HalfAnswered, Quiet, AtRest
  <2> QED BY <1>1, <1>3, <1>7, <2>1 DEF Go, InStep, InStepOn
<1>8. CASE cpc = "rxPay" /\ got.len = 0 /\ Go("OK", "end")
  <2>1. HalfAnswered(c) => Quiet(c)' /\ OwnAnswer'
    BY <1>1, <1>4, <1>8 DEF HalfAnswered, Quiet, AtRest, OwnAnswer
  <2> QED BY <1>1, <1>3, <1>8, <2>1 DEF Go, InStep, InStepOn
<1> QED BY <1>2, <1>5, <1>6, <1>7, <1>8

\* What the client reads is its answer, or CMD_ERROR, and nothing is behind it
\* but the payload of the answer
LEMMA HeadOfAnswer ==
    ASSUME TypeOK, m_sock \in Conns, Asked(m_sock), NEW u, ClientTakes(u)
    PROVE  /\ IsPrefix(u)
           /\ \/ u = Error /\ down'[m_sock] = <<>> /\ spc[m_sock] \in {"closing", "done"}
              \/ /\ Executed /\ u \in Answers
                 /\ \/ /\ AtRest(m_sock)
                       /\ down'[m_sock] = IF u.len = 0 THEN <<>> ELSE <<Payload(op)>>
                    \/ /\ spc[m_sock] = "txPay" /\ tr[m_sock].out = u /\ u.len = 1
                       /\ up[m_sock] = <<>> /\ down'[m_sock] = <<>>
<1> DEFINE c == m_sock
<1>0. op \in Ops /\ down[c] # <<>> /\ u = Head(down[c]) /\ down'[c] = Tail(down[c])
  BY DEF TypeOK, ClientTakes
<1>1. CASE Failed(c)
  <2>1. down[c] = <<Error>> /\ spc[c] \in {"closing", "done"}
    BY <1>0, <1>1 DEF Failed
  <2> QED BY <1>0, <2>1 DEF Error, IsPrefix, Prefix
<1>2. CASE Answering(c)
  <2>1. down[c] = <<tr[c].out>> /\ spc[c] = "txPay" /\ tr[c].out.len = 1 /\ Executed
        /\ tr[c].out \in Answers /\ up[c] = <<>>
    BY <1>0, <1>2 DEF Answering
  <2>2. IsPrefix(tr[c].out)
    BY <2>1 DEF Answers, IsPrefix, Prefix
  <2> QED BY <1>0, <2>1, <2>2
<1>3. CASE Answered(c)
  <2>1. PICK a \in Answers : down[c] = Frame(a)
    BY <1>3 DEF Answered
  <2>2. Head(Frame(a)) = a /\ Tail(Frame(a)) = IF a.len = 0 THEN <<>> ELSE <<Payload(op)>>
    BY DEF Frame
  <2>3. IsPrefix(a)
    BY <2>1 DEF Answers, IsPrefix, Prefix
  <2> QED BY <1>0, <1>3, <2>1, <2>2, <2>3 DEF Answered
<1> QED BY <1>0, <1>1, <1>2, <1>3 DEF Asked, NotRead, HalfRead, Executing

LEMMA RecvHeaderInStep ==
    ASSUME Typing, InStep, RecvHeader
    PROVE  InStep'
<1> DEFINE c == m_sock
<1>1. /\ UNCHANGED <<call, op, outLen, pay, m_sock, up, spc, tr, execs>>
      /\ cpc = "rxHdrLoop" /\ call = "TRANSACTION" /\ c \in Conns
      /\ cpc' \in {"rxPay", "end"} /\ (cpc' = "end" => state' # "OK")
  BY DEF RecvHeader, server, Typing, SockHeld, Go
<1>2. Exchange'
  BY <1>1 DEF Exchange
<1>3. CASE cpc' = "end"
  BY <1>1, <1>2, <1>3 DEF InStep, InStepOn
<1>4. CASE c \in tainted'
  BY <1>1, <1>2, <1>4, Excused
<1>5. CASE cpc' = "rxPay" /\ c \notin tainted'
  <2>1. PICK u : ClientTakes(u) /\ IsPrefix(u) /\ got' = u
    BY <1>5 DEF RecvHeader, Go
  <2>2. Asked(c)
    BY <1>1, <1>5 DEF RecvHeader, InStep, InStepOn
  <2>3. HalfAnswered(c)'
    <3>1. UNCHANGED <<Answers, Error, Payload(op), Executed, AtRest(c)>>
      BY <1>1 DEF Answers, Error, Payload, Executed, AtRest
    <3> QED BY <1>1, <2>1, <2>2, <3>1, HeadOfAnswer DEF HalfAnswered, Quiet, AtRest, Typing
  <2> QED BY <1>1, <1>2, <1>5, <2>3 DEF InStep, InStepOn
<1> QED BY <1>1, <1>3, <1>4, <1>5

LEMMA RecvPayloadInStep ==
    ASSUME Typing, InStep, RecvPayload
    PROVE  InStep'
<1> DEFINE c == m_sock
<1>1. /\ UNCHANGED <<call, op, outLen, got, m_sock, up, spc, tr, execs>>
      /\ cpc = "rxPayLoop" /\ call = "TRANSACTION" /\ c \in Conns /\ got.len = 1
      /\ cpc' = "end"
  BY DEF RecvPayload, server, Typing, SockHeld, Go, InStep, Exchange
<1>2. Exchange'
  BY <1>1 DEF Exchange
<1>3. CASE state' # "OK"
  BY <1>1, <1>2, <1>3 DEF InStep, InStepOn
<1>4. CASE c \in tainted'
  BY <1>1, <1>2, <1>4, Excused
<1>5. CASE state' = "OK" /\ c \notin tainted'
  <2>1. PICK u : ClientTakes(u) /\ pay' = IF IsPrefix(u) THEN 0 ELSE u.id
    BY <1>5 DEF RecvPayload, Go
  <2>2. HalfAnswered(c)
    BY <1>1, <1>5 DEF RecvPayload, InStep, InStepOn
  <2>3. /\ Executed /\ got \in Answers
        /\ AtRest(c) /\ down[c] = <<Payload(op)>>
    BY <1>1, <2>1, <2>2 DEF HalfAnswered, ClientTakes, Error, Prefix
  <2>4. pay' = op /\ down'[c] = <<>>
    BY <1>1, <2>1, <2>3 DEF ClientTakes, Payload, IsPrefix, Typing, TypeOK
  <2>5. Quiet(c)' /\ OwnAnswer'
    BY <1>1, <2>3, <2>4 DEF Quiet, AtRest, OwnAnswer, Executed, Answers
  <2> QED BY <1>1, <1>2, <2>5 DEF InStep, InStepOn
<1> QED BY <1>3, <1>4, <1>5

LEMMA EndInStep ==
    ASSUME Typing, InStep, Reconnect \/ TransactionEnd
    PROVE  InStep'
<1>1. CASE Reconnect
  <2>1. PICK res \in {"OK", "OPEN", "CONNECT"} : connect(res) /\ Go(res, "txHdr")
    BY <1>1 DEF Reconnect
  <2>2. cpc = "end" /\ UNCHANGED <<call, outLen>>
    BY <1>1 DEF Reconnect
  <2>3. Exchange'
    BY <2>1, <2>2 DEF Go, InStep, Exchange
  <2> QED BY <2>1, <2>3, ConnectQuiet DEF Go, InStep, InStepOn, Typing
<1>2. CASE TransactionEnd
  <2>1. cpc = "end" /\ cpc' = "idle" /\ Exchange' /\ UNCHANGED <<up, spc, tainted>>
    BY <1>2 DEF TransactionEnd, Return, server, Exchange
  <2>2. CASE state = "OK"
    <3>1. UNCHANGED <<m_sock, down>>
      BY <1>2, <2>2 DEF TransactionEnd
    <3> QED BY <2>1, <2>2, <3>1 DEF InStep, InStepOn, Quiet, AtRest
  <2>3. CASE state # "OK"
    BY <1>2, <2>1, <2>3, Excused DEF TransactionEnd, socket_close
  <2> QED BY <2>2, <2>3
<1> QED BY <1>1, <1>2

LEMMA SyncInStep ==
    ASSUME Typing, InStep, SyncSend \/ SyncRecv
    PROVE  InStep'
<1> DEFINE c == m_sock
<1>1. call = "SYNC" /\ UNCHANGED <<call, op, m_sock, spc, tr, execs>>
  BY DEF SyncSend, SyncRecv, server, SyncEnd, Return
<1>2. CASE cpc' = "idle" /\ (c \in Conns => c \in tainted')
  BY <1>1, <1>2, Excused DEF Exchange
<1>3. CASE /\ SyncSend /\ ClientTx(Prefix("PING_REQUEST", op, 0), "OK")
           /\ Go("OK", "rxHdrLoop") /\ UNCHANGED <<outLen, tainted>>
  <2>1. outLen = 0 /\ cpc' = "rxHdrLoop" /\ cpc = "txHdr" /\ UNCHANGED down
    BY <1>1, <1>3 DEF SyncSend, InStep, Exchange, Go
  <2>2. Exchange'
    BY <1>1, <1>3, <2>1 DEF Exchange
  <2>3. ASSUME c \in Conns \ tainted PROVE Asked(c)'
    <3>1. Quiet(c) /\ Request = Prefix("PING_REQUEST", op, 0)
      BY <1>1, <2>1, <2>3 DEF InStep, InStepOn, Request
    <3> QED BY <1>1, <1>3, <2>1, <2>3, <3>1, RequestSent DEF Typing
  <2> QED BY <1>1, <1>3, <2>1, <2>2, <2>3 DEF InStep, InStepOn
<1>4. ASSUME SyncRecv, NEW u, ClientTakes(u), u.cmd = "PING_RESPONSE", SyncEnd(TRUE)
      PROVE  InStep'
  <2>1. cpc = "rxHdrLoop" /\ cpc' = "idle" /\ UNCHANGED <<tainted, up>> /\ c \in Conns
    BY <1>4 DEF SyncRecv, SyncEnd, Return, Typing, SockHeld
  <2>2. Exchange'
    BY <2>1 DEF Exchange
  <2>3. ASSUME c \notin tainted PROVE Quiet(c)'
    <3>1. Asked(c)
      BY <2>1, <2>3 DEF InStep, InStepOn
    <3>2. u \in Answers /\ AtRest(c) /\ down'[c] = IF u.len = 0 THEN <<>> ELSE <<Payload(op)>>
      BY <1>1, <1>4, <2>1, <3>1, HeadOfAnswer DEF Typing, Error, Prefix, Answers
    <3> QED BY <1>1, <2>1, <3>2 DEF Answers, Prefix, Quiet, AtRest
  <2> QED BY <1>1, <2>1, <2>2, <2>3 DEF InStep, InStepOn
<1> QED BY <1>1, <1>2, <1>3, <1>4 DEF SyncSend, SyncRecv, SyncEnd, Return

LEMMA InStepStep == Typing /\ NoLeakedHandle /\ InStep /\ [Next]_vars => InStep'
<1> SUFFICES ASSUME Typing, NoLeakedHandle, InStep, [Next]_vars PROVE InStep'
  OBVIOUS
<1>1. CASE AppCall
  BY <1>1, AppCallInStep
<1>2. CASE Manage \/ ServiceDown \/ \E c \in Conns : Accept(c)
  BY <1>2, ServiceInStep
<1>3. CASE ClientStep
  BY <1>3, SendPrefixInStep, SendPayloadInStep, FrameRxEntryInStep, RecvHeaderInStep,
     RecvPayloadInStep, EndInStep, SyncInStep DEF ClientStep
<1>4. CASE \E c \in Conns : ShellStep(c) \/ HandlerReturns(c)
  BY <1>4, ShellInStep
<1>5. CASE UNCHANGED vars
  <2>1. UNCHANGED <<Exchange, Executed>>
    BY <1>5 DEF vars, client, Exchange, Executed
  <2> QED BY <1>5, <2>1, InStepFrame DEF InStep, vars, network, server
<1> QED BY <1>1, <1>2, <1>3, <1>4, <1>5 DEF Next

-----------------------------------------------------------------------------
(* The theorems *)

LEMMA AlwaysInStep == Spec => [](Typing /\ NoLeakedHandle /\ InStep)
<1>1. Init => NoLeakedHandle /\ InStep
  BY DEF Init, NoLeakedHandle, InStep, Exchange
<1> QED
  BY <1>1, TypingInit, TypingStep, NoLeakedHandleStep, InStepStep, PTL DEF Spec

\* A Transaction that returns true hands back the handler's answer to this
\* very request, whole, or a CMD_ERROR prefix, and the handler has run, unless
\* Sync or a failing select() put the connection out of step.
THEOREM ReplyOwn == Spec => []ReplyIsOwn
<1>1. Typing /\ InStep => ReplyIsOwn
  <2> SUFFICES ASSUME Typing, InStep, cpc = "end", state = "OK", m_sock \notin tainted
               PROVE  \/ /\ got.cmd = "RESPONSE" /\ got.id = op
                         /\ got.len = 1 => pay = op
                         /\ execs[op] >= 1
                      \/ got = Prefix("ERROR", 0, 0)
    BY DEF ReplyIsOwn
  <2>1. OwnAnswer /\ call = "TRANSACTION"
    BY DEF InStep, InStepOn, Exchange
  <2> QED BY <2>1 DEF OwnAnswer, Executed, Answers, Error, Prefix
<1> QED BY <1>1, AlwaysInStep, PTL

\* A connection that the client keeps between calls carries nothing, and its
\* shell waits for the next request or has ended, unless Sync or a failing
\* select() put it out of step.
THEOREM IdleQuiet == Spec => []IdleIsQuiet
<1>1. Typing /\ InStep => IdleIsQuiet
  BY DEF Typing, TypeOK, InStep, InStepOn, Quiet, AtRest, IdleIsQuiet
<1> QED BY <1>1, AlwaysInStep, PTL

=============================================================================
