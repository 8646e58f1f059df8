----------------------------- MODULE CanSession -----------------------------
(***************************************************************************)
(* A session of tp_transact calls on a CAN bus with several ECUs.          *)
(*                                                                         *)
(* The client half is TpTransact; recv takes the oldest frame of the TWAI  *)
(* receive queue and times out only when that queue is empty.  Nothing in  *)
(* the client empties the queue between two calls.  An ECU answers         *)
(* requests one at a time, in order, as simulator/can_ecu_sim.py does: a   *)
(* long answer stops after its first frame until the next frame addressed  *)
(* to the ECU; a flow control releases the rest, anything else is taken    *)
(* for the awaited flow control and both it and the answer are dropped.    *)
(* Where the simulator hangs up (no flow control in time, a flow control   *)
(* out of place), a vehicle's ECU drops the answer or the frame and goes   *)
(* on.  ECUs take any time over each step, also longer than the client     *)
(* waits.                                                                  *)
(***************************************************************************)
EXTENDS TpTransact

CONSTANTS
    Ecu,            (* response ids of the ECUs on the bus *)
    AnswerLen,      (* AnswerLen[e][r]: bytes e answers to r, 0 = stays silent *)
    NotSent,        (* in asked: a call whose request could not be sent *)
    RxCap,          (* length of the TWAI receive queue *)
    MaxCalls,       (* bound on the number of calls *)
    MaxRemote       (* bound on remote frames on the bus *)

ASSUME SessionAssumption ==
    /\ Ecu \subseteq RespIds(Variant)
    /\ AnswerLen \in [Ecu -> [Request -> 0 .. Smaller(RespCap, TpMaxPayload)]]
    /\ RxCap \in Nat \ {0}
    /\ MaxCalls \in Nat /\ MaxRemote \in Nat

VARIABLES
    asked,      \* the requests of the calls started so far
    rxq,        \* the client's receive queue
    inbox,      \* inbox[e]: client frames e has not read yet
    ecu,        \* ecu[e]: what e is doing
    remote,     \* remote frames put on the bus so far
    said,       \* history: messages some ECU has begun to send
    taken,      \* history: messages a call has returned
    lost,       \* history: a frame found the receive queue full
    clean       \* history: before this call, every call was CleanSoFar

busVars == << rxq, lost >>
ecuVars == << inbox, ecu, said >>
sessionVars == << asked, busVars, ecuVars, taken, remote, clean >>
allVars == << vars, sessionVars >>

calls == Len(asked)

(* One answer: who gave it, to which request of which call, how long.      *)
Message(e, r, c) == [src |-> e, req |-> r, call |-> c, len |-> AnswerLen[e][r]]
Chunk(m, k) == [msg |-> m, k |-> k]
WholeOf(m) == [k \in 1 .. ChunkCount(m.len) |-> Chunk(m, k)]

EcuFrame(m, pci, n, dlc, k) ==
    [id |-> m.src, extd |-> Extended(Variant), dlc |-> dlc, pci |-> pci,
     n |-> n, data |-> Chunk(m, k)]

SingleOf(m) == EcuFrame(m, "SF", m.len, m.len + 1, 1)
FirstOf(m) == EcuFrame(m, "FF", m.len, 8, 1)
NextOf(m, k) ==
    EcuFrame(m, "CF", (k - 1) % SeqCount,
             1 + Carried(m.len, k) - Carried(m.len, k - 1), k)

(* The frames TpTransact can be handed include those of the ECUs.          *)
ASSUME BusAssumption ==
    \A e \in Ecu, r \in Request, c \in 1 .. MaxCalls :
        LET m == Message(e, r, c) IN
          m.len > 0 =>
            /\ IF m.len <= SingleBytes THEN SingleOf(m) \in BusFrame
                                       ELSE FirstOf(m) \in BusFrame
            /\ \A k \in 2 .. ChunkCount(m.len) : NextOf(m, k) \in BusFrame

Idle == [st |-> "idle", msg |-> None, k |-> 0]

Remote == [pci |-> "RTR"]

SessionInit ==
    /\ Init
    /\ asked = << >>
    /\ rxq = << >> /\ lost = FALSE
    /\ inbox = [e \in Ecu |-> << >>]
    /\ ecu = [e \in Ecu |-> Idle]
    /\ said = {} /\ taken = {}
    /\ remote = 0
    /\ clean = TRUE

-----------------------------------------------------------------------------
(* Mutation of Queue: the receive queue grows without bound.               *)
QueueUnbounded(f) == rxq' = Append(rxq, f) /\ UNCHANGED lost

(* The driver queues a frame, or counts it as missed when the queue is full. *)
Queue(f) ==
    IF Len(rxq) < RxCap
    THEN rxq' = Append(rxq, f) /\ UNCHANGED lost
    ELSE lost' = TRUE /\ UNCHANGED rxq

(* Every call so far returned a reply, and its request had one answer.     *)
Answering(r) == {e \in Ecu : AnswerLen[e][r] > 0}
CleanSoFar ==
    calls = 0 \/ ( /\ clean
                  /\ result.code = "OK"
                  /\ \A e, d \in Answering(req) : e = d )

(* Mutation of ClientCall: the request goes out twice.                     *)
ClientCallTwice(r) ==
    /\ calls < MaxCalls
    /\ Call(r)
    /\ asked' = Append(asked, r)
    /\ LET q == [kind |-> "REQ", req |-> r, call |-> calls'] IN
         inbox' = [e \in Ecu |-> inbox[e] \o << q, q >>]
    /\ clean' = CleanSoFar
    /\ UNCHANGED << busVars, ecu, said, taken, remote >>

(* A functional request reaches every ECU.                                 *)
ClientCall(r) ==
    /\ calls < MaxCalls
    /\ Call(r)
    /\ asked' = Append(asked, r)
    /\ inbox' = [e \in Ecu |->
                   Append(inbox[e], [kind |-> "REQ", req |-> r, call |-> calls'])]
    /\ clean' = CleanSoFar
    /\ UNCHANGED << busVars, ecu, said, taken, remote >>

ClientCallFails(r) ==
    /\ calls < MaxCalls
    /\ CallSendFails(r)
    /\ asked' = Append(asked, NotSent)
    /\ clean' = FALSE
    /\ UNCHANGED << busVars, ecuVars, taken, remote >>

(* A flow control is addressed to one ECU.                                 *)
Deliver ==
    inbox' = [e \in Ecu |->
        IF Len(sent') > Len(sent) /\ PhysFor(Variant, e) = sent'[Len(sent')].id
        THEN Append(inbox[e], [kind |-> "FC"])
        ELSE inbox[e]]

ClientFrame ==
    /\ rxq # << >> /\ Head(rxq) # Remote
    /\ OnFrame(Head(rxq))
    /\ rxq' = Tail(rxq)
    /\ Deliver
    /\ taken' = taken \cup
         IF result' # result /\ result'.code = "OK"
         THEN {result'.chunk[1].msg} ELSE {}
    /\ UNCHANGED << asked, lost, ecu, said, remote, clean >>

(* twai_recv drops a remote frame but returns 1, which means timeout.      *)
ClientRemote ==
    /\ rxq # << >> /\ Head(rxq) = Remote
    /\ Timeout
    /\ rxq' = Tail(rxq)
    /\ UNCHANGED << asked, lost, ecuVars, taken, remote, clean >>

(* Mutation of ClientTimeout: no deadline runs before the first frame.     *)
ClientTimeoutLate ==
    /\ rxq = << >> /\ responder # NoResponder
    /\ Timeout
    /\ UNCHANGED sessionVars

ClientTimeout ==
    /\ rxq = << >>
    /\ Timeout
    /\ UNCHANGED sessionVars

ClientStep == ClientFrame \/ ClientRemote \/ ClientTimeout

-----------------------------------------------------------------------------
Reading(e, st) == ecu[e].st = st /\ inbox[e] # << >>
Consume(e) == inbox' = [inbox EXCEPT ![e] = Tail(@)]

EcuUnchanged == UNCHANGED << vars, asked, taken, remote, clean >>

(* An idle ECU reads a request it has no data for, or a flow control that  *)
(* comes too late: nothing is sent.                                        *)
EcuSilent(e) ==
    /\ Reading(e, "idle")
    /\ LET x == Head(inbox[e]) IN
         x.kind = "FC" \/ (x.kind = "REQ" /\ AnswerLen[e][x.req] = 0)
    /\ Consume(e)
    /\ UNCHANGED << busVars, ecu, said >>
    /\ EcuUnchanged

EcuAnswer(e) ==
    /\ Reading(e, "idle")
    /\ LET x == Head(inbox[e]) IN
         /\ x.kind = "REQ" /\ AnswerLen[e][x.req] > 0
         /\ LET m == Message(e, x.req, x.call) IN
              /\ said' = said \cup {m}
              /\ IF m.len <= SingleBytes
                 THEN Queue(SingleOf(m)) /\ UNCHANGED ecu
                 ELSE /\ Queue(FirstOf(m))
                      /\ ecu' = [ecu EXCEPT ![e] =
                                   [st |-> "wait", msg |-> m, k |-> 2]]
    /\ Consume(e)
    /\ EcuUnchanged

(* The next frame from the client is taken for the flow control.           *)
EcuReleased(e) ==
    /\ Reading(e, "wait")
    /\ Consume(e)
    /\ ecu' = [ecu EXCEPT ![e] =
                 IF Head(inbox[e]).kind = "FC" THEN [@ EXCEPT !.st = "send"]
                                               ELSE Idle]
    /\ UNCHANGED << busVars, said >>
    /\ EcuUnchanged

(* No flow control within the ECU's own timeout.                           *)
EcuGivesUp(e) ==
    /\ ecu[e].st = "wait"
    /\ ecu' = [ecu EXCEPT ![e] = Idle]
    /\ UNCHANGED << busVars, inbox, said >>
    /\ EcuUnchanged

EcuSendNext(e) ==
    /\ ecu[e].st = "send"
    /\ LET m == ecu[e].msg  k == ecu[e].k IN
         /\ Queue(NextOf(m, k))
         /\ ecu' = [ecu EXCEPT ![e] = IF k = ChunkCount(m.len) THEN Idle
                                      ELSE [@ EXCEPT !.k = k + 1]]
    /\ UNCHANGED << inbox, said >>
    /\ EcuUnchanged

EcuStep(e) ==
    \/ EcuSilent(e) \/ EcuAnswer(e) \/ EcuReleased(e)
    \/ EcuGivesUp(e) \/ EcuSendNext(e)

(* Frames of other ids are in TpTransact's BusFrame; a remote frame        *)
(* matters here because recv does not hand it over.                        *)
RemoteFrame ==
    /\ remote < MaxRemote
    /\ remote' = remote + 1
    /\ Queue(Remote)
    /\ UNCHANGED << vars, asked, ecuVars, taken, clean >>

SessionNext ==
    \/ \E r \in Request : ClientCall(r) \/ ClientCallFails(r)
    \/ ClientStep
    \/ \E e \in Ecu : EcuStep(e)
    \/ RemoteFrame

SessionSpec == SessionInit /\ [][SessionNext]_allVars

(* The scan task runs: recv returns, with a frame or at its deadline.      *)
FairSession == SessionSpec /\ WF_allVars(ClientStep)

-----------------------------------------------------------------------------
SessionTypeOK ==
    /\ asked \in Seq(Request \cup {NotSent}) /\ calls <= MaxCalls
    /\ Len(rxq) <= RxCap
    /\ ecu \in [Ecu -> {Idle} \cup [st : {"wait", "send"}, msg : said, k : Nat]]
    /\ \A e \in Ecu : \A i \in DOMAIN inbox[e] : inbox[e][i].kind \in {"REQ", "FC"}
    /\ remote \in 0 .. MaxRemote

(* A reply is one ECU's answer from its first byte to its last: frames of  *)
(* two answers are never joined, though answers may be late, abandoned     *)
(* halfway or interleaved with another ECU's - as long as no frame was     *)
(* missed by a full receive queue.                                         *)
WholeMessage ==
    result.code = "OK" /\ ~lost =>
        \E m \in said : /\ result.from = m.src
                        /\ result.len = m.len
                        /\ result.chunk = WholeOf(m)

(* The session implements TransactService: at the level of calls, answers  *)
(* are returned whole and once, and a transfer is refused only where an    *)
(* earlier answer got in its way.                                          *)
SessionAnswers == {Message(e, r, c) : e \in Ecu, r \in Request, c \in 1 .. MaxCalls}
WholeAnswers == {m \in said : result.chunk = WholeOf(m)}

Service == INSTANCE TransactService WITH
    Answers <- SessionAnswers,
    busy <- (pc = "recv"),
    given <- said,
    returned <- taken,
    lossy <- lost,
    outcome <- [code   |-> IF result.code = "OK" /\ WholeAnswers = {}
                           THEN "GARBLED" ELSE result.code,
                answer |-> WholeAnswers]

ImplementsService == Service!ServiceSpec

(* While every earlier call got a reply, and one ECU had an answer to each *)
(* earlier request, client and vehicle are in step: a reply answers the    *)
(* call it is returned from, not an earlier one.                           *)
InStep ==
    pc = "idle" /\ result.code = "OK" /\ clean /\ ~lost =>
        \A i \in DOMAIN result.chunk : result.chunk[i].msg.call = calls

(* "OBDC_ERR_TIMEOUT: no (usable) response within the deadline"            *)
(* (obd_client.h:41), "ignore remote frames" (twai_transport.c:103): a     *)
(* call does not report a timeout while a frame of the answer to that very *)
(* call is waiting in the receive queue - unless sending the flow control  *)
(* failed, the other thing reported as a timeout.                          *)
AnswerWaiting ==
    \E i \in DOMAIN rxq : rxq[i] # Remote /\ rxq[i].data.msg.call = calls
FlowControlFailed == rxq # << >> /\ Head(rxq) # Remote /\ Head(rxq).pci = "FF"

TimeoutMeansNoResponse ==
    [][ pc = "recv" /\ result'.code = "TIMEOUT"
          => FlowControlFailed \/ ~AnswerWaiting ]_allVars

(* Every call comes back, whatever the ECUs do or stop doing.              *)
CallReturns == pc = "recv" ~> pc = "idle"
=============================================================================
