-------------------------- MODULE CanSessionProofs --------------------------
(***************************************************************************)
(* Theorems about sessions of tp_transact calls, for any number of ECUs,   *)
(* calls and remote frames, any answer lengths and any receive queue.      *)
(***************************************************************************)
EXTENDS CanSession, TpTransactProofs, Lists

(* The frame with chunk k of an answer.                                    *)
Sent(m, k) ==
    IF k > 1 THEN NextOf(m, k)
    ELSE IF m.len <= SingleBytes THEN SingleOf(m) ELSE FirstOf(m)

-----------------------------------------------------------------------------
(* The answers: each is to the request of an earlier call, and what an ECU *)
(* has still to read came after what it has answered.                      *)
IsMessage(m) ==
    /\ m = Message(m.src, m.req, m.call)
    /\ m.src \in Ecu /\ m.req \in Request /\ m.call \in 1 .. calls
    /\ m.req = asked[m.call] /\ m.len > 0

IsEntry(e, x) ==
    \/ x = [kind |-> "FC"]
    \/ /\ x = [kind |-> "REQ", req |-> x.req, call |-> x.call]
       /\ x.call \in 1 .. calls /\ x.req = asked[x.call] /\ x.req \in Request
       /\ \A m \in said : m.src = e => m.call < x.call

InboxOk(e, q) ==
    /\ IsList(q)
    /\ \A i \in DOMAIN q : IsEntry(e, q[i])
    /\ \A i, j \in DOMAIN q :
         i < j /\ q[i].kind = "REQ" /\ q[j].kind = "REQ" => q[i].call < q[j].call

EcuOk(e, x) ==
    \/ x = Idle
    \/ /\ x = [st |-> x.st, msg |-> x.msg, k |-> x.k]
       /\ x.st \in {"wait", "send"}
       /\ x.msg \in said /\ x.msg.src = e /\ x.k \in 2 .. ChunkCount(x.msg.len)

VehicleInv ==
    /\ IsList(asked) /\ Range(asked) \subseteq Request \cup {NotSent} /\ calls <= MaxCalls
    /\ \A m \in said : IsMessage(m)
    /\ inbox = [e \in Ecu |-> inbox[e]] /\ ecu = [e \in Ecu |-> ecu[e]]
    /\ \A e \in Ecu : InboxOk(e, inbox[e]) /\ EcuOk(e, ecu[e])
    /\ remote \in 0 .. MaxRemote /\ lost \in BOOLEAN

-----------------------------------------------------------------------------
(* The frames on their way from one ECU, and the order they are in.        *)
IsQueued(f) ==
    \/ f = Remote
    \/ /\ f.data.msg \in said /\ f.data.k \in 1 .. ChunkCount(f.data.msg.len)
       /\ f = Sent(f.data.msg, f.data.k)

Queued(e) == {i \in DOMAIN rxq : rxq[i] # Remote /\ rxq[i].id = e}

Earlier(a, b) ==
    \/ a.msg.call < b.msg.call
    \/ a.msg = b.msg /\ a.k < b.k

Next2(e) == Chunk(ecu[e].msg, ecu[e].k)
Receiving == pc = "recv" /\ responder # NoResponder

QueueInv ==
    /\ IsList(rxq) /\ Len(rxq) <= RxCap
    /\ \A i \in DOMAIN rxq : IsQueued(rxq[i])

QueueOrder(e) ==
    \A i, j \in Queued(e) : i < j => Earlier(rxq[i].data, rxq[j].data)
SendingLast(e) ==
    ecu[e].st # "idle" => \A i \in Queued(e) : Earlier(rxq[i].data, Next2(e))
ReceivedFirst(e) ==
    Receiving /\ responder = e => \A p \in DOMAIN payload :
      /\ \A i \in Queued(e) : Earlier(payload[p], rxq[i].data)
      /\ ecu[e].st # "idle" => Earlier(payload[p], Next2(e))

OrderInv == \A e \in Ecu : QueueOrder(e) /\ SendingLast(e) /\ ReceivedFirst(e)

(* What is being received: nothing is returned twice.                      *)
ReceivingInv ==
    /\ Receiving =>
         /\ payload[1].k = 1 /\ payload[1].msg \in said \ taken
         /\ payload[1].msg.src = responder /\ total = payload[1].msg.len
         /\ \A p \in DOMAIN payload :
              payload[p].msg \in said /\ payload[p].msg.src = responder /\ payload[p].k \in Nat
    /\ taken \subseteq said
    /\ \A i \in DOMAIN rxq : rxq[i] # Remote /\ rxq[i].data.k = 1 => rxq[i].data.msg \notin taken
    /\ (pc = "recv" \/ result.code = "OK") => calls # 0 /\ asked[calls] = req

(* While no frame is missed, what comes before chunk k is chunk k - 1.     *)
Preceded(e, m, k, j) ==
    \/ \E i \in Queued(e) : i < j /\ rxq[i].data = Chunk(m, k - 1)
    \/ /\ \A i \in Queued(e) : i >= j
       /\ Receiving /\ responder = e => payload[Len(payload)] = Chunk(m, k - 1)

Linked ==
    \A e \in Ecu :
      /\ \A j \in Queued(e) :
           rxq[j].data.k > 1 => Preceded(e, rxq[j].data.msg, rxq[j].data.k, j)
      /\ ecu[e].st # "idle" => Preceded(e, ecu[e].msg, ecu[e].k, Len(rxq) + 1)

ChainInv ==
    ~lost =>
      /\ Linked
      /\ Receiving => \A p \in DOMAIN payload : payload[p] = Chunk(payload[1].msg, p)

(* What a reply is.                                                        *)
ReplyInv ==
    /\ result.code = "OK" =>
         /\ result.chunk # << >> /\ result.chunk[1].msg \in said
         /\ ~lost => LET m == result.chunk[1].msg IN
              result.from = m.src /\ result.len = m.len /\ result.chunk = WholeOf(m)
    /\ result.code # "OK" => result.chunk = << >>

(* While every call was clean, nothing is on its way but answers to the    *)
(* call in progress, and nothing at all once it has returned the answer.   *)
OnItsWay(e, call) ==
    \/ \E i \in Queued(e) : rxq[i].data.msg.call = call
    \/ ecu[e].st # "idle" /\ ecu[e].msg.call = call
    \/ \E i \in DOMAIN inbox[e] : /\ inbox[e][i].kind = "REQ" /\ inbox[e][i].call = call
                                  /\ AnswerLen[e][inbox[e][i].req] > 0

CleanInv ==
    clean /\ ~lost =>
      /\ \A e \in Ecu : \A c \in 1 .. calls - 1 : ~OnItsWay(e, c)
      /\ Receiving => payload[1].msg.call = calls
      /\ result.code = "OK" => result.chunk[1].msg.call = calls
      /\ pc = "idle" /\ CleanSoFar => \A e \in Ecu : ~OnItsWay(e, calls)

SessionInv ==
    /\ IInv /\ VehicleInv /\ QueueInv /\ OrderInv /\ ReceivingInv /\ ChainInv /\ ReplyInv /\ CleanInv

-----------------------------------------------------------------------------
(* Frames and answers.                                                     *)
LEMMA CallsIs ==
    ASSUME VehicleInv
    PROVE  calls \in Nat /\ DOMAIN asked = 1 .. calls
  BY LenProperties DEF VehicleInv, IsList, calls

LEMMA LenIs ==
    ASSUME NEW m, IsMessage(m)
    PROVE  /\ m.len \in Nat /\ m.len > 0 /\ m.len <= RespCap /\ m.len <= TpMaxPayload
           /\ m.len = AnswerLen[m.src][m.req]
           /\ ChunkCount(m.len) \in Nat /\ ChunkCount(m.len) >= 1
           /\ m.len <= SingleBytes => ChunkCount(m.len) = 1
           /\ m.len > SingleBytes => ChunkCount(m.len) >= 2
  <1> PICK l : l = m.len
    OBVIOUS
  <1>1. l = AnswerLen[m.src][m.req] /\ l > 0
    BY DEF IsMessage, Message
  <1>2. l \in 0 .. Smaller(RespCap, TpMaxPayload)
    BY <1>1, SessionAssumption DEF IsMessage
  <1>3. l \in Nat /\ l <= RespCap /\ l <= TpMaxPayload
    BY <1>2, TransactAssumption DEF Smaller, TpMaxPayload
  <1>4. ChunkCount(l) \in Nat
    BY <1>3, ChunkCountFits
  <1>5. l <= 7 => ChunkCount(l) = 1
    BY <1>3 DEF ChunkCount, SingleBytes
  <1>6. l > 7 => ChunkCount(l) >= 2
    BY <1>3 DEF ChunkCount, NextCount, SingleBytes, FirstBytes, NextBytes
  <1> QED
    BY <1>1, <1>3, <1>4, <1>5, <1>6 DEF SingleBytes

LEMMA SentIs ==
    ASSUME NEW m, NEW k \in Nat, k >= 1
    PROVE  /\ Sent(m, k) # Remote /\ Sent(m, k).id = m.src /\ Sent(m, k).data = Chunk(m, k)
           /\ Sent(m, k).extd = Extended(Variant)
  <1>1. PICK pci, n, dlc : /\ pci \in {"SF", "FF", "CF"}
                           /\ Sent(m, k) = EcuFrame(m, pci, n, dlc, k)
    <2>1. CASE k > 1
      BY <2>1 DEF Sent, NextOf
    <2>2. CASE k = 1
      BY <2>2 DEF Sent, SingleOf, FirstOf
    <2> QED BY <2>1, <2>2
  <1>2. EcuFrame(m, pci, n, dlc, k).pci # "RTR" /\ Remote.pci = "RTR"
    BY <1>1 DEF EcuFrame, Remote
  <1>3. Sent(m, k) # Remote
    BY <1>1, <1>2
  <1> QED
    BY <1>1, <1>3 DEF EcuFrame

LEMMA SentOnBus ==
    ASSUME VehicleInv, NEW m, IsMessage(m), NEW k \in 1 .. ChunkCount(m.len)
    PROVE  Sent(m, k) \in BusFrame
  <1>1. /\ m = Message(m.src, m.req, m.call) /\ m.src \in Ecu /\ m.req \in Request
        /\ m.call \in 1 .. MaxCalls /\ m.len > 0
    BY CallsIs, SessionAssumption DEF IsMessage, VehicleInv
  <1>2. /\ IF m.len <= SingleBytes THEN SingleOf(m) \in BusFrame ELSE FirstOf(m) \in BusFrame
        /\ \A i \in 2 .. ChunkCount(m.len) : NextOf(m, i) \in BusFrame
    <2> PICK e, r, c : e = m.src /\ r = m.req /\ c = m.call
      OBVIOUS
    <2>1. e \in Ecu /\ r \in Request /\ c \in 1 .. MaxCalls /\ m = Message(e, r, c)
      BY <1>1
    <2> QED BY <1>1, <2>1, BusAssumption
  <1>3. ChunkCount(m.len) \in Nat
    BY LenIs
  <1> QED
    BY <1>2, <1>3 DEF Sent

(* One answer of an ECU to a call.                                         *)
LEMMA SameMessage ==
    ASSUME NEW m, NEW n, IsMessage(m), IsMessage(n), m.src = n.src, m.call = n.call
    PROVE  m = n
  BY DEF IsMessage

LEMMA EarlierIs ==
    ASSUME NEW a, NEW b, NEW c, a.k \in Nat, b.k \in Nat, c.k \in Nat,
           a.msg.call \in Nat, b.msg.call \in Nat, c.msg.call \in Nat,
           Earlier(a, b), Earlier(b, c)
    PROVE  Earlier(a, c)
  BY DEF Earlier

-----------------------------------------------------------------------------
(* The queue.                                                              *)
LEMMA QueuedIs ==
    ASSUME VehicleInv, QueueInv, NEW e, NEW i \in Queued(e)
    PROVE  /\ i \in 1 .. Len(rxq) /\ Len(rxq) \in Nat
           /\ rxq[i].data.msg \in said /\ IsMessage(rxq[i].data.msg) /\ rxq[i].data.msg.src = e
           /\ rxq[i].data.k \in 1 .. ChunkCount(rxq[i].data.msg.len)
           /\ rxq[i] = Sent(rxq[i].data.msg, rxq[i].data.k) /\ rxq[i] \in BusFrame
           /\ rxq[i].data = Chunk(rxq[i].data.msg, rxq[i].data.k)
           /\ rxq[i].data.k \in Nat /\ rxq[i].data.msg.call \in Nat
  <1> PICK m, k : m = rxq[i].data.msg /\ k = rxq[i].data.k
    OBVIOUS
  <1>1. i \in 1 .. Len(rxq) /\ Len(rxq) \in Nat
    BY LenProperties DEF Queued, QueueInv, IsList
  <1>2. m \in said /\ k \in 1 .. ChunkCount(m.len) /\ rxq[i] = Sent(m, k)
    BY DEF Queued, QueueInv, IsQueued
  <1>3. IsMessage(m)
    BY <1>2 DEF VehicleInv
  <1>4. rxq[i] \in BusFrame
    BY <1>2, <1>3, SentOnBus
  <1>5. k \in Nat /\ k >= 1 /\ m.call \in Nat
    <2>1. ChunkCount(m.len) \in Nat
      BY <1>3, LenIs
    <2>2. k \in Nat /\ k >= 1
      BY <1>2, <2>1
    <2>3. m.call \in Nat
      BY <1>3, CallsIs DEF IsMessage
    <2> QED BY <2>2, <2>3
  <1>6. rxq[i].id = e
    BY DEF Queued
  <1>7. rxq[i].id = m.src /\ rxq[i].data = Chunk(m, k)
    BY <1>2, <1>5, SentIs
  <1> QED
    BY <1>1, <1>2, <1>3, <1>4, <1>5, <1>6, <1>7

LEMMA QueuedTail ==
    ASSUME QueueInv, rxq # << >>, rxq' = Tail(rxq)
    PROVE  /\ IsTail(rxq', rxq)
           /\ \A i \in DOMAIN rxq' : i \in Nat \ {0} /\ i + 1 \in DOMAIN rxq /\ rxq'[i] = rxq[i + 1]
           /\ \A e : \A i \in Queued(e)' :
                i \in DOMAIN rxq' /\ i + 1 \in Queued(e) /\ rxq'[i] = rxq[i + 1]
           /\ \A e : \A i \in Queued(e) :
                i # 1 => i - 1 \in Queued(e)' /\ rxq'[i - 1] = rxq[i]
           /\ Len(rxq) \in Nat /\ Len(rxq') + 1 = Len(rxq) /\ Head(rxq) = rxq[1]
  <1>1. IsTail(rxq', rxq)
    BY Tailed, Zenon DEF QueueInv
  <1>2. Len(rxq) \in Nat \ {0} /\ DOMAIN rxq = 1 .. Len(rxq) /\ DOMAIN rxq' = 1 .. Len(rxq) - 1
        /\ (\A i \in 1 .. Len(rxq) - 1 : rxq'[i] = rxq[i + 1]) /\ Head(rxq) = rxq[1]
        /\ Len(rxq') = Len(rxq) - 1
    BY <1>1 DEF IsTail
  <1> PICK n : n = Len(rxq) /\ n \in Nat \ {0}
    BY <1>2
  <1>3. ASSUME NEW i \in DOMAIN rxq'
        PROVE  i \in Nat \ {0} /\ i + 1 \in DOMAIN rxq /\ rxq'[i] = rxq[i + 1]
    BY <1>2
  <1>4. ASSUME NEW e, NEW i \in Queued(e)'
        PROVE  i \in DOMAIN rxq' /\ i + 1 \in Queued(e) /\ rxq'[i] = rxq[i + 1]
    BY <1>3 DEF Queued
  <1>5. ASSUME NEW e, NEW i \in Queued(e), i # 1
        PROVE  i - 1 \in Queued(e)' /\ rxq'[i - 1] = rxq[i]
    <2>1. i \in 1 .. n /\ i - 1 \in 1 .. n - 1 /\ (i - 1) + 1 = i
      BY <1>2, <1>5 DEF Queued
    <2>2. rxq'[i - 1] = rxq[i]
      BY <1>2, <2>1
    <2> QED BY <1>2, <2>1, <2>2 DEF Queued
  <1> QED
    BY <1>1, <1>2, <1>3, <1>4, <1>5

LEMMA QueuedAppend ==
    ASSUME QueueInv, NEW f, rxq' = Append(rxq, f)
    PROVE  /\ IsAppended(rxq', rxq, f)
           /\ \A i \in DOMAIN rxq : i \in DOMAIN rxq' /\ rxq'[i] = rxq[i]
           /\ Len(rxq) \in Nat /\ Len(rxq') = Len(rxq) + 1 /\ rxq'[Len(rxq) + 1] = f
           /\ \A i \in DOMAIN rxq' : i \in DOMAIN rxq \/ i = Len(rxq) + 1
           /\ \A e : \A i \in Queued(e)' :
                 i \notin Queued(e) => i = Len(rxq) + 1 /\ f # Remote /\ f.id = e
           /\ \A e : \A i \in Queued(e) : i \in Queued(e)' /\ i \in 1 .. Len(rxq)
           /\ \A e : f # Remote /\ f.id = e => Len(rxq) + 1 \in Queued(e)'
  <1>1. IsAppended(rxq', rxq, f)
    BY Listed, Zenon DEF QueueInv
  <1>2. /\ Len(rxq) \in Nat /\ DOMAIN rxq = 1 .. Len(rxq)
        /\ Len(rxq') = Len(rxq) + 1 /\ DOMAIN rxq' = 1 .. Len(rxq) + 1
        /\ \A i \in 1 .. Len(rxq) : rxq'[i] = rxq[i]
        /\ rxq'[Len(rxq) + 1] = f
    BY <1>1 DEF IsAppended
  <1> PICK n : n = Len(rxq) /\ n \in Nat
    BY <1>2
  <1>3. \A i \in 1 .. n + 1 : i \in 1 .. n \/ i = n + 1
    OBVIOUS
  <1>4. /\ \A i \in DOMAIN rxq : i \in DOMAIN rxq' /\ rxq'[i] = rxq[i]
        /\ \A i \in DOMAIN rxq' : i \in DOMAIN rxq \/ i = n + 1
        /\ n + 1 \in DOMAIN rxq' /\ rxq'[n + 1] = f
    BY <1>2, <1>3
  <1>5. /\ \A e : \A i \in Queued(e)' :
              i \notin Queued(e) => i = n + 1 /\ f # Remote /\ f.id = e
        /\ \A e : \A i \in Queued(e) : i \in Queued(e)'
        /\ \A e : f # Remote /\ f.id = e => n + 1 \in Queued(e)'
    BY <1>4 DEF Queued
  <1>6. \A e : \A i \in Queued(e) : i \in 1 .. n
    BY <1>2 DEF Queued
  <1> QED
    BY <1>1, <1>2, <1>4, <1>5, <1>6

-----------------------------------------------------------------------------
(* The inbox of an ECU.                                                    *)
InboxLeft(e, q, y, t) ==
    /\ InboxOk(e, t) /\ IsEntry(e, y)
    /\ \A i \in DOMAIN t : \E j \in DOMAIN q : t[i] = q[j]
    /\ \A i \in DOMAIN t : y.kind = "REQ" /\ t[i].kind = "REQ" => y.call < t[i].call
    /\ \E j \in DOMAIN q : y = q[j]

LEMMA InboxTail ==
    ASSUME NEW e, NEW q, InboxOk(e, q), q # << >>
    PROVE  InboxLeft(e, q, Head(q), Tail(q))
  <1> PICK t : t = Tail(q)
    OBVIOUS
  <1>1. IsTail(t, q)
    BY Tailed, Zenon DEF InboxOk
  <1>2. /\ IsList(t) /\ DOMAIN q = 1 .. Len(q) /\ Len(q) \in Nat \ {0} /\ DOMAIN t = 1 .. Len(q) - 1
        /\ \A i \in 1 .. Len(q) - 1 : t[i] = q[i + 1]
        /\ Head(q) = q[1]
    BY <1>1 DEF IsTail
  <1> PICK n : n = Len(q) /\ n \in Nat \ {0}
    BY <1>2
  <1>3. \A i \in DOMAIN t : i + 1 \in DOMAIN q /\ t[i] = q[i + 1] /\ i + 1 > 1
    BY <1>2
  <1>4. 1 \in DOMAIN q
    BY <1>2
  <1>5. \A i, j \in DOMAIN t : i < j => i + 1 < j + 1
    BY <1>2
  <1>6. InboxOk(e, t)
    BY <1>2, <1>3, <1>5 DEF InboxOk
  <1> QED
    BY <1>2, <1>3, <1>4, <1>6 DEF InboxOk, InboxLeft

(* What an ECU is sending, and from which one tp_transact receives.        *)
LEMMA SendingIs ==
    ASSUME VehicleInv, NEW e \in Ecu, ecu[e].st # "idle"
    PROVE  /\ ecu[e] = [st |-> ecu[e].st, msg |-> ecu[e].msg, k |-> ecu[e].k]
           /\ ecu[e].msg \in said /\ IsMessage(ecu[e].msg) /\ ecu[e].msg.src = e
           /\ ecu[e].msg.call \in Nat
           /\ ecu[e].k \in 2 .. ChunkCount(ecu[e].msg.len)
           /\ ChunkCount(ecu[e].msg.len) \in Nat /\ ecu[e].k \in Nat
  <1>1. EcuOk(e, ecu[e]) /\ ecu[e] # Idle
    BY DEF VehicleInv, Idle
  <1>2. IsMessage(ecu[e].msg)
    BY <1>1 DEF VehicleInv, EcuOk
  <1>3. ChunkCount(ecu[e].msg.len) \in Nat /\ ecu[e].msg.call \in Nat
    BY <1>2, LenIs, CallsIs DEF IsMessage
  <1> QED
    BY <1>1, <1>2, <1>3 DEF EcuOk

LEMMA ReceivedIs ==
    ASSUME VehicleInv, ReceivingInv, Receiving, NEW p \in DOMAIN payload
    PROVE  /\ payload[p].msg \in said /\ IsMessage(payload[p].msg) /\ payload[p].msg.src = responder
           /\ payload[p].msg.call \in Nat /\ payload[p].k \in Nat /\ responder \in Ecu
  <1>1. payload[p].msg \in said /\ payload[p].msg.src = responder /\ payload[p].k \in Nat
    BY DEF ReceivingInv
  <1>2. IsMessage(payload[p].msg)
    BY <1>1 DEF VehicleInv
  <1> QED
    BY <1>1, <1>2, CallsIs DEF IsMessage

(* A step that leaves tp_transact where it is.                             *)
LEMMA ClientStays ==
    ASSUME SessionInv, UNCHANGED vars
    PROVE  /\ IInv' /\ Receiving' = Receiving /\ pc' = pc /\ responder' = responder
           /\ payload' = payload /\ result' = result /\ req' = req /\ total' = total
  <1>1. IInv'
    BY NextIInv DEF SessionInv
  <1> QED
    BY <1>1 DEF vars, locals, Receiving

LEMMA CleanStays ==
    ASSUME UNCHANGED vars, UNCHANGED << asked, clean >>
    PROVE  calls' = calls /\ CleanSoFar' = CleanSoFar
  BY DEF vars, locals, calls, CleanSoFar

(* An ECU's step that sends no frame.                                      *)
NoFrame(e, q, x) ==
    /\ UNCHANGED << vars, asked, taken, remote, clean, rxq, lost, said >>
    /\ inbox' = [inbox EXCEPT ![e] = q]
    /\ \/ q = inbox[e]
       \/ inbox[e] # << >> /\ q = Tail(inbox[e])
    /\ ecu' = [ecu EXCEPT ![e] = x]
    /\ \/ x = ecu[e] \/ x = Idle
       \/ ecu[e].st # "idle" /\ x = [ecu[e] EXCEPT !.st = "send"]

LEMMA NoFrameStep ==
    ASSUME SessionInv, NEW e \in Ecu, NEW q, NEW x, NoFrame(e, q, x)
    PROVE  SessionInv'
  <1>1. /\ UNCHANGED << vars, asked, taken, remote, clean, rxq, lost, said >>
        /\ VehicleInv /\ calls' = calls /\ CleanSoFar' = CleanSoFar
    BY CleanStays DEF NoFrame, SessionInv
  <1>2. /\ IInv' /\ Receiving' = Receiving /\ pc' = pc /\ responder' = responder
        /\ payload' = payload /\ result' = result /\ req' = req /\ total' = total
    BY <1>1, ClientStays
  <1>3. /\ inbox' = [d \in Ecu |-> inbox'[d]] /\ ecu' = [d \in Ecu |-> ecu'[d]]
        /\ \A d \in Ecu : d # e => inbox'[d] = inbox[d] /\ ecu'[d] = ecu[d]
        /\ inbox'[e] = q /\ ecu'[e] = x
    BY <1>1 DEF NoFrame, VehicleInv
  <1>4. InboxOk(e, q) /\ \A i \in DOMAIN q : \E j \in DOMAIN inbox[e] : q[i] = inbox[e][j]
    <2> PICK b : b = inbox[e]
      OBVIOUS
    <2>1. InboxOk(e, b)
      BY <1>1 DEF VehicleInv
    <2>2. CASE q = b
      BY <2>1, <2>2
    <2>3. CASE b # << >> /\ q = Tail(b)
      BY <2>1, <2>3, InboxTail DEF InboxLeft
    <2> QED BY <2>2, <2>3 DEF NoFrame
  <1>5. /\ EcuOk(e, x)
        /\ x.st # "idle" => ecu[e].st # "idle" /\ x.msg = ecu[e].msg /\ x.k = ecu[e].k
    <2>1. EcuOk(e, ecu[e])
      BY <1>1 DEF VehicleInv
    <2>2. CASE x \in {ecu[e], Idle}
      BY <2>1, <2>2 DEF EcuOk, Idle
    <2>3. CASE ecu[e].st # "idle" /\ x = [ecu[e] EXCEPT !.st = "send"]
      <3> PICK s, m, k : ecu[e] = [st |-> s, msg |-> m, k |-> k]
        BY <2>1, <2>3 DEF EcuOk, Idle
      <3>1. x = [st |-> "send", msg |-> m, k |-> k]
        BY <2>3
      <3>2. /\ m \in said /\ m.src = e /\ k \in 2 .. ChunkCount(m.len)
        BY <2>1, <2>3 DEF EcuOk, Idle
      <3> QED BY <2>3, <3>1, <3>2 DEF EcuOk
    <2> QED BY <2>2, <2>3 DEF NoFrame
  <1>6. /\ \A d \in Ecu : InboxOk(d, inbox'[d]) /\ EcuOk(d, ecu'[d])
        /\ \A d \in Ecu : ecu'[d].st # "idle" =>
             ecu[d].st # "idle" /\ ecu'[d].msg = ecu[d].msg /\ ecu'[d].k = ecu[d].k
        /\ \A d \in Ecu : \A i \in DOMAIN inbox'[d] :
             \E j \in DOMAIN inbox[d] : inbox'[d][i] = inbox[d][j]
    BY <1>1, <1>3, <1>4, <1>5 DEF VehicleInv
  <1>7. VehicleInv'
    <2>1. \A d : \A y : InboxOk(d, y) => InboxOk(d, y)'
      BY <1>1 DEF InboxOk, IsEntry
    <2>2. \A d : \A y : EcuOk(d, y) => EcuOk(d, y)'
      BY <1>1 DEF EcuOk
    <2>3. \A m : IsMessage(m) => IsMessage(m)'
      BY <1>1 DEF IsMessage
    <2> QED
      BY <1>1, <1>3, <1>6, <2>1, <2>2, <2>3 DEF VehicleInv, calls
  <1>8. QueueInv' /\ \A d : Queued(d)' = Queued(d)
    BY <1>1 DEF SessionInv, QueueInv, IsQueued, Queued
  <1>9. OrderInv'
    <2> SUFFICES ASSUME NEW d \in Ecu
                 PROVE  QueueOrder(d)' /\ SendingLast(d)' /\ ReceivedFirst(d)'
      BY DEF OrderInv
    <2>1. QueueOrder(d) /\ SendingLast(d) /\ ReceivedFirst(d) /\ rxq' = rxq
      BY <1>1 DEF SessionInv, OrderInv
    <2>2. ecu'[d].st # "idle" => ecu[d].st # "idle" /\ Next2(d)' = Next2(d)
      BY <1>6 DEF Next2
    <2> QED
      BY <1>2, <1>8, <2>1, <2>2 DEF QueueOrder, SendingLast, ReceivedFirst, Earlier
  <1>10. ReceivingInv'
    BY <1>1, <1>2 DEF SessionInv, ReceivingInv
  <1>11. ChainInv'
    BY <1>1, <1>2, <1>6, <1>8 DEF SessionInv, ChainInv, Linked, Preceded
  <1>12. ReplyInv'
    BY <1>1, <1>2 DEF SessionInv, ReplyInv
  <1>13. CleanInv'
    BY <1>1, <1>2, <1>6, <1>8 DEF SessionInv, CleanInv, OnItsWay
  <1> QED
    BY <1>2, <1>7, <1>8, <1>9, <1>10, <1>11, <1>12, <1>13 DEF SessionInv

-----------------------------------------------------------------------------
(* An ECU's step that sends chunk k of m.                                  *)
SendsFrame(e, m, k, q, x) ==
    /\ UNCHANGED << vars, asked, taken, remote, clean >>
    /\ Queue(Sent(m, k))
    /\ said' = said \cup {m}
    /\ inbox' = [inbox EXCEPT ![e] = q]
    /\ ecu' = [ecu EXCEPT ![e] = x]

(* The chunk is the next one of e, and what is left of e's inbox is later. *)
InTurn(e, m, k, q, x) ==
    /\ IsMessage(m) /\ m.src = e /\ k \in 1 .. ChunkCount(m.len)
    /\ InboxOk(e, q)
    /\ \A i \in DOMAIN q : q[i].kind = "REQ" => m.call < q[i].call
    /\ \A i \in DOMAIN q : \E j \in DOMAIN inbox[e] : q[i] = inbox[e][j]
    /\ \/ x = Idle
       \/ /\ x = [st |-> x.st, msg |-> m, k |-> k + 1] /\ x.st \in {"wait", "send"}
          /\ k + 1 \in 2 .. ChunkCount(m.len)
    /\ \A i \in Queued(e) : Earlier(rxq[i].data, Chunk(m, k))
    /\ Receiving /\ responder = e => \A p \in DOMAIN payload : Earlier(payload[p], Chunk(m, k))
    /\ k = 1 => m \notin said
    /\ ~lost /\ k > 1 => Preceded(e, m, k, Len(rxq) + 1)
    /\ OnItsWay(e, m.call)

LEMMA SentGrows ==
    ASSUME VehicleInv, QueueInv, NEW e \in Ecu, NEW m, NEW k \in Nat, k >= 1, m.src = e,
           Queue(Sent(m, k))
    PROVE  /\ Len(rxq) \in Nat /\ IsList(rxq') /\ Len(rxq') <= RxCap
           /\ \A i \in DOMAIN rxq' :
                (i \in DOMAIN rxq /\ rxq'[i] = rxq[i]) \/ rxq'[i] = Sent(m, k)
           /\ \A d : \A i \in Queued(d)' :
                \/ i \in Queued(d) /\ rxq'[i] = rxq[i]
                \/ i = Len(rxq) + 1 /\ d = e /\ rxq'[i].data = Chunk(m, k)
           /\ \A d : \A i \in Queued(d) :
                i \in Queued(d)' /\ rxq'[i] = rxq[i] /\ i \in 1 .. Len(rxq)
           /\ \/ lost'
              \/ /\ lost' = lost /\ Len(rxq') = Len(rxq) + 1
                 /\ Len(rxq) + 1 \in Queued(e)' /\ rxq'[Len(rxq) + 1].data = Chunk(m, k)
           /\ lost => lost'
  <1>1. Sent(m, k) # Remote /\ Sent(m, k).id = e /\ Sent(m, k).data = Chunk(m, k)
    BY SentIs
  <1>2. CASE rxq' = Append(rxq, Sent(m, k)) /\ Len(rxq) < RxCap /\ UNCHANGED lost
    <2> PICK f, n : f = Sent(m, k) /\ n = Len(rxq)
      OBVIOUS
    <2>1. rxq' = Append(rxq, f) /\ f # Remote /\ f.id = e /\ f.data = Chunk(m, k)
      BY <1>1, <1>2
    <2>2. /\ IsAppended(rxq', rxq, f)
          /\ \A i \in DOMAIN rxq : i \in DOMAIN rxq' /\ rxq'[i] = rxq[i]
          /\ n \in Nat /\ Len(rxq') = n + 1 /\ rxq'[n + 1] = f
          /\ \A i \in DOMAIN rxq' : i \in DOMAIN rxq \/ i = n + 1
          /\ \A d : \A i \in Queued(d)' :
                i \notin Queued(d) => i = n + 1 /\ f # Remote /\ f.id = d
          /\ \A d : \A i \in Queued(d) : i \in Queued(d)' /\ i \in 1 .. n
          /\ n + 1 \in Queued(e)'
      BY <2>1, QueuedAppend
    <2>3. \A d : \A i \in Queued(d) : rxq'[i] = rxq[i]
      BY <2>2 DEF Queued
    <2>4. IsList(rxq') /\ n + 1 <= RxCap
      BY <1>2, <2>2, SessionAssumption DEF IsAppended
    <2> QED
      BY <1>2, <2>1, <2>2, <2>3, <2>4
  <1>3. CASE lost' = TRUE /\ UNCHANGED rxq
    <2>1. \A d : Queued(d)' = Queued(d)
      BY <1>3 DEF Queued
    <2>2. Len(rxq) \in Nat /\ DOMAIN rxq = 1 .. Len(rxq)
      BY LenProperties DEF QueueInv, IsList
    <2> QED
      BY <1>3, <2>1, <2>2 DEF QueueInv, Queued
  <1> QED
    BY <1>2, <1>3 DEF Queue

LEMMA SendsFrameStep ==
    ASSUME SessionInv, NEW e \in Ecu, NEW m, NEW k, NEW q, NEW x,
           SendsFrame(e, m, k, q, x), InTurn(e, m, k, q, x)
    PROVE  SessionInv'
  <1>1. /\ UNCHANGED << vars, asked, taken, remote, clean >> /\ said' = said \cup {m}
        /\ VehicleInv /\ QueueInv /\ calls' = calls /\ CleanSoFar' = CleanSoFar
    BY CleanStays DEF SendsFrame, SessionInv
  <1>2. /\ IInv' /\ Receiving' = Receiving /\ pc' = pc /\ responder' = responder
        /\ payload' = payload /\ result' = result /\ req' = req /\ total' = total
    BY <1>1, ClientStays
  <1>3. IsMessage(m) /\ m.src = e /\ m.call \in Nat /\ k \in Nat /\ k >= 1
        /\ k \in 1 .. ChunkCount(m.len) /\ ChunkCount(m.len) \in Nat
    <2>1. IsMessage(m) /\ m.src = e /\ k \in 1 .. ChunkCount(m.len)
      BY DEF InTurn
    <2>2. ChunkCount(m.len) \in Nat /\ m.call \in Nat
      BY <1>1, <2>1, LenIs, CallsIs DEF IsMessage
    <2> QED BY <2>1, <2>2
  <1> PICK n : n = Len(rxq)
    OBVIOUS
  <1>4. /\ n \in Nat /\ IsList(rxq') /\ Len(rxq') <= RxCap
        /\ \A i \in DOMAIN rxq' :
             (i \in DOMAIN rxq /\ rxq'[i] = rxq[i]) \/ rxq'[i] = Sent(m, k)
        /\ \A d : \A i \in Queued(d)' :
             \/ i \in Queued(d) /\ rxq'[i] = rxq[i]
             \/ i = n + 1 /\ d = e /\ rxq'[i].data = Chunk(m, k)
        /\ \A d : \A i \in Queued(d) :
             i \in Queued(d)' /\ rxq'[i] = rxq[i] /\ i \in 1 .. n
        /\ \/ lost'
           \/ /\ lost' = lost /\ Len(rxq') = n + 1
              /\ n + 1 \in Queued(e)' /\ rxq'[n + 1].data = Chunk(m, k)
        /\ lost => lost'
    BY <1>1, <1>3, SentGrows DEF SendsFrame
  <1>5. /\ inbox' = [d \in Ecu |-> inbox'[d]] /\ ecu' = [d \in Ecu |-> ecu'[d]]
        /\ \A d \in Ecu : d # e => inbox'[d] = inbox[d] /\ ecu'[d] = ecu[d]
        /\ inbox'[e] = q /\ ecu'[e] = x
    BY <1>1 DEF SendsFrame, VehicleInv
  <1>6. /\ x.st # "idle" => x.msg = m /\ x.k = k + 1
        /\ Chunk(m, k).msg = m /\ Chunk(m, k).k = k
    BY DEF InTurn, Idle, Chunk
  <1>7. VehicleInv'
    <2>1. \A d \in Ecu : d # e => InboxOk(d, inbox[d])'
      BY <1>1, <1>3, <1>5 DEF VehicleInv, InboxOk, IsEntry, calls
    <2>2. InboxOk(e, q)'
      BY <1>1 DEF InTurn, InboxOk, IsEntry, calls
    <2>3. \A d \in Ecu : d # e => EcuOk(d, ecu[d])'
      BY <1>1, <1>5 DEF VehicleInv, EcuOk
    <2>4. EcuOk(e, x)'
      BY <1>1, <1>3 DEF InTurn, EcuOk
    <2>5. \A y \in said' : IsMessage(y)'
      BY <1>1, <1>3 DEF VehicleInv, IsMessage, calls
    <2>6. lost' \in BOOLEAN
      BY <1>1 DEF SendsFrame, Queue, VehicleInv
    <2> QED
      BY <1>1, <1>5, <2>1, <2>2, <2>3, <2>4, <2>5, <2>6 DEF VehicleInv, calls
  <1>8. QueueInv'
    <2>1. Sent(m, k) # Remote /\ Sent(m, k).data = Chunk(m, k)
      BY <1>3, SentIs
    <2>2. IsQueued(Sent(m, k))'
      BY <1>1, <1>3, <1>6, <2>1 DEF IsQueued
    <2>3. \A f : IsQueued(f) => IsQueued(f)'
      BY <1>1 DEF IsQueued
    <2> QED
      BY <1>1, <1>4, <2>2, <2>3 DEF QueueInv
  <1>9. OrderInv'
    <2> SUFFICES ASSUME NEW d \in Ecu
                 PROVE  QueueOrder(d)' /\ SendingLast(d)' /\ ReceivedFirst(d)'
      BY DEF OrderInv
    <2>1. QueueOrder(d) /\ SendingLast(d) /\ ReceivedFirst(d)
      BY DEF SessionInv, OrderInv
    <2>2. \A i \in Queued(e) : Earlier(rxq[i].data, Chunk(m, k))
      BY DEF InTurn
    <2>3. QueueOrder(d)'
      <3> SUFFICES ASSUME NEW i \in Queued(d)', NEW j \in Queued(d)', i < j
                   PROVE  Earlier(rxq[i].data, rxq[j].data)'
        BY DEF QueueOrder
      <3>1. i \in Queued(d) /\ rxq'[i] = rxq[i]
        BY <1>4
      <3>2. CASE j \in Queued(d) /\ rxq'[j] = rxq[j]
        BY <2>1, <3>1, <3>2 DEF QueueOrder, Earlier
      <3>3. CASE d = e /\ rxq'[j].data = Chunk(m, k)
        BY <2>2, <3>1, <3>3 DEF Earlier
      <3> QED BY <1>4, <3>2, <3>3
    <2>4. ASSUME x.st # "idle", NEW c, c.msg.call \in Nat, c.k \in Nat, Earlier(c, Chunk(m, k)) \/ c = Chunk(m, k)
          PROVE  Earlier(c, Chunk(m, k + 1))
      BY <1>3, <2>4 DEF Earlier, Chunk
    <2>5. ecu'[d].st # "idle" /\ d # e => ecu[d].st # "idle" /\ Next2(d)' = Next2(d)
      BY <1>5 DEF Next2
    <2>6. ecu'[e].st # "idle" => x.st # "idle" /\ Next2(e)' = Chunk(m, k + 1)
      BY <1>5, <1>6 DEF Next2
    <2>7. SendingLast(d)'
      <3> SUFFICES ASSUME ecu'[d].st # "idle", NEW i \in Queued(d)'
                   PROVE  Earlier(rxq[i].data, Next2(d))'
        BY DEF SendingLast
      <3>1. CASE d # e
        BY <1>4, <2>1, <2>5, <3>1 DEF SendingLast, Earlier
      <3>2. CASE d = e
        <4>1. rxq'[i].data.msg.call \in Nat /\ rxq'[i].data.k \in Nat
          BY <1>1, <1>3, <1>4, <1>6, <3>2, QueuedIs
        <4>2. Earlier(rxq'[i].data, Chunk(m, k)) \/ rxq'[i].data = Chunk(m, k)
          BY <1>4, <2>2, <3>2
        <4> QED BY <2>4, <2>6, <3>2, <4>1, <4>2 DEF Earlier
      <3> QED BY <3>1, <3>2
    <2>8. ReceivedFirst(d)'
      <3> SUFFICES ASSUME Receiving', responder' = d, NEW p \in DOMAIN payload'
                   PROVE  /\ \A i \in Queued(d)' : Earlier(payload[p], rxq[i].data)'
                          /\ ecu'[d].st # "idle" => Earlier(payload[p], Next2(d))'
        BY DEF ReceivedFirst
      <3>1. Receiving /\ responder = d /\ p \in DOMAIN payload /\ payload' = payload
        BY <1>2
      <3>2. d = e => Earlier(payload[p], Chunk(m, k))
        BY <3>1 DEF InTurn
      <3>3. \A i \in Queued(d)' : Earlier(payload[p], rxq[i].data)'
        BY <1>4, <2>1, <3>1, <3>2 DEF ReceivedFirst, Earlier
      <3>4. CASE d # e
        BY <2>1, <2>5, <3>1, <3>3, <3>4 DEF ReceivedFirst, Earlier
      <3>5. CASE d = e /\ ecu'[e].st # "idle"
        <4>1. payload[p].msg.call \in Nat /\ payload[p].k \in Nat
          BY <1>1, <3>1, ReceivedIs DEF SessionInv
        <4> QED BY <2>4, <2>6, <3>1, <3>2, <3>3, <3>5, <4>1 DEF Earlier
      <3> QED BY <3>3, <3>4, <3>5
    <2> QED BY <2>3, <2>7, <2>8
  <1>10. ReceivingInv'
    <2>1. \A i \in DOMAIN rxq' :
            rxq'[i] # Remote /\ rxq'[i].data.k = 1 => rxq'[i].data.msg \notin taken
      <3>1. Sent(m, k).data = Chunk(m, k) /\ (k = 1 => m \notin taken)
        BY <1>3, SentIs DEF InTurn, SessionInv, ReceivingInv
      <3> QED BY <1>4, <1>6, <3>1 DEF SessionInv, ReceivingInv
    <2> QED
      BY <1>1, <1>2, <2>1 DEF SessionInv, ReceivingInv
  <1>11. ChainInv'
    <2> SUFFICES ASSUME ~lost' PROVE ChainInv'
      BY DEF ChainInv
    <2>1. ~lost /\ Len(rxq') = n + 1 /\ n + 1 \in Queued(e)' /\ rxq'[n + 1].data = Chunk(m, k)
      BY <1>4
    <2>2. ASSUME NEW d \in Ecu, NEW y, NEW i, NEW j \in 1 .. n + 1, Preceded(d, y, i, j)
          PROVE  Preceded(d, y, i, j)'
      <3>1. CASE \E h \in Queued(d) : h < j /\ rxq[h].data = Chunk(y, i - 1)
        BY <1>4, <3>1 DEF Preceded, Chunk
      <3>2. CASE /\ \A h \in Queued(d) : h >= j
                 /\ Receiving /\ responder = d => payload[Len(payload)] = Chunk(y, i - 1)
        <4>1. \A h \in Queued(d)' : h >= j
          BY <1>4, <3>2
        <4> QED BY <1>2, <3>2, <4>1 DEF Preceded, Chunk
      <3> QED BY <2>2, <3>1, <3>2 DEF Preceded
    <2>3. ASSUME NEW d \in Ecu, NEW j \in Queued(d)', rxq'[j].data.k > 1
          PROVE  Preceded(d, rxq[j].data.msg, rxq[j].data.k, j)'
      <3> PICK y, i : y = rxq'[j].data.msg /\ i = rxq'[j].data.k
        OBVIOUS
      <3>1. CASE j \in Queued(d) /\ rxq'[j] = rxq[j]
        <4>1. Preceded(d, y, i, j) /\ j \in 1 .. n + 1
          BY <1>4, <2>1, <2>3, <3>1 DEF SessionInv, ChainInv, Linked
        <4>2. Preceded(d, y, i, j)'
          BY <2>2, <4>1
        <4> QED BY <4>2 DEF Preceded
      <3>2. CASE j = n + 1 /\ d = e /\ rxq'[j].data = Chunk(m, k)
        <4>1. Preceded(d, m, k, j) /\ j \in 1 .. n + 1 /\ y = m /\ i = k
          BY <1>4, <1>6, <2>1, <2>3, <3>2 DEF InTurn
        <4>2. Preceded(d, m, k, j)'
          BY <2>2, <4>1
        <4> QED BY <4>1, <4>2 DEF Preceded
      <3> QED BY <1>4, <3>1, <3>2
    <2>4. ASSUME NEW d \in Ecu, ecu'[d].st # "idle"
          PROVE  Preceded(d, ecu[d].msg, ecu[d].k, Len(rxq) + 1)'
      <3> PICK y, i : y = ecu'[d].msg /\ i = ecu'[d].k
        OBVIOUS
      <3>1. CASE d # e
        <4>1. Preceded(d, y, i, n + 1) /\ n + 1 \in 1 .. n + 1
          BY <1>4, <1>5, <2>1, <2>4, <3>1 DEF SessionInv, ChainInv, Linked
        <4>2. Preceded(d, y, i, n + 1)' /\ \A h \in Queued(d)' : h < n + 1
          BY <1>4, <2>2, <3>1, <4>1
        <4>3. Preceded(d, y, i, n + 2)'
          BY <1>4, <4>2 DEF Preceded
        <4> QED BY <2>1, <1>4, <4>3 DEF Preceded
      <3>2. CASE d = e
        <4>1. y = m /\ i = k + 1 /\ i - 1 = k
          BY <1>3, <1>5, <1>6, <2>4, <3>2
        <4>2. rxq'[n + 1].data = Chunk(y, i - 1) /\ n + 1 < Len(rxq') + 1
          BY <1>4, <2>1, <4>1
        <4> QED BY <2>1, <3>2, <4>2 DEF Preceded, Chunk
      <3> QED BY <3>1, <3>2
    <2> QED
      BY <1>2, <2>1, <2>3, <2>4 DEF SessionInv, ChainInv, Linked
  <1>12. ReplyInv'
    BY <1>1, <1>2, <1>4 DEF SessionInv, ReplyInv
  <1>13. CleanInv'
    <2>1. lost' \/ ~lost
      BY <1>4
    <2>2. ASSUME NEW d \in Ecu, NEW c, OnItsWay(d, c)'
          PROVE  OnItsWay(d, c)
      <3>1. CASE \E i \in Queued(d)' : rxq'[i].data.msg.call = c
        BY <1>4, <1>6, <3>1 DEF InTurn, OnItsWay
      <3>2. CASE ecu'[d].st # "idle" /\ ecu'[d].msg.call = c
        BY <1>5, <1>6, <3>2 DEF InTurn, OnItsWay
      <3>3. CASE \E i \in DOMAIN inbox'[d] : /\ inbox'[d][i].kind = "REQ" /\ inbox'[d][i].call = c
                                            /\ AnswerLen[d][inbox'[d][i].req] > 0
        <4>1. \A i \in DOMAIN inbox'[d] : \E j \in DOMAIN inbox[d] : inbox'[d][i] = inbox[d][j]
          BY <1>5 DEF InTurn
        <4> QED BY <3>3, <4>1 DEF OnItsWay
      <3> QED BY <2>2, <3>1, <3>2, <3>3 DEF OnItsWay
    <2> QED
      BY <1>1, <1>2, <2>1, <2>2 DEF SessionInv, CleanInv
  <1> QED
    BY <1>2, <1>7, <1>8, <1>9, <1>10, <1>11, <1>12, <1>13 DEF SessionInv

(* The first frame of an answer, and the next one.                         *)
LEMMA AnswerStep ==
    ASSUME SessionInv, NEW e \in Ecu, EcuAnswer(e)
    PROVE  SessionInv'
  <1> PICK b, y, t : b = inbox[e] /\ y = Head(b) /\ t = Tail(b)
    OBVIOUS
  <1> PICK m : m = Message(e, y.req, y.call)
    OBVIOUS
  <1> PICK x : x = IF m.len <= SingleBytes THEN Idle ELSE [st |-> "wait", msg |-> m, k |-> 2]
    OBVIOUS
  <1>1. VehicleInv
    BY DEF SessionInv
  <1>2. /\ InboxOk(e, b) /\ EcuOk(e, ecu[e]) /\ b # << >> /\ ecu[e].st = "idle"
        /\ y.kind = "REQ" /\ AnswerLen[e][y.req] > 0
    BY <1>1 DEF VehicleInv, EcuAnswer, Reading
  <1>2a. InboxLeft(e, b, Head(b), Tail(b))
    BY <1>2, InboxTail, Zenon
  <1>2b. InboxLeft(e, b, y, t)
    BY <1>2a
  <1>2c. IsEntry(e, y)
    BY <1>2b DEF InboxLeft
  <1>3. ecu[e] = Idle /\ ecu = [ecu EXCEPT ![e] = Idle]
    BY <1>1, <1>2 DEF EcuOk, VehicleInv
  <1> PICK k : k = 1
    OBVIOUS
  <1>4. SendsFrame(e, m, k, t, x)
    BY <1>3 DEF EcuAnswer, SendsFrame, Sent, Consume, EcuUnchanged
  <1>5. /\ m.src = e /\ m.req = y.req /\ m.call = y.call /\ m.len = AnswerLen[e][y.req]
        /\ y.call \in 1 .. calls /\ y.req = asked[y.call] /\ y.req \in Request
        /\ \A z \in said : z.src = e => z.call < m.call
    BY <1>2, <1>2c DEF Message, IsEntry
  <1>6. IsMessage(m)
    BY <1>2, <1>5 DEF IsMessage
  <1>7. m.call \in Nat /\ ChunkCount(m.len) \in Nat /\ ChunkCount(m.len) >= 1
    BY <1>1, <1>5, <1>6, LenIs, CallsIs
  <1>8. InTurn(e, m, k, t, x)
    <2>1. /\ InboxOk(e, t)
          /\ \A i \in DOMAIN t : \E j \in DOMAIN b : t[i] = b[j]
          /\ \A i \in DOMAIN t : t[i].kind = "REQ" => m.call < t[i].call
          /\ \E j \in DOMAIN b : y = b[j]
      BY <1>2, <1>2b, <1>5 DEF InboxLeft
    <2>2. \/ x = Idle
          \/ /\ x = [st |-> x.st, msg |-> m, k |-> k + 1] /\ x.st \in {"wait", "send"}
             /\ k + 1 \in 2 .. ChunkCount(m.len)
      BY <1>6, <1>7, LenIs DEF SingleBytes
    <2>3. \A i \in Queued(e) : Earlier(rxq[i].data, Chunk(m, k))
      BY <1>1, <1>5, QueuedIs DEF SessionInv, Earlier, Chunk
    <2>4. Receiving /\ responder = e => \A p \in DOMAIN payload : Earlier(payload[p], Chunk(m, k))
      BY <1>1, <1>5, ReceivedIs DEF SessionInv, Earlier, Chunk
    <2>5. m \notin said
      BY <1>5, <1>7
    <2>6. OnItsWay(e, m.call)
      BY <1>2, <1>5, <2>1 DEF OnItsWay
    <2>7. k \in 1 .. ChunkCount(m.len)
      BY <1>7
    <2>8. \A i \in DOMAIN t : \E j \in DOMAIN inbox[e] : t[i] = inbox[e][j]
      BY <2>1
    <2>9. k # 1 => k \notin 1 .. 1
      OBVIOUS
    <2>10. ~(k > 1)
      OBVIOUS
    <2> QED
      BY <2>8, <2>10, <1>5, <1>6, <1>7, <2>1, <2>2, <2>3, <2>4, <2>5, <2>6, <2>7 DEF InTurn
  <1> QED
    BY <1>4, <1>8, SendsFrameStep

LEMMA SendNextStep ==
    ASSUME SessionInv, NEW e \in Ecu, EcuSendNext(e)
    PROVE  SessionInv'
  <1>1. VehicleInv /\ ecu[e].st = "send"
    BY DEF SessionInv, EcuSendNext
  <1> PICK m, k : m = ecu[e].msg /\ k = ecu[e].k
    OBVIOUS
  <1> PICK x : x = IF k = ChunkCount(m.len) THEN Idle ELSE [ecu[e] EXCEPT !.k = k + 1]
    OBVIOUS
  <1>2. /\ ecu[e] = [st |-> "send", msg |-> m, k |-> k] /\ m \in said /\ IsMessage(m) /\ m.src = e
        /\ k \in 2 .. ChunkCount(m.len) /\ ChunkCount(m.len) \in Nat /\ k \in Nat
    BY <1>1, SendingIs
  <1>3. SendsFrame(e, m, k, inbox[e], x)
    <2>1. Sent(m, k) = NextOf(m, k) /\ said = said \cup {m}
      BY <1>2 DEF Sent
    <2>2. inbox' = [inbox EXCEPT ![e] = inbox[e]]
      BY <1>1 DEF EcuSendNext, VehicleInv
    <2> QED
      BY <2>1, <2>2 DEF EcuSendNext, SendsFrame, EcuUnchanged
  <1>4. InTurn(e, m, k, inbox[e], x)
    <2>1. InboxOk(e, inbox[e])
      BY <1>1 DEF VehicleInv
    <2>2. \A i \in DOMAIN inbox[e] : inbox[e][i].kind = "REQ" => m.call < inbox[e][i].call
      <3> PICK b : b = inbox[e]
        OBVIOUS
      <3>1. \A i \in DOMAIN b : IsEntry(e, b[i])
        BY <2>1 DEF InboxOk
      <3>2. ASSUME NEW z, IsEntry(e, z), z.kind = "REQ"
            PROVE  m.call < z.call
        BY <1>2, <3>2 DEF IsEntry
      <3> QED BY <3>1, <3>2
    <2>3. \/ x = Idle
          \/ /\ x = [st |-> x.st, msg |-> m, k |-> k + 1] /\ x.st \in {"wait", "send"}
             /\ k + 1 \in 2 .. ChunkCount(m.len)
      <3>1. k # ChunkCount(m.len) => k + 1 \in 2 .. ChunkCount(m.len)
        BY <1>2
      <3>2. k # ChunkCount(m.len) => x = [st |-> "send", msg |-> m, k |-> k + 1]
        BY <1>2
      <3> QED BY <3>1, <3>2
    <2>4. Next2(e) = Chunk(m, k)
      BY DEF Next2
    <2>5. /\ \A i \in Queued(e) : Earlier(rxq[i].data, Chunk(m, k))
          /\ Receiving /\ responder = e => \A p \in DOMAIN payload : Earlier(payload[p], Chunk(m, k))
      BY <1>1, <2>4 DEF SessionInv, OrderInv, SendingLast, ReceivedFirst
    <2>6. ~lost => Preceded(e, m, k, Len(rxq) + 1)
      BY <1>1 DEF SessionInv, ChainInv, Linked
    <2>7. OnItsWay(e, m.call)
      BY <1>1 DEF OnItsWay
    <2>8. k # 1 /\ k \in 1 .. ChunkCount(m.len)
      BY <1>2
    <2> QED
      BY <1>2, <2>1, <2>2, <2>3, <2>5, <2>6, <2>7, <2>8 DEF InTurn
  <1> QED
    BY <1>3, <1>4, SendsFrameStep

LEMMA EcuStepInv ==
    ASSUME SessionInv, NEW e \in Ecu, EcuStep(e)
    PROVE  SessionInv'
  <1>0. /\ inbox = [inbox EXCEPT ![e] = inbox[e]] /\ ecu = [ecu EXCEPT ![e] = ecu[e]]
    BY DEF SessionInv, VehicleInv
  <1>1. CASE EcuSilent(e)
    <2>1. NoFrame(e, Tail(inbox[e]), ecu[e])
      BY <1>0, <1>1 DEF EcuSilent, NoFrame, Reading, Consume, EcuUnchanged, busVars
    <2> QED BY <2>1, NoFrameStep
  <1>2. CASE EcuAnswer(e)
    BY <1>2, AnswerStep
  <1>3. CASE EcuReleased(e)
    <2> PICK x : x = IF Head(inbox[e]).kind = "FC" THEN [ecu[e] EXCEPT !.st = "send"] ELSE Idle
      OBVIOUS
    <2>1. NoFrame(e, Tail(inbox[e]), x)
      BY <1>3 DEF EcuReleased, NoFrame, Reading, Consume, EcuUnchanged, busVars
    <2> QED BY <2>1, NoFrameStep
  <1>4. CASE EcuGivesUp(e)
    <2>1. NoFrame(e, inbox[e], Idle)
      BY <1>0, <1>4 DEF EcuGivesUp, NoFrame, EcuUnchanged, busVars
    <2> QED BY <2>1, NoFrameStep
  <1>5. CASE EcuSendNext(e)
    BY <1>5, SendNextStep
  <1> QED
    BY <1>1, <1>2, <1>3, <1>4, <1>5 DEF EcuStep

-----------------------------------------------------------------------------
(* A remote frame stands between the ECUs' frames and changes none.        *)
LEMMA RemoteStep ==
    ASSUME SessionInv, RemoteFrame
    PROVE  SessionInv'
  <1>1. /\ UNCHANGED << vars, asked, inbox, ecu, said, taken, clean >>
        /\ VehicleInv /\ QueueInv /\ calls' = calls /\ CleanSoFar' = CleanSoFar
    BY CleanStays DEF RemoteFrame, SessionInv, ecuVars
  <1>2. /\ IInv' /\ Receiving' = Receiving /\ pc' = pc /\ responder' = responder
        /\ payload' = payload /\ result' = result /\ req' = req /\ total' = total
    BY <1>1, ClientStays
  <1> PICK n : n = Len(rxq)
    OBVIOUS
  <1>3. /\ n \in Nat /\ Len(rxq') \in Nat /\ n <= Len(rxq') /\ Len(rxq') <= RxCap /\ IsList(rxq')
        /\ \A i \in DOMAIN rxq' : (i \in DOMAIN rxq /\ rxq'[i] = rxq[i]) \/ rxq'[i] = Remote
        /\ \A d : Queued(d)' = Queued(d) /\ \A i \in Queued(d) : rxq'[i] = rxq[i] /\ i \in 1 .. n
        /\ lost' = lost \/ lost'
        /\ lost => lost'
    <2>1. CASE rxq' = Append(rxq, Remote) /\ Len(rxq) < RxCap /\ UNCHANGED lost
      <3> PICK f : f = Remote
        OBVIOUS
      <3>1. /\ IsAppended(rxq', rxq, f)
            /\ \A i \in DOMAIN rxq : i \in DOMAIN rxq' /\ rxq'[i] = rxq[i]
            /\ n \in Nat /\ Len(rxq') = n + 1 /\ rxq'[n + 1] = f
            /\ \A i \in DOMAIN rxq' : i \in DOMAIN rxq \/ i = n + 1
            /\ \A d : \A i \in Queued(d)' :
                  i \notin Queued(d) => i = n + 1 /\ f # Remote /\ f.id = d
            /\ \A d : \A i \in Queued(d) : i \in Queued(d)' /\ i \in 1 .. n
        BY <1>1, <2>1, QueuedAppend
      <3>2. ASSUME NEW d PROVE Queued(d)' = Queued(d)
        <4>1. \A i \in Queued(d)' : i \in Queued(d)
          BY <3>1
        <4>2. \A i \in Queued(d) : i \in Queued(d)'
          BY <3>1
        <4> QED BY <4>1, <4>2
      <3>3. \A d : \A i \in Queued(d) : rxq'[i] = rxq[i]
        BY <3>1 DEF Queued
      <3>4. IsList(rxq') /\ n + 1 <= RxCap
        BY <2>1, <3>1, SessionAssumption DEF IsAppended
      <3> QED
        BY <2>1, <3>1, <3>2, <3>3, <3>4
    <2>2. CASE lost' = TRUE /\ UNCHANGED rxq
      <3>1. \A d : Queued(d)' = Queued(d)
        BY <2>2 DEF Queued
      <3>2. Len(rxq) \in Nat /\ DOMAIN rxq = 1 .. Len(rxq)
        BY <1>1, LenProperties DEF QueueInv, IsList
      <3> QED
        BY <1>1, <2>2, <3>1, <3>2 DEF QueueInv, Queued
    <2> QED
      BY <2>1, <2>2 DEF RemoteFrame, Queue
  <1>4. VehicleInv'
    <2>1. \A d \in Ecu : InboxOk(d, inbox[d])' /\ EcuOk(d, ecu[d])'
      BY <1>1 DEF VehicleInv, InboxOk, IsEntry, EcuOk, calls
    <2>2. \A y \in said' : IsMessage(y)'
      BY <1>1 DEF VehicleInv, IsMessage, calls
    <2>3. remote' \in 0 .. MaxRemote
      BY <1>1, SessionAssumption DEF RemoteFrame, VehicleInv
    <2>4. lost' \in BOOLEAN
      BY <1>1 DEF RemoteFrame, Queue, VehicleInv
    <2> QED
      BY <1>1, <2>1, <2>2, <2>3, <2>4 DEF VehicleInv
  <1>5. QueueInv'
    <2>1. \A f : IsQueued(f) => IsQueued(f)'
      BY <1>1 DEF IsQueued
    <2>2. IsQueued(Remote)'
      BY DEF IsQueued
    <2> QED
      BY <1>1, <1>3, <2>1, <2>2 DEF QueueInv
  <1>6. OrderInv'
    <2> SUFFICES ASSUME NEW d \in Ecu
                 PROVE  QueueOrder(d)' /\ SendingLast(d)' /\ ReceivedFirst(d)'
      BY DEF OrderInv
    <2>1. QueueOrder(d) /\ SendingLast(d) /\ ReceivedFirst(d) /\ Next2(d)' = Next2(d)
      BY <1>1 DEF SessionInv, OrderInv, Next2
    <2> QED
      BY <1>1, <1>2, <1>3, <2>1 DEF QueueOrder, SendingLast, ReceivedFirst, Earlier
  <1>7. ReceivingInv'
    <2>1. \A i \in DOMAIN rxq' :
            rxq'[i] # Remote /\ rxq'[i].data.k = 1 => rxq'[i].data.msg \notin taken
      BY <1>3 DEF SessionInv, ReceivingInv
    <2> QED
      BY <1>1, <1>2, <2>1 DEF SessionInv, ReceivingInv
  <1>8. ChainInv'
    <2>1. ASSUME NEW d, NEW y, NEW i, NEW j, NEW h, Preceded(d, y, i, j),
                 h = j \/ (j = n + 1 /\ h = Len(rxq') + 1)
          PROVE  Preceded(d, y, i, h)'
      <3>1. CASE \E g \in Queued(d) : g < j /\ rxq[g].data = Chunk(y, i - 1)
        <4> PICK g \in Queued(d) : g < j /\ rxq[g].data = Chunk(y, i - 1)
          BY <3>1
        <4>1. g < h /\ g \in Queued(d)' /\ rxq'[g].data = Chunk(y, i - 1)
          BY <1>3, <2>1
        <4> QED BY <4>1 DEF Preceded, Chunk
      <3>2. CASE /\ \A g \in Queued(d) : g >= j
                 /\ Receiving /\ responder = d => payload[Len(payload)] = Chunk(y, i - 1)
        <4>1. \A g \in Queued(d)' : g >= h
          BY <1>3, <2>1, <3>2
        <4> QED BY <1>2, <3>2, <4>1 DEF Preceded, Chunk
      <3> QED BY <2>1, <3>1, <3>2 DEF Preceded
    <2> QED
      BY <1>1, <1>2, <1>3, <2>1 DEF SessionInv, ChainInv, Linked
  <1>9. ReplyInv'
    BY <1>1, <1>2, <1>3 DEF SessionInv, ReplyInv
  <1>10. CleanInv'
    <2>1. \A d, c : OnItsWay(d, c)' => OnItsWay(d, c)
      BY <1>1, <1>3 DEF OnItsWay
    <2> QED
      BY <1>1, <1>2, <1>3, <2>1 DEF SessionInv, CleanInv
  <1> QED
    BY <1>2, <1>4, <1>5, <1>6, <1>7, <1>8, <1>9, <1>10 DEF SessionInv

-----------------------------------------------------------------------------
(* tp_transact takes the oldest frame.                                     *)
LEMMA HeadIs ==
    ASSUME SessionInv, rxq # << >>, Head(rxq) # Remote
    PROVE  \E m, k :
             /\ m \in said /\ IsMessage(m) /\ k \in 1 .. ChunkCount(m.len) /\ k \in Nat
             /\ m.src \in Ecu /\ m.call \in Nat /\ ChunkCount(m.len) \in Nat
             /\ Head(rxq) = Sent(m, k) /\ Head(rxq).id = m.src /\ Head(rxq).data = Chunk(m, k)
             /\ Head(rxq) \in BusFrame /\ 1 \in Queued(m.src) /\ Head(rxq) = rxq[1]
             /\ Chunk(m, k).msg = m /\ Chunk(m, k).k = k
  <1>1. VehicleInv /\ QueueInv
    BY DEF SessionInv
  <1> PICK f : f = Head(rxq)
    OBVIOUS
  <1>2. f = rxq[1] /\ 1 \in DOMAIN rxq /\ f # Remote
    <2> PICK t : t = Tail(rxq)
      OBVIOUS
    <2>1. IsTail(t, rxq)
      BY <1>1, Tailed DEF QueueInv
    <2> QED BY <2>1 DEF IsTail
  <1>3. 1 \in Queued(f.id)
    BY <1>2 DEF Queued
  <1> PICK m, k : m = f.data.msg /\ k = f.data.k
    OBVIOUS
  <1>4. /\ m \in said /\ IsMessage(m) /\ m.src = f.id /\ k \in 1 .. ChunkCount(m.len)
        /\ f = Sent(m, k) /\ f \in BusFrame /\ f.data = Chunk(m, k)
        /\ k \in Nat /\ m.call \in Nat
    BY <1>1, <1>2, <1>3, QueuedIs
  <1>5. m.src \in Ecu /\ ChunkCount(m.len) \in Nat
    BY <1>4, LenIs DEF IsMessage
  <1>6. Chunk(m, k).msg = m /\ Chunk(m, k).k = k
    BY DEF Chunk
  <1> QED
    BY <1>2, <1>3, <1>4, <1>5, <1>6

(* The frame taken goes to the reply when it is from the responder, and    *)
(* nothing else does.                                                      *)
Takes(f) ==
    /\ rxq # << >> /\ f = Head(rxq) /\ rxq' = Tail(rxq)
    /\ UNCHANGED << asked, lost, ecu, said, remote, clean >>
    /\ inbox' = [e \in Ecu |-> inbox'[e]]
    /\ \A e \in Ecu : inbox'[e] = inbox[e] \/ inbox'[e] = Append(inbox[e], [kind |-> "FC"])
    /\ Receiving' =>
         /\ \A p \in DOMAIN payload' :
              \/ f # Remote /\ f.id = responder' /\ payload'[p] = f.data
              \/ /\ Receiving /\ responder' = responder
                 /\ p \in DOMAIN payload /\ payload'[p] = payload[p]
         /\ IF f # Remote /\ f.id = responder'
            THEN payload'[Len(payload')] = f.data
            ELSE Receiving /\ responder' = responder /\ payload' = payload

LEMMA InboxFlow ==
    ASSUME NEW e, NEW q, InboxOk(e, q), NEW r, r = Append(q, [kind |-> "FC"])
    PROVE  /\ InboxOk(e, r)
           /\ \A i \in DOMAIN r : r[i].kind # "FC" => i \in DOMAIN q /\ r[i] = q[i]
  <1> PICK x : x = [kind |-> "FC"]
    OBVIOUS
  <1>1. IsAppended(r, q, x)
    BY Listed, Zenon DEF InboxOk
  <1> PICK n : n = Len(q)
    OBVIOUS
  <1>2. /\ IsList(r) /\ n \in Nat /\ DOMAIN q = 1 .. n /\ DOMAIN r = 1 .. n + 1
        /\ \A i \in 1 .. n : r[i] = q[i]
        /\ r[n + 1] = x
    BY <1>1 DEF IsAppended
  <1>3. x.kind = "FC" /\ IsEntry(e, x)
    BY DEF IsEntry
  <1>4. \A i \in DOMAIN r : (i \in DOMAIN q /\ r[i] = q[i]) \/ r[i] = x
    BY <1>2
  <1>5. \A i \in DOMAIN r : r[i].kind # "FC" => i \in DOMAIN q /\ r[i] = q[i]
    BY <1>3, <1>4
  <1>6. InboxOk(e, r)
    <2>1. \A i \in DOMAIN r : IsEntry(e, r[i])
      BY <1>3, <1>4 DEF InboxOk
    <2>2. ASSUME NEW i \in DOMAIN r, NEW j \in DOMAIN r, i < j, r[i].kind = "REQ", r[j].kind = "REQ"
          PROVE  r[i].call < r[j].call
      BY <1>5, <2>2 DEF InboxOk
    <2> QED BY <1>2, <2>1, <2>2 DEF InboxOk
  <1> QED
    BY <1>5, <1>6

(* What such a step leaves true of the vehicle.                            *)
GoesOn ==
    /\ UNCHANGED << asked, said, clean >>
    /\ VehicleInv' /\ QueueInv' /\ OrderInv' /\ calls' = calls
    /\ ~lost' => ~lost /\ Linked'
    /\ \A d \in Ecu, c \in Nat : OnItsWay(d, c)' => OnItsWay(d, c)
    /\ \A i \in DOMAIN rxq' : \E j \in DOMAIN rxq : rxq'[i] = rxq[j]

LEMMA TakesStep ==
    ASSUME SessionInv, NEW f, Takes(f)
    PROVE  /\ GoesOn
           /\ f # Remote => \A i \in Queued(f.id)' : Earlier(f.data, rxq[i].data)'
           /\ f # Remote /\ f.id \in Ecu /\ ecu[f.id].st # "idle" => Earlier(f.data, Next2(f.id))'
  <1>1. /\ UNCHANGED << asked, lost, ecu, said, remote, clean >> /\ VehicleInv /\ QueueInv
        /\ rxq # << >> /\ f = Head(rxq) /\ rxq' = Tail(rxq)
    BY DEF Takes, SessionInv
  <1> PICK n : n = Len(rxq)
    OBVIOUS
  <1>2. /\ IsTail(rxq', rxq)
        /\ \A i \in DOMAIN rxq' : i \in Nat \ {0} /\ i + 1 \in DOMAIN rxq /\ rxq'[i] = rxq[i + 1]
        /\ \A e : \A i \in Queued(e)' :
             i \in DOMAIN rxq' /\ i + 1 \in Queued(e) /\ rxq'[i] = rxq[i + 1]
        /\ \A e : \A i \in Queued(e) :
             i # 1 => i - 1 \in Queued(e)' /\ rxq'[i - 1] = rxq[i]
        /\ n \in Nat /\ Len(rxq') + 1 = n /\ f = rxq[1]
    BY <1>1, QueuedTail
  <1>3. DOMAIN rxq = 1 .. n /\ 1 \in DOMAIN rxq /\ IsList(rxq') /\ Len(rxq') = n - 1
    BY <1>2 DEF IsTail
  <1>4. f # Remote => 1 \in Queued(f.id)
    BY <1>2, <1>3 DEF Queued
  <1>5. ASSUME NEW d, 1 \in Queued(d)
        PROVE  f # Remote /\ f.id = d
    BY <1>2, <1>5 DEF Queued
  <1>6. VehicleInv'
    <2>1. \A d \in Ecu : InboxOk(d, inbox'[d])
      <3> SUFFICES ASSUME NEW d \in Ecu PROVE InboxOk(d, inbox'[d])
        OBVIOUS
      <3> PICK b, r : b = inbox[d] /\ r = inbox'[d]
        OBVIOUS
      <3>1. InboxOk(d, b) /\ (r = b \/ r = Append(b, [kind |-> "FC"]))
        BY <1>1 DEF VehicleInv, Takes
      <3> QED BY <3>1, InboxFlow
    <2>2. \A d, y : (InboxOk(d, y) => InboxOk(d, y)') /\ (EcuOk(d, y) => EcuOk(d, y)')
      BY <1>1 DEF InboxOk, IsEntry, EcuOk, calls
    <2>3. \A y : IsMessage(y) => IsMessage(y)'
      BY <1>1 DEF IsMessage, calls
    <2> QED
      BY <1>1, <2>1, <2>2, <2>3 DEF VehicleInv, calls, Takes
  <1>7. QueueInv'
    <2>1. \A y : IsQueued(y) => IsQueued(y)'
      BY <1>1 DEF IsQueued
    <2>2. Len(rxq') <= RxCap
      BY <1>1, <1>2, <1>3, SessionAssumption DEF QueueInv
    <2> QED
      BY <1>1, <1>2, <1>3, <2>1, <2>2 DEF QueueInv
  <1>8. f # Remote => \A i \in Queued(f.id)' : Earlier(f.data, rxq[i].data)'
    <2> SUFFICES ASSUME f # Remote, NEW i \in Queued(f.id)'
                 PROVE  Earlier(f.data, rxq[i].data)'
      OBVIOUS
    <2>1. i + 1 \in Queued(f.id) /\ rxq'[i] = rxq[i + 1] /\ 1 < i + 1
      BY <1>2
    <2>2. f.id \in Ecu
      BY <1>1, <1>4, QueuedIs DEF IsMessage
    <2>3. Earlier(rxq[1].data, rxq[i + 1].data)
      BY <1>4, <2>1, <2>2 DEF SessionInv, OrderInv, QueueOrder
    <2> QED BY <1>2, <2>1, <2>3 DEF Earlier
  <1>9. f # Remote /\ f.id \in Ecu /\ ecu[f.id].st # "idle" => Earlier(f.data, Next2(f.id))'
    BY <1>1, <1>2, <1>4 DEF SessionInv, OrderInv, SendingLast, Earlier, Next2
  <1>10. OrderInv'
    <2> SUFFICES ASSUME NEW d \in Ecu
                 PROVE  QueueOrder(d)' /\ SendingLast(d)' /\ ReceivedFirst(d)'
      BY DEF OrderInv
    <2>1. QueueOrder(d) /\ SendingLast(d) /\ ReceivedFirst(d) /\ Next2(d)' = Next2(d)
      BY <1>1 DEF SessionInv, OrderInv, Next2
    <2>2. QueueOrder(d)'
      <3> SUFFICES ASSUME NEW i \in Queued(d)', NEW j \in Queued(d)', i < j
                   PROVE  Earlier(rxq[i].data, rxq[j].data)'
        BY DEF QueueOrder
      <3>1. /\ i + 1 \in Queued(d) /\ j + 1 \in Queued(d) /\ i + 1 < j + 1
            /\ rxq'[i] = rxq[i + 1] /\ rxq'[j] = rxq[j + 1]
        BY <1>2
      <3> QED BY <2>1, <3>1 DEF QueueOrder, Earlier
    <2>3. SendingLast(d)'
      BY <1>1, <1>2, <2>1 DEF SendingLast, Earlier
    <2>4. ReceivedFirst(d)'
      <3> SUFFICES ASSUME Receiving', responder' = d, NEW p \in DOMAIN payload'
                   PROVE  /\ \A i \in Queued(d)' : Earlier(payload[p], rxq[i].data)'
                          /\ ecu'[d].st # "idle" => Earlier(payload[p], Next2(d))'
        BY DEF ReceivedFirst
      <3>1. CASE f # Remote /\ f.id = responder' /\ payload'[p] = f.data
        BY <1>1, <1>8, <1>9, <3>1 DEF Earlier
      <3>2. CASE /\ Receiving /\ responder' = responder
                 /\ p \in DOMAIN payload /\ payload'[p] = payload[p]
        BY <1>1, <1>2, <2>1, <3>2 DEF ReceivedFirst, Earlier
      <3> QED BY <3>1, <3>2 DEF Takes
    <2> QED BY <2>2, <2>3, <2>4
  <1>11. ~lost' => ~lost /\ Linked'
    <2>1. ASSUME NEW d \in Ecu, NEW y, y.call \in Nat, NEW i \in Nat, NEW j \in Nat \ {0},
                 Preceded(d, y, i, j + 1),
                 \A h \in Queued(d) : h < j + 1 => Earlier(rxq[h].data, Chunk(y, i))
          PROVE  Preceded(d, y, i, j)'
      <3>1. CASE \E g \in Queued(d) : g < j + 1 /\ rxq[g].data = Chunk(y, i - 1)
        <4> PICK g \in Queued(d) : g < j + 1 /\ rxq[g].data = Chunk(y, i - 1)
          BY <3>1
        <4>1. CASE g # 1
          <5>1. g - 1 \in Queued(d)' /\ g - 1 < j /\ rxq'[g - 1].data = Chunk(y, i - 1)
            BY <1>1, <1>2, <4>1, QueuedIs
          <5> QED BY <5>1 DEF Preceded, Chunk
        <4>2. CASE g = 1
          <5>1. f # Remote /\ f.id = d /\ f.data = Chunk(y, i - 1)
            BY <1>2, <1>5, <4>2
          <5>2. ASSUME NEW h \in Queued(d)', h < j PROVE FALSE
            <6> PICK c : c = rxq'[h].data
              OBVIOUS
            <6>1. h + 1 \in Queued(d) /\ h + 1 < j + 1 /\ c = rxq[h + 1].data
              BY <1>2, <5>2
            <6>2. c.msg.call \in Nat /\ c.k \in Nat
              BY <1>1, <6>1, QueuedIs
            <6>3. Earlier(c, Chunk(y, i))
              BY <2>1, <6>1
            <6>4. Earlier(Chunk(y, i - 1), c)
              BY <1>8, <5>1 DEF Earlier
            <6> QED BY <2>1, <6>2, <6>3, <6>4 DEF Earlier, Chunk
          <5>3. Receiving' /\ responder' = d => payload'[Len(payload')] = Chunk(y, i - 1)
            BY <5>1 DEF Takes
          <5>4. \A h \in Queued(d)' : h >= j
            BY <1>2, <5>2
          <5> QED BY <5>3, <5>4 DEF Preceded, Chunk
        <4> QED BY <4>1, <4>2
      <3>2. CASE /\ \A g \in Queued(d) : g >= j + 1
                 /\ Receiving /\ responder = d => payload[Len(payload)] = Chunk(y, i - 1)
        <4>1. \A h \in Queued(d)' : h >= j
          BY <1>2, <3>2
        <4>2. ~(f # Remote /\ f.id = d)
          BY <1>4, <3>2
        <4>3. Receiving' /\ responder' = d => payload'[Len(payload')] = Chunk(y, i - 1)
          BY <3>2, <4>2 DEF Takes
        <4> QED BY <4>1, <4>3 DEF Preceded, Chunk
      <3> QED BY <2>1, <3>1, <3>2 DEF Preceded
    <2> SUFFICES ASSUME ~lost' PROVE ~lost /\ Linked'
      OBVIOUS
    <2>2. ~lost /\ Linked
      BY <1>1 DEF SessionInv, ChainInv
    <2>3. ASSUME NEW d \in Ecu, NEW j \in Queued(d)', rxq'[j].data.k > 1
          PROVE  Preceded(d, rxq[j].data.msg, rxq[j].data.k, j)'
      <3> PICK y, i : y = rxq'[j].data.msg /\ i = rxq'[j].data.k
        OBVIOUS
      <3>1. j + 1 \in Queued(d) /\ rxq'[j] = rxq[j + 1] /\ j \in Nat \ {0}
        BY <1>2
      <3>2. y.call \in Nat /\ i \in Nat /\ rxq[j + 1].data = Chunk(y, i)
        BY <1>1, <3>1, QueuedIs
      <3>3. Preceded(d, y, i, j + 1)
        BY <2>2, <2>3, <3>1 DEF Linked
      <3>4. \A h \in Queued(d) : h < j + 1 => Earlier(rxq[h].data, Chunk(y, i))
        BY <3>1, <3>2 DEF SessionInv, OrderInv, QueueOrder
      <3>5. Preceded(d, y, i, j)'
        BY <2>1, <3>1, <3>2, <3>3, <3>4
      <3> QED BY <3>5 DEF Preceded
    <2>4. ASSUME NEW d \in Ecu, ecu'[d].st # "idle"
          PROVE  Preceded(d, ecu[d].msg, ecu[d].k, Len(rxq) + 1)'
      <3> PICK y, i, j : y = ecu'[d].msg /\ i = ecu'[d].k /\ j = Len(rxq') + 1
        OBVIOUS
      <3>1. j = n /\ j \in Nat \ {0} /\ ecu[d].st # "idle" /\ Chunk(y, i) = Next2(d)
        BY <1>1, <1>2, <1>3, <2>4 DEF Next2
      <3>2. y.call \in Nat /\ i \in Nat
        BY <1>1, <3>1, SendingIs
      <3>3. Preceded(d, y, i, j + 1)
        BY <1>1, <2>2, <3>1 DEF Linked
      <3>4. \A h \in Queued(d) : Earlier(rxq[h].data, Chunk(y, i))
        BY <3>1 DEF SessionInv, OrderInv, SendingLast
      <3>5. Preceded(d, y, i, j)'
        BY <2>1, <3>1, <3>2, <3>3, <3>4
      <3> QED BY <3>5 DEF Preceded
    <2> QED BY <2>2, <2>3, <2>4 DEF Linked
  <1>12. \A d \in Ecu, c \in Nat : OnItsWay(d, c)' => OnItsWay(d, c)
    <2> SUFFICES ASSUME NEW d \in Ecu, NEW c \in Nat, OnItsWay(d, c)'
                 PROVE  OnItsWay(d, c)
      OBVIOUS
    <2>1. CASE \E i \in Queued(d)' : rxq'[i].data.msg.call = c
      BY <1>2, <2>1 DEF OnItsWay
    <2>2. CASE ecu'[d].st # "idle" /\ ecu'[d].msg.call = c
      BY <1>1, <2>2 DEF OnItsWay
    <2>3. CASE \E i \in DOMAIN inbox'[d] : /\ inbox'[d][i].kind = "REQ" /\ inbox'[d][i].call = c
                                          /\ AnswerLen[d][inbox'[d][i].req] > 0
      <3> PICK b, r : b = inbox[d] /\ r = inbox'[d]
        OBVIOUS
      <3>1. InboxOk(d, b) /\ (r = b \/ r = Append(b, [kind |-> "FC"]))
        BY <1>1 DEF VehicleInv, Takes
      <3>2. \A i \in DOMAIN r : r[i].kind # "FC" => i \in DOMAIN b /\ r[i] = b[i]
        BY <3>1, InboxFlow
      <3> QED BY <2>3, <3>2 DEF OnItsWay
    <2> QED BY <2>1, <2>2, <2>3 DEF OnItsWay
  <1> QED
    BY <1>1, <1>2, <1>6, <1>7, <1>8, <1>9, <1>10, <1>11, <1>12 DEF GoesOn, calls

(* The call ends without an answer.                                        *)
LEMMA NoAnswerStep ==
    ASSUME SessionInv, GoesOn, IInv', pc = "recv", pc' = "idle", result'.code # "OK",
           result'.chunk = << >>, UNCHANGED taken
    PROVE  SessionInv'
  <1>1. ~Receiving' /\ ReceivingInv /\ CleanInv
    BY DEF Receiving, SessionInv
  <1>2. ReceivingInv'
    <2>1. \A i \in DOMAIN rxq' :
            rxq'[i] # Remote /\ rxq'[i].data.k = 1 => rxq'[i].data.msg \notin taken
      BY <1>1 DEF GoesOn, ReceivingInv
    <2> QED
      BY <1>1, <2>1 DEF GoesOn, ReceivingInv
  <1>3. ChainInv' /\ ReplyInv'
    BY <1>1 DEF GoesOn, ChainInv, ReplyInv
  <1>4. CleanInv'
    <2>1. calls \in Nat
      BY CallsIs DEF SessionInv
    <2>2. calls # 0 /\ ~CleanSoFar'
      BY <1>1 DEF ReceivingInv, GoesOn, CleanSoFar
    <2> SUFFICES ASSUME clean', ~lost'
                 PROVE  \A d \in Ecu : \A c \in 1 .. calls' - 1 : ~OnItsWay(d, c)'
      BY <1>1, <2>2 DEF CleanInv
    <2>3. \A d \in Ecu : \A c \in 1 .. calls - 1 : ~OnItsWay(d, c) /\ c \in Nat
      BY <1>1, <2>1 DEF GoesOn, CleanInv
    <2> QED BY <2>3 DEF GoesOn
  <1> QED
    BY <1>2, <1>3, <1>4 DEF GoesOn, SessionInv

LEMMA TimeoutStep ==
    ASSUME SessionInv, ClientTimeout
    PROVE  SessionInv'
  <1>1. /\ UNCHANGED << asked, rxq, lost, inbox, ecu, said, taken, remote, clean >>
        /\ pc = "recv" /\ pc' = "idle" /\ result'.code # "OK" /\ ~Receiving'
        /\ result'.chunk = << >>
    BY DEF ClientTimeout, Timeout, Finish, Error, Receiving, sessionVars, busVars, ecuVars
  <1>2. IInv'
    BY NextIInv DEF SessionInv, ClientTimeout, Next
  <1>3. calls' = calls /\ VehicleInv' /\ QueueInv'
    <2>1. \A d \in Ecu : InboxOk(d, inbox[d])' /\ EcuOk(d, ecu[d])'
      BY <1>1 DEF SessionInv, VehicleInv, InboxOk, IsEntry, EcuOk, calls
    <2>2. \A y : (IsMessage(y) => IsMessage(y)') /\ (IsQueued(y) => IsQueued(y)')
      BY <1>1 DEF IsMessage, IsQueued, calls
    <2> QED
      BY <1>1, <2>1, <2>2 DEF SessionInv, VehicleInv, QueueInv, calls
  <1>4. /\ \A d : Queued(d)' = Queued(d)
        /\ \A d, c : OnItsWay(d, c)' => OnItsWay(d, c)
        /\ \A d, y, i, j : Preceded(d, y, i, j) => Preceded(d, y, i, j)'
    <2>1. \A d : Queued(d)' = Queued(d)
      BY <1>1 DEF Queued
    <2> QED
      BY <1>1, <2>1 DEF OnItsWay, Preceded, Chunk
  <1>5. OrderInv'
    BY <1>1, <1>4 DEF SessionInv, OrderInv, QueueOrder, SendingLast, ReceivedFirst, Next2, Earlier
  <1>6. ~lost' => ~lost /\ Linked'
    BY <1>1, <1>4 DEF SessionInv, ChainInv, Linked
  <1>7. GoesOn
    BY <1>1, <1>3, <1>4, <1>5, <1>6 DEF GoesOn
  <1> QED
    BY <1>1, <1>2, <1>7, NoAnswerStep

LEMMA ClientRemoteStep ==
    ASSUME SessionInv, ClientRemote
    PROVE  SessionInv'
  <1>1. /\ pc = "recv" /\ pc' = "idle" /\ result'.code # "OK" /\ ~Receiving' /\ UNCHANGED taken
        /\ result'.chunk = << >>
    BY DEF ClientRemote, Timeout, Finish, Error, Receiving
  <1>2. IInv'
    BY NextIInv DEF SessionInv, ClientRemote, Next
  <1>3. Takes(Head(rxq))
    BY <1>1 DEF ClientRemote, Takes, ecuVars, SessionInv, VehicleInv
  <1> QED
    BY <1>1, <1>2, <1>3, TakesStep, NoAnswerStep

(* A frame of an ECU's answer is what the receive loop looks for.          *)
LEMMA SentFields ==
    ASSUME NEW m, IsMessage(m), NEW k \in 1 .. ChunkCount(m.len), NEW f, f = Sent(m, k)
    PROVE  /\ f.id \in RespIds(Variant) /\ f.extd = Extended(Variant) /\ f.dlc # 0
           /\ \/ /\ f.pci = "SF" /\ k = 1 /\ m.len <= SingleBytes
                 /\ f.n = m.len /\ f.dlc = m.len + 1
              \/ /\ f.pci = "FF" /\ k = 1 /\ m.len > SingleBytes /\ f.n = m.len
              \/ /\ f.pci = "CF" /\ k > 1 /\ m.len > SingleBytes /\ f.n = (k - 1) % SeqCount
                 /\ f.dlc = 1 + Carried(m.len, k) - Carried(m.len, k - 1)
  <1> PICK l : l = m.len
    OBVIOUS
  <1>1. l \in Nat /\ l > 0 /\ k \in Nat /\ k >= 1 /\ (k > 1 => l > SingleBytes)
    BY LenIs DEF SingleBytes
  <1>2. f.id \in RespIds(Variant) /\ f.extd = Extended(Variant)
    BY <1>1, SentIs, SessionAssumption DEF IsMessage
  <1>3. CASE k > 1
    <2>1. /\ f.pci = "CF" /\ f.n = (k - 1) % SeqCount
          /\ f.dlc = 1 + Carried(l, k) - Carried(l, k - 1)
      BY <1>3 DEF Sent, NextOf, EcuFrame
    <2>2. f.dlc # 0
      BY <1>1, <1>3, <2>1 DEF Carried, Smaller, FirstBytes, NextBytes
    <2> QED BY <1>1, <1>2, <1>3, <2>1, <2>2
  <1>4. CASE k = 1 /\ l <= SingleBytes
    <2>1. f.pci = "SF" /\ f.n = l /\ f.dlc = l + 1
      BY <1>4 DEF Sent, SingleOf, EcuFrame
    <2> QED BY <1>1, <1>2, <1>4, <2>1
  <1>5. CASE k = 1 /\ l > SingleBytes
    <2>1. f.pci = "FF" /\ f.n = l /\ f.dlc = 8
      BY <1>1, <1>5 DEF Sent, FirstOf, EcuFrame, SingleBytes
    <2> QED BY <1>2, <1>5, <2>1
  <1> QED
    BY <1>1, <1>3, <1>4, <1>5 DEF SingleBytes

(* A frame is stepped over only for another ECU's, or before a first frame. *)
LEMMA SkipStep ==
    ASSUME SessionInv, ClientFrame, Skip(Head(rxq))
    PROVE  SessionInv'
  <1> PICK f : f = Head(rxq)
    OBVIOUS
  <1> PICK m, k :
             /\ m \in said /\ IsMessage(m) /\ k \in 1 .. ChunkCount(m.len) /\ k \in Nat
             /\ m.src \in Ecu /\ f = Sent(m, k) /\ f.id = m.src /\ f \in BusFrame
    BY HeadIs DEF ClientFrame
  <1>1. /\ UNCHANGED vars /\ UNCHANGED << asked, lost, ecu, said, remote, clean, taken >>
        /\ rxq # << >> /\ rxq' = Tail(rxq)
    BY DEF ClientFrame, Skip, vars
  <1>2. /\ IInv' /\ Receiving' = Receiving /\ pc' = pc /\ responder' = responder
        /\ payload' = payload /\ result' = result /\ req' = req /\ total' = total
    BY <1>1, ClientStays
  <1>3. Receiving => f.id # responder
    BY SentFields DEF Receiving, Skip, Ignored
  <1>4. Takes(f)
    BY <1>1, <1>2, <1>3 DEF Takes, Deliver, ClientFrame
  <1>5. GoesOn
    BY <1>4, TakesStep
  <1>6. ReceivingInv'
    <2>1. \A i \in DOMAIN rxq' :
            rxq'[i] # Remote /\ rxq'[i].data.k = 1 => rxq'[i].data.msg \notin taken
      BY <1>5 DEF GoesOn, SessionInv, ReceivingInv
    <2> QED
      BY <1>1, <1>2, <1>5, <2>1 DEF GoesOn, SessionInv, ReceivingInv
  <1>7. ChainInv' /\ ReplyInv'
    BY <1>1, <1>2, <1>5 DEF GoesOn, SessionInv, ChainInv, ReplyInv
  <1>8. CleanInv'
    <2>1. calls \in Nat /\ CleanSoFar' = CleanSoFar
      BY <1>1, CallsIs, CleanStays DEF SessionInv
    <2>2. \A d \in Ecu : \A c \in 1 .. calls - 1 : OnItsWay(d, c)' => OnItsWay(d, c)
      BY <1>5, <2>1 DEF GoesOn
    <2>3. \A d \in Ecu : OnItsWay(d, calls)' => OnItsWay(d, calls)
      <3> PICK c : c = calls
        OBVIOUS
      <3>1. \A d \in Ecu : OnItsWay(d, c)' => OnItsWay(d, c)
        BY <1>5, <2>1 DEF GoesOn
      <3>2. calls' = c
        BY <1>5 DEF GoesOn
      <3> QED BY <3>1, <3>2 DEF OnItsWay
    <2>4. ASSUME clean', ~lost' PROVE clean /\ ~lost
      BY <1>1, <2>4
    <2> QED
      BY <1>2, <1>5, <2>1, <2>2, <2>3, <2>4 DEF GoesOn, SessionInv, CleanInv
  <1> QED
    BY <1>2, <1>5, <1>6, <1>7, <1>8 DEF GoesOn, SessionInv

LEMMA ErrorFrameStep ==
    ASSUME SessionInv, ClientFrame, pc = "recv", pc' = "idle", result'.code # "OK",
           result'.chunk = << >>
    PROVE  SessionInv'
  <1>1. IInv'
    BY HeadIs, FrameStep DEF ClientFrame, SessionInv
  <1>2. Takes(Head(rxq)) /\ UNCHANGED taken
    BY DEF ClientFrame, Takes, Deliver, Receiving
  <1> QED
    BY <1>1, <1>2, TakesStep, NoAnswerStep

(* The first frame of a transfer: no earlier part of the message, and      *)
(* while every call was clean, an answer to this call.                     *)
LEMMA CallOfHead ==
    ASSUME SessionInv, clean, ~lost, rxq # << >>, Head(rxq) # Remote
    PROVE  Head(rxq).data.msg.call = calls
  <1> PICK m, k :
             /\ IsMessage(m) /\ m.src \in Ecu /\ 1 \in Queued(m.src)
             /\ Head(rxq).data = Chunk(m, k) /\ Head(rxq) = rxq[1] /\ Chunk(m, k).msg = m
    BY HeadIs
  <1>1. OnItsWay(m.src, m.call)
    BY DEF OnItsWay
  <1>2. m.call \in 1 .. calls /\ calls \in Nat
    BY CallsIs DEF SessionInv, IsMessage
  <1>3. m.call \notin 1 .. calls - 1
    BY <1>1 DEF SessionInv, CleanInv
  <1> QED
    BY <1>2, <1>3

LEMMA AcceptFirstKeeps ==
    ASSUME SessionInv, ClientFrame, AcceptFirst(Head(rxq))
    PROVE  SessionInv'
  <1> PICK f : f = Head(rxq)
    OBVIOUS
  <1> PICK m, k :
             /\ m \in said /\ IsMessage(m) /\ k \in 1 .. ChunkCount(m.len) /\ k \in Nat
             /\ m.src \in Ecu /\ f = Sent(m, k) /\ f.id = m.src /\ f \in BusFrame
             /\ f.data = Chunk(m, k) /\ 1 \in Queued(m.src) /\ f = rxq[1]
             /\ Chunk(m, k).msg = m /\ Chunk(m, k).k = k
    BY HeadIs DEF ClientFrame
  <1>1. /\ UNCHANGED << asked, lost, ecu, said, remote, clean >> /\ f # Remote
        /\ rxq # << >> /\ rxq' = Tail(rxq) /\ UNCHANGED << pc, req, result >> /\ pc = "recv"
        /\ responder' = f.id /\ total' = Announced(f) /\ payload' = << f.data >>
        /\ taken' = taken
    BY DEF ClientFrame, AcceptFirst
  <1>2. IInv'
    BY FrameStep DEF ClientFrame, SessionInv, OnFrame
  <1>3. f.pci = "FF" /\ k = 1 /\ m.len > SingleBytes /\ f.n = m.len
    BY SentFields DEF AcceptFirst, SingleBytes
  <1>4. DOMAIN payload' = {1} /\ Len(payload') = 1 /\ payload'[1] = Chunk(m, 1)
    BY <1>1, <1>3
  <1>5. Takes(f)
    BY <1>1, <1>4 DEF Takes, Deliver, ClientFrame
  <1>6. GoesOn
    BY <1>5, TakesStep
  <1>7. total' = m.len
    BY <1>1, <1>3, LenIs DEF AcceptFirst, Acceptable, Announced
  <1>8. m \notin taken
    <2>1. 1 \in DOMAIN rxq /\ rxq[1].data.k = 1 /\ rxq[1].data.msg = m
      BY <1>3 DEF Queued
    <2> QED BY <1>1, <2>1 DEF SessionInv, ReceivingInv
  <1>9. ReceivingInv'
    <2>1. \A i \in DOMAIN rxq' :
            rxq'[i] # Remote /\ rxq'[i].data.k = 1 => rxq'[i].data.msg \notin taken
      BY <1>6 DEF GoesOn, SessionInv, ReceivingInv
    <2> QED
      BY <1>1, <1>3, <1>4, <1>6, <1>7, <1>8, <2>1 DEF GoesOn, SessionInv, ReceivingInv
  <1>10. ChainInv'
    BY <1>3, <1>4, <1>6 DEF GoesOn, ChainInv
  <1>11. ReplyInv'
    BY <1>1, <1>6 DEF GoesOn, SessionInv, ReplyInv
  <1>12. CleanInv'
    <2>1. calls \in Nat
      BY CallsIs DEF SessionInv
    <2>2. \A d \in Ecu : \A c \in 1 .. calls - 1 : OnItsWay(d, c)' => OnItsWay(d, c)
      BY <1>6, <2>1 DEF GoesOn
    <2>3. clean /\ ~lost => m.call = calls
      BY <1>1, CallOfHead
    <2> QED
      BY <1>1, <1>3, <1>4, <1>6, <2>1, <2>2, <2>3 DEF GoesOn, SessionInv, CleanInv
  <1> QED
    BY <1>2, <1>6, <1>9, <1>10, <1>11, <1>12 DEF GoesOn, SessionInv

(* The call returns message m, of which c was taken first and f last.      *)
Returns(f, c, m) ==
    /\ pc = "recv" /\ pc' = "idle" /\ UNCHANGED req
    /\ m \in said /\ taken' = taken \cup {m}
    /\ result'.code = "OK" /\ result'.chunk # << >> /\ result'.chunk[1].msg = m
    /\ c.msg = m /\ c.k = 1 /\ \A i \in Queued(m.src)' : Earlier(c, rxq[i].data)'
    /\ ~lost =>
         /\ f # Remote /\ f.data = Chunk(m, ChunkCount(m.len)) /\ f.id = m.src
         /\ result'.from = m.src /\ result'.len = m.len /\ result'.chunk = WholeOf(m)
    /\ clean /\ ~lost => m.call = calls

(* Where one ECU has an answer, nothing is on its way once it is returned. *)
LEMMA NothingLeft ==
    ASSUME SessionInv, NEW f, Takes(f), f # Remote, NEW m \in said, m.call = calls,
           f.id = m.src, f.data = Chunk(m, ChunkCount(m.len)),
           \A e, d \in Answering(asked[calls]) : e = d,
           NEW d \in Ecu, OnItsWay(d, calls)'
    PROVE  FALSE
  <1>1. /\ VehicleInv /\ QueueInv /\ VehicleInv' /\ QueueInv' /\ calls' = calls
        /\ UNCHANGED << asked, said, ecu >>
        /\ \A i \in Queued(f.id)' : Earlier(f.data, rxq[i].data)'
        /\ f.id \in Ecu /\ ecu[f.id].st # "idle" => Earlier(f.data, Next2(f.id))'
    BY TakesStep DEF SessionInv, GoesOn, Takes
  <1>2. IsMessage(m) /\ m.src \in Ecu /\ m.src \in Answering(asked[calls])
    <2>1. IsMessage(m)
      BY <1>1 DEF VehicleInv
    <2>2. m.len = AnswerLen[m.src][m.req]
      BY <2>1, LenIs
    <2> QED BY <2>1, <2>2 DEF IsMessage, Answering
  <1>3. ChunkCount(m.len) \in Nat /\ m.call \in Nat /\ calls \in Nat
    BY <1>1, <1>2, LenIs, CallsIs DEF IsMessage
  <1>4. ASSUME NEW y \in said, y.call = calls
        PROVE  y = m
    <2>1. IsMessage(y)
      BY <1>1 DEF VehicleInv
    <2>2. y.len = AnswerLen[y.src][y.req]
      BY <2>1, LenIs
    <2>3. y.src \in Answering(asked[calls])
      BY <1>4, <2>1, <2>2 DEF IsMessage, Answering
    <2>4. y.src = m.src
      BY <1>2, <2>3
    <2> QED BY <1>2, <1>4, <2>1, <2>4, SameMessage
  <1>5. CASE \E i \in Queued(d)' : rxq'[i].data.msg.call = calls'
    <2> PICK i \in Queued(d)' : rxq'[i].data.msg.call = calls
      BY <1>1, <1>5
    <2> PICK y, k : y = rxq'[i].data.msg /\ k = rxq'[i].data.k
      OBVIOUS
    <2>1. y \in said /\ y.src = d /\ k \in 1 .. ChunkCount(y.len) /\ rxq'[i].data = Chunk(y, k)
      <3> PICK g : g = rxq'[i]
        OBVIOUS
      <3>1. g # Remote /\ IsQueued(g)' /\ g.id = d
        BY <1>1 DEF Queued, QueueInv
      <3>2. y \in said /\ k \in 1 .. ChunkCount(y.len) /\ g = Sent(y, k)
        BY <1>1, <3>1 DEF IsQueued
      <3>3. IsMessage(y)
        BY <1>1, <3>2 DEF VehicleInv
      <3>4. ChunkCount(y.len) \in Nat
        BY <3>3, LenIs
      <3>5. k \in Nat /\ k >= 1
        <4> PICK z \in Nat : z = ChunkCount(y.len)
          BY <3>4
        <4>1. k \in 1 .. z
          BY <3>2
        <4> QED BY <4>1
      <3>6. Sent(y, k).id = y.src /\ Sent(y, k).data = Chunk(y, k)
        BY <3>5, SentIs
      <3> QED BY <3>1, <3>2, <3>6
    <2>2. y = m
      BY <1>4, <2>1
    <2>3. Earlier(f.data, rxq[i].data)'
      BY <1>1, <2>1, <2>2
    <2>4. Earlier(Chunk(m, ChunkCount(m.len)), Chunk(m, k))
      BY <2>1, <2>2, <2>3 DEF Earlier
    <2> QED BY <1>3, <2>1, <2>2, <2>4 DEF Earlier, Chunk
  <1>6. CASE ecu'[d].st # "idle" /\ ecu'[d].msg.call = calls'
    <2>1. /\ ecu[d].st # "idle" /\ ecu[d].msg \in said /\ ecu[d].msg.src = d
          /\ ecu[d].k \in 2 .. ChunkCount(ecu[d].msg.len)
      BY <1>1, <1>6, SendingIs
    <2>2. ecu[d].msg = m /\ d = f.id
      BY <1>1, <1>4, <1>6, <2>1
    <2>3. Earlier(Chunk(m, ChunkCount(m.len)), Chunk(m, ecu[d].k))
      BY <1>1, <2>1, <2>2 DEF Earlier, Next2
    <2> QED BY <1>3, <2>1, <2>2, <2>3 DEF Earlier, Chunk
  <1>7. CASE \E i \in DOMAIN inbox'[d] :
               /\ inbox'[d][i].kind = "REQ" /\ inbox'[d][i].call = calls'
               /\ AnswerLen[d][inbox'[d][i].req] > 0
    <2> PICK x : /\ IsEntry(d, x)' /\ x.kind = "REQ" /\ x.call = calls /\ AnswerLen[d][x.req] > 0
      <3> PICK i \in DOMAIN inbox'[d] :
               /\ inbox'[d][i].kind = "REQ" /\ inbox'[d][i].call = calls'
               /\ AnswerLen[d][inbox'[d][i].req] > 0
        BY <1>7
      <3> PICK x : x = inbox'[d][i]
        OBVIOUS
      <3>1. IsEntry(d, x)'
        BY <1>1 DEF VehicleInv, InboxOk
      <3> QED BY <1>1, <3>1
    <2>1. x.req = asked[calls] /\ \A y \in said : y.src = d => y.call < x.call
      BY <1>1 DEF IsEntry
    <2>2. d \in Answering(asked[calls])
      BY <2>1 DEF Answering
    <2>3. d = m.src
      BY <1>2, <2>2
    <2> QED BY <1>3, <2>1, <2>3
  <1> QED
    BY <1>5, <1>6, <1>7 DEF OnItsWay

LEMMA ReturnsStep ==
    ASSUME SessionInv, NEW f, NEW c, NEW m, Takes(f), Returns(f, c, m), IInv'
    PROVE  SessionInv'
  <1>1. GoesOn /\ ~Receiving' /\ lost' = lost /\ UNCHANGED << asked, clean >>
    BY TakesStep DEF Returns, Receiving, Takes
  <1>2. calls \in Nat /\ calls # 0 /\ asked[calls] = req /\ req' = req /\ calls' = calls
    BY <1>1, CallsIs DEF SessionInv, ReceivingInv, Returns, GoesOn
  <1>3. ReceivingInv'
    <2>1. ASSUME NEW i \in DOMAIN rxq', rxq'[i] # Remote, rxq'[i].data.k = 1
          PROVE  rxq'[i].data.msg \notin taken'
      <3> PICK y : y = rxq'[i].data.msg
        OBVIOUS
      <3>1. y \notin taken
        BY <1>1, <2>1 DEF GoesOn, SessionInv, ReceivingInv
      <3>2. CASE y = m
        <4>1. IsQueued(rxq[i])'
          BY <1>1 DEF GoesOn, QueueInv
        <4>2. rxq'[i] = Sent(y, 1) /\ rxq'[i].id = m.src
          BY <2>1, <3>2, <4>1, SentIs DEF IsQueued
        <4>3. i \in Queued(m.src)'
          BY <2>1, <4>2 DEF Queued
        <4>4. Earlier(c, rxq[i].data)' /\ c.msg = m /\ c.k = 1
          BY <4>3 DEF Returns
        <4>5. m.call \in Nat
          BY <1>2, CallsIs DEF Returns, SessionInv, VehicleInv, IsMessage
        <4> QED BY <2>1, <3>2, <4>4, <4>5 DEF Earlier
      <3> QED BY <3>1, <3>2 DEF Returns
    <2> QED
      BY <1>1, <1>2, <2>1 DEF GoesOn, SessionInv, ReceivingInv, Returns
  <1>4. ChainInv' /\ ReplyInv'
    BY <1>1 DEF GoesOn, ChainInv, ReplyInv, Returns
  <1>5. CleanInv'
    <2> SUFFICES ASSUME clean', ~lost'
                 PROVE  /\ \A d \in Ecu : \A i \in 1 .. calls' - 1 : ~OnItsWay(d, i)'
                        /\ result'.chunk[1].msg.call = calls'
                        /\ CleanSoFar' => \A d \in Ecu : ~OnItsWay(d, calls)'
      BY <1>1 DEF CleanInv
    <2>1. \A d \in Ecu : \A i \in 1 .. calls - 1 : ~OnItsWay(d, i) /\ i \in Nat
      BY <1>1, <1>2 DEF SessionInv, CleanInv
    <2>2. \A d \in Ecu : \A i \in 1 .. calls - 1 : ~OnItsWay(d, i)'
      BY <1>1, <2>1 DEF GoesOn
    <2>3. result'.chunk[1].msg.call = calls'
      BY <1>1, <1>2 DEF Returns
    <2>4. ASSUME CleanSoFar', NEW d \in Ecu, OnItsWay(d, calls)'
          PROVE  FALSE
      <3>1. \A x, y \in Answering(asked[calls]) : x = y
        BY <1>2, <2>4 DEF CleanSoFar, Answering
      <3>2. /\ f # Remote /\ f.data = Chunk(m, ChunkCount(m.len)) /\ f.id = m.src
            /\ m.call = calls /\ m \in said
        BY <1>1 DEF Returns
      <3> QED BY <2>4, <3>1, <3>2, NothingLeft
    <2> QED BY <1>2, <2>2, <2>3, <2>4
  <1> QED
    BY <1>1, <1>3, <1>4, <1>5 DEF GoesOn, SessionInv

LEMMA SingleKeeps ==
    ASSUME SessionInv, ClientFrame, OnSingle(Head(rxq))
    PROVE  SessionInv'
  <1> PICK f : f = Head(rxq)
    OBVIOUS
  <1> PICK m, k :
             /\ m \in said /\ IsMessage(m) /\ k \in 1 .. ChunkCount(m.len) /\ k \in Nat
             /\ m.src \in Ecu /\ f = Sent(m, k) /\ f.id = m.src /\ f \in BusFrame
             /\ f.data = Chunk(m, k) /\ 1 \in Queued(m.src) /\ f = rxq[1]
             /\ Chunk(m, k).msg = m /\ Chunk(m, k).k = k
    BY HeadIs DEF ClientFrame
  <1>1. f.pci = "SF" /\ k = 1 /\ m.len <= SingleBytes /\ f.n = m.len
    <2>1. f.pci = "SF"
      BY DEF OnSingle
    <2> QED BY <2>1, SentFields
  <1>2. CASE pc' = "idle" /\ result'.code # "OK" /\ result'.chunk = << >>
    BY <1>2, ErrorFrameStep DEF OnSingle
  <1>3. CASE Finish(Reply(f.id, f.n, << f.data >>))
    <2>1. Takes(f) /\ pc = "recv" /\ pc' = "idle" /\ UNCHANGED req /\ f # Remote
      BY <1>3 DEF ClientFrame, Takes, Deliver, Finish, OnSingle, Receiving
    <2>2. /\ result'.code = "OK" /\ result'.from = m.src /\ result'.len = m.len
          /\ result'.chunk = << Chunk(m, 1) >>
      BY <1>1, <1>3 DEF Finish, Reply
    <2>3. result'.chunk # << >> /\ result'.chunk[1] = Chunk(m, 1) /\ Chunk(m, 1).msg = m
      BY <1>1, <2>2
    <2>4. result = None
      BY <2>1 DEF SessionInv, IInv, TransferInv
    <2>5. taken' = taken \cup {m}
      BY <2>2, <2>3, <2>4 DEF ClientFrame, None, Error
    <2>6. ChunkCount(m.len) = 1 /\ WholeOf(m) = << Chunk(m, 1) >>
      <3>1. ChunkCount(m.len) = 1
        BY <1>1, LenIs
      <3>2. WholeOf(m) = [i \in 1 .. 1 |-> Chunk(m, i)]
        BY <3>1 DEF WholeOf
      <3>3. [i \in 1 .. 1 |-> Chunk(m, i)] = << Chunk(m, 1) >>
        OBVIOUS
      <3> QED BY <3>1, <3>2, <3>3
    <2>7. \A i \in Queued(m.src)' : Earlier(f.data, rxq[i].data)'
      BY <2>1, TakesStep
    <2>8. clean /\ ~lost => m.call = calls
      BY <2>1, CallOfHead DEF Takes
    <2>9. Returns(f, f.data, m)
      BY <1>1, <2>1, <2>2, <2>3, <2>5, <2>6, <2>7, <2>8 DEF Returns
    <2>10. IInv'
      BY FrameStep DEF ClientFrame, SessionInv
    <2> QED BY <2>1, <2>9, <2>10, ReturnsStep
  <1> QED
    BY <1>2, <1>3 DEF OnSingle, Finish, Error

(* One more consecutive frame of a transfer.                               *)
LEMMA NextHead ==
    ASSUME SessionInv, ClientFrame, pc = "recv",
           NEW f, f = Head(rxq), f.pci = "CF", ~Ignored(f),
           NEW m, m = payload[1].msg, NEW n, n = Len(payload)
    PROVE  /\ Receiving /\ f # Remote /\ f.id = responder /\ f.data \in Data
           /\ payload \in Seq(Data) /\ n \in Nat \ {0} /\ DOMAIN payload = 1 .. n
           /\ m \in said \ taken /\ m.src = responder
           /\ payload[1].k = 1 /\ total = m.len /\ IsMessage(m)
           /\ f.data.msg \in said /\ f.data.msg.src = responder /\ f.data.k \in Nat
           /\ ~lost => /\ f.data = Chunk(m, n + 1) /\ n + 1 \in 1 .. ChunkCount(m.len)
                       /\ f = Sent(m, n + 1)
  <1> PICK y, k :
             /\ y \in said /\ IsMessage(y) /\ k \in 1 .. ChunkCount(y.len) /\ k \in Nat
             /\ y.src \in Ecu /\ f = Sent(y, k) /\ f.id = y.src /\ f \in BusFrame
             /\ f.data = Chunk(y, k) /\ 1 \in Queued(y.src) /\ f = rxq[1]
             /\ Chunk(y, k).msg = y /\ Chunk(y, k).k = k
    BY HeadIs DEF ClientFrame
  <1>1. Receiving /\ f.id = responder /\ f # Remote
    BY FrameFacts DEF Receiving, ClientFrame
  <1>2. payload \in Seq(Data) /\ f.data \in Data /\ n \in Nat \ {0}
    <2>1. Transferring
      BY <1>1 DEF SessionInv, IInv, TransferInv, Receiving
    <2>2. payload \in Seq(Data) /\ used \in Seq(BusFrame)
      BY DEF SessionInv, IInv, TypeOK
    <2>3. Len(used) \in Nat \ {0} /\ Len(payload) = Len(used)
      BY <2>1, <2>2 DEF Transferring
    <2> QED BY <2>1, <2>2, <2>3, FrameFacts
  <1>3. DOMAIN payload = 1 .. n
    BY <1>2
  <1>4. m \in said \ taken /\ m.src = responder /\ payload[1].k = 1 /\ total = m.len
    BY <1>1, <1>2, <1>3 DEF SessionInv, ReceivingInv
  <1>5. IsMessage(m)
    BY <1>4 DEF SessionInv, VehicleInv
  <1>6. ~lost => y = m /\ k = n + 1
    <2> SUFFICES ASSUME ~lost PROVE y = m /\ k = n + 1
      OBVIOUS
    <2>1. k > 1
      BY SentFields
    <2>2. Preceded(y.src, y, k, 1)
      BY <2>1 DEF SessionInv, ChainInv, Linked
    <2>3. \A i \in Queued(y.src) : ~(i < 1)
      BY QueuedIs DEF SessionInv
    <2>4. payload[n] = Chunk(y, k - 1)
      BY <1>1, <2>2, <2>3 DEF Preceded
    <2>5. payload[n] = Chunk(m, n)
      BY <1>1, <1>2, <1>3 DEF SessionInv, ChainInv
    <2>6. y = m /\ k - 1 = n
      BY <2>4, <2>5 DEF Chunk
    <2> QED BY <2>6
  <1> QED
    BY <1>1, <1>2, <1>3, <1>4, <1>5, <1>6

LEMMA NextIs ==
    ASSUME SessionInv, ClientFrame, AcceptNext(Head(rxq)),
           NEW f, f = Head(rxq), NEW m, m = payload[1].msg, NEW n, n = Len(payload)
    PROVE  /\ Takes(f) /\ DOMAIN payload' = 1 .. n + 1
           /\ payload'[n + 1] = f.data /\ Len(payload') = n + 1 /\ payload' # << >>
           /\ \A p \in DOMAIN payload : payload'[p] = payload[p]
           /\ payload'[1].msg = m
  <1>1. /\ pc = "recv" /\ ~Ignored(f) /\ f.pci = "CF" /\ payload' = Append(payload, f.data)
        /\ responder' = responder /\ f # Remote
    BY DEF AcceptNext, ClientFrame
  <1>2. /\ Receiving /\ f.id = responder /\ f.data \in Data
        /\ payload \in Seq(Data) /\ n \in Nat \ {0} /\ DOMAIN payload = 1 .. n
    BY <1>1, NextHead
  <1>3. /\ DOMAIN payload' = 1 .. n + 1
        /\ payload'[n + 1] = f.data /\ Len(payload') = n + 1
        /\ \A p \in DOMAIN payload : payload'[p] = payload[p]
    <2>1. \A p \in 1 .. n : payload'[p] = payload[p]
      BY <1>1, <1>2
    <2> QED BY <1>1, <1>2, <2>1
  <1>4. Takes(f)
    BY <1>1, <1>2, <1>3 DEF Takes, Deliver, ClientFrame
  <1>5. payload' # << >> /\ payload'[1].msg = m
    BY <1>2, <1>3
  <1> QED
    BY <1>3, <1>4, <1>5

LEMMA AcceptNextKeeps ==
    ASSUME SessionInv, ClientFrame, AcceptNext(Head(rxq))
    PROVE  SessionInv'
  <1> PICK f, m, n : f = Head(rxq) /\ m = payload[1].msg /\ n = Len(payload)
    OBVIOUS
  <1>1. /\ Takes(f) /\ Receiving /\ f # Remote /\ f.id = responder
        /\ n \in Nat \ {0} /\ DOMAIN payload = 1 .. n /\ DOMAIN payload' = 1 .. n + 1
        /\ payload'[n + 1] = f.data /\ Len(payload') = n + 1 /\ payload' # << >>
        /\ \A p \in DOMAIN payload : payload'[p] = payload[p]
        /\ m \in said \ taken /\ m.src = responder /\ payload'[1].msg = m
        /\ payload[1].k = 1 /\ total = m.len /\ IsMessage(m)
        /\ f.data.msg \in said /\ f.data.msg.src = responder /\ f.data.k \in Nat
        /\ ~lost => f.data = Chunk(m, n + 1)
    BY NextHead, NextIs DEF AcceptNext
  <1>2. IInv'
    BY HeadIs, FrameStep DEF ClientFrame, SessionInv, OnFrame
  <1>3. pc = "recv" /\ result = None /\ responder \in Ecu /\ ReceivingInv /\ CleanInv /\ OrderInv
    BY <1>1 DEF SessionInv, IInv, TransferInv, Receiving, IsMessage
  <1>4. \A p \in DOMAIN payload' : p \in DOMAIN payload \/ p = n + 1
    BY <1>1
  <1>5. CASE UNCHANGED << pc, req, result >>
    <2>1. GoesOn /\ taken' = taken /\ responder' = responder /\ total' = total
      BY <1>1, <1>5, TakesStep DEF ClientFrame, AcceptNext
    <2>2. Receiving' /\ payload'[1] = payload[1]
      BY <1>1, <1>5, <2>1 DEF Receiving
    <2>3. ReceivingInv'
      <3>1. \A i \in DOMAIN rxq' :
              rxq'[i] # Remote /\ rxq'[i].data.k = 1 => rxq'[i].data.msg \notin taken
        BY <1>3, <2>1 DEF GoesOn, ReceivingInv
      <3>2. \A p \in DOMAIN payload' : /\ payload'[p].msg \in said /\ payload'[p].msg.src = responder
                                      /\ payload'[p].k \in Nat
        BY <1>1, <1>3, <1>4 DEF ReceivingInv
      <3> QED
        BY <1>1, <1>3, <1>5, <2>1, <2>2, <3>1, <3>2 DEF GoesOn, ReceivingInv
    <2>4. ChainInv'
      <3>1. ~lost' => \A p \in DOMAIN payload' : payload'[p] = Chunk(m, p)
        BY <1>1, <1>4, <2>1 DEF GoesOn, SessionInv, ChainInv
      <3> QED BY <1>1, <2>1, <2>2, <3>1 DEF GoesOn, ChainInv, Chunk
    <2>5. ReplyInv'
      BY <1>3, <1>5 DEF ReplyInv, None, Error
    <2>6. CleanInv'
      <3>1. calls \in Nat
        BY CallsIs DEF SessionInv
      <3>2. \A d \in Ecu : \A c \in 1 .. calls - 1 : OnItsWay(d, c)' => OnItsWay(d, c)
        BY <2>1, <3>1 DEF GoesOn
      <3> QED
        BY <1>1, <1>3, <1>5, <2>1, <2>2, <3>2 DEF GoesOn, CleanInv, None, Error
    <2> QED
      BY <1>2, <2>1, <2>3, <2>4, <2>5, <2>6 DEF GoesOn, SessionInv
  <1>6. CASE got' >= total /\ Finish(Reply(responder, total, payload'))
    <2>1. /\ result'.code = "OK" /\ result'.from = responder /\ result'.len = total
          /\ result'.chunk = payload' /\ pc' = "idle" /\ UNCHANGED req
      BY <1>6 DEF Finish, Reply
    <2>2. taken' = taken \cup {m}
      BY <1>1, <1>3, <2>1 DEF ClientFrame, None, Error
    <2>3. \A i \in Queued(m.src)' : Earlier(payload[1], rxq[i].data)'
      <3> SUFFICES ASSUME NEW i \in Queued(m.src)' PROVE Earlier(payload[1], rxq[i].data)'
        OBVIOUS
      <3>1. rxq' = Tail(rxq) /\ QueueInv /\ rxq # << >> /\ 1 \in DOMAIN payload
        BY <1>1 DEF Takes, SessionInv
      <3>2. i + 1 \in Queued(responder) /\ rxq'[i] = rxq[i + 1]
        BY <1>1, <3>1, QueuedTail
      <3>3. Earlier(payload[1], rxq[i + 1].data)
        BY <1>1, <1>3, <3>1, <3>2 DEF OrderInv, ReceivedFirst
      <3> QED BY <1>1, <3>1, <3>2, <3>3 DEF Earlier
    <2>4. ~lost => ChunkCount(m.len) = n + 1
      <3>1. Transferring /\ total \in Nat /\ got \in Nat
        <4>1. Transferring
          BY <1>1 DEF SessionInv, IInv, TransferInv, Receiving
        <4>2. got \in Nat
          BY DEF SessionInv, IInv, TypeOK
        <4> QED BY <1>1, <4>1, <4>2, LenIs
      <3>2. n = Len(used)
        BY <3>1 DEF Transferring
      <3>3. got = 6 + 7 * (n - 1) /\ got < total /\ total > 7
        BY <3>1, <3>2 DEF Transferring, FirstBytes, NextBytes, SingleBytes
      <3>4. got' = got + Wanted
        BY DEF AcceptNext
      <3>5. total <= 6 + 7 * n
        BY <1>1, <1>6, <3>1, <3>3, <3>4 DEF Wanted, Smaller, NextBytes
      <3> QED
        BY <1>1, <3>1, <3>3, <3>5, ChunkCountReached DEF FirstBytes, NextBytes, SingleBytes
    <2>5. ~lost => result'.chunk = WholeOf(m)
      <3> SUFFICES ASSUME ~lost PROVE payload' = WholeOf(m)
        BY <2>1
      <3>1. \A p \in 1 .. n + 1 : payload'[p] = Chunk(m, p)
        BY <1>1, <1>4 DEF SessionInv, ChainInv
      <3>2. payload' \in Seq(Data)
        BY <1>2 DEF IInv, TypeOK
      <3>3. payload' = [p \in 1 .. n + 1 |-> Chunk(m, p)]
        BY <1>1, <3>1, <3>2
      <3> QED BY <2>4, <3>3 DEF WholeOf
    <2>6. clean /\ ~lost => m.call = calls
      BY <1>1, <1>3 DEF CleanInv
    <2>7. Returns(f, payload[1], m)
      BY <1>1, <1>3, <2>1, <2>2, <2>3, <2>4, <2>5, <2>6 DEF Returns
    <2> QED
      BY <1>1, <1>2, <2>7, ReturnsStep
  <1> QED
    BY <1>5, <1>6 DEF AcceptNext

LEMMA ClientFrameStep ==
    ASSUME SessionInv, ClientFrame
    PROVE  SessionInv'
  <1> PICK f : f = Head(rxq)
    OBVIOUS
  <1>1. OnFrame(f)
    BY DEF ClientFrame
  <1>2. CASE Skip(f)
    BY <1>2, SkipStep
  <1>3. CASE OnSingle(f)
    BY <1>3, SingleKeeps
  <1>4. CASE RefuseFirst(f) \/ FlowControlFails(f) \/ RefuseNext(f)
    BY <1>4, ErrorFrameStep DEF RefuseFirst, FlowControlFails, RefuseNext, Finish, Error
  <1>5. CASE AcceptFirst(f)
    BY <1>5, AcceptFirstKeeps
  <1>6. CASE AcceptNext(f)
    BY <1>6, AcceptNextKeeps
  <1> QED
    BY <1>1, <1>2, <1>3, <1>4, <1>5, <1>6 DEF OnFrame

-----------------------------------------------------------------------------
(* A call is added to the calls, and a request to what each ECU has to read. *)
LEMMA Asked ==
    ASSUME VehicleInv, NEW r, r \in Request \cup {NotSent}, asked' = Append(asked, r),
           calls < MaxCalls
    PROVE  /\ IsList(asked') /\ Range(asked') \subseteq Request \cup {NotSent} /\ calls' <= MaxCalls
           /\ calls \in Nat /\ calls' = calls + 1 /\ asked'[calls + 1] = r
           /\ \A c \in 1 .. calls : c \in 1 .. calls' /\ asked'[c] = asked[c]
  <1>1. IsAppended(asked', asked, r)
    BY Listed, Zenon DEF VehicleInv
  <1> PICK n : n = Len(asked)
    OBVIOUS
  <1>2. /\ IsList(asked') /\ Range(asked') = Range(asked) \cup {r} /\ n \in Nat
        /\ Len(asked') = n + 1 /\ asked'[n + 1] = r
        /\ \A i \in 1 .. n : asked'[i] = asked[i]
    BY <1>1 DEF IsAppended
  <1> QED
    BY <1>2, SessionAssumption DEF VehicleInv, calls

LEMMA InboxKept ==
    ASSUME VehicleInv, NEW r, r \in Request \cup {NotSent}, asked' = Append(asked, r),
           calls < MaxCalls, UNCHANGED said, NEW e \in Ecu
    PROVE  InboxOk(e, inbox[e]) /\ \A y : IsEntry(e, y) => IsEntry(e, y)'
  <1>1. /\ calls \in Nat /\ \A c \in 1 .. calls : c \in 1 .. calls' /\ asked'[c] = asked[c]
    BY Asked
  <1> QED
    BY <1>1 DEF VehicleInv, IsEntry

Asking(r) == [kind |-> "REQ", req |-> r, call |-> calls + 1]
IsAsked(e, r, a) ==
    /\ InboxOk(e, a)'
    /\ \A i \in DOMAIN a :
         (i \in DOMAIN inbox[e] /\ a[i] = inbox[e][i]) \/ a[i].call = calls + 1

LEMMA InboxAsked ==
    ASSUME VehicleInv, NEW e \in Ecu, NEW r \in Request,
           asked' = Append(asked, r), calls < MaxCalls, UNCHANGED said
    PROVE  IsAsked(e, r, Append(inbox[e], Asking(r)))
  <1> PICK x, b : x = Asking(r) /\ b = inbox[e]
    OBVIOUS
  <1> PICK a : a = Append(b, x)
    OBVIOUS
  <1>1. /\ calls \in Nat /\ calls' = calls + 1 /\ asked'[calls + 1] = r
        /\ InboxOk(e, b) /\ \A y : IsEntry(e, y) => IsEntry(e, y)'
    BY Asked, InboxKept
  <1>2. IsAppended(a, b, x)
    BY <1>1, Listed, Zenon DEF InboxOk
  <1> PICK n : n = Len(b)
    OBVIOUS
  <1>3. /\ IsList(a) /\ n \in Nat /\ DOMAIN b = 1 .. n /\ DOMAIN a = 1 .. n + 1
        /\ \A i \in 1 .. n : a[i] = b[i]
        /\ a[n + 1] = x
    BY <1>2 DEF IsAppended
  <1>4. \A i \in DOMAIN a : (i \in DOMAIN b /\ a[i] = b[i]) \/ (i = n + 1 /\ a[i] = x)
    BY <1>3
  <1>5. x.kind = "REQ" /\ x.req = r /\ x.call = calls + 1
    BY DEF Asking
  <1>6. IsEntry(e, x)'
    <2>1. \A m \in said' : m.src = e => m.call < x.call
      BY <1>1, <1>5 DEF VehicleInv, IsMessage
    <2>2. x.call \in 1 .. calls' /\ x.req = asked'[x.call]
      <3> PICK c : c = calls + 1
        OBVIOUS
      <3>1. c \in 1 .. c /\ calls' = c /\ x.call = c /\ asked'[c] = r
        BY <1>1, <1>5
      <3> QED BY <1>5, <3>1
    <2> QED BY <1>5, <2>1, <2>2 DEF IsEntry, Asking
  <1>7. \A i \in DOMAIN a : IsEntry(e, a[i])'
    BY <1>1, <1>4, <1>6 DEF InboxOk
  <1>8. ASSUME NEW i \in DOMAIN a, NEW j \in DOMAIN a, i < j, a[i].kind = "REQ", a[j].kind = "REQ"
        PROVE  a[i].call < a[j].call
    <2>1. i \in DOMAIN b /\ a[i] = b[i]
      BY <1>3, <1>4, <1>8
    <2>2. CASE j \in DOMAIN b /\ a[j] = b[j]
      BY <1>1, <1>8, <2>1, <2>2 DEF InboxOk
    <2>3. CASE a[j] = x
      <3>1. IsEntry(e, a[i])
        BY <1>1, <2>1 DEF InboxOk
      <3>2. a[i].call \in 1 .. calls
        BY <1>8, <3>1 DEF IsEntry
      <3> QED BY <1>1, <1>5, <2>3, <3>2
    <2> QED BY <1>4, <2>2, <2>3
  <1>9. InboxOk(e, a)'
    BY <1>3, <1>7, <1>8 DEF InboxOk
  <1>10. IsAsked(e, r, a)
    BY <1>4, <1>5, <1>9 DEF IsAsked
  <1> QED
    BY <1>10

LEMMA CallKeeps ==
    ASSUME SessionInv, NEW r \in Request, ClientCall(r) \/ ClientCallFails(r)
    PROVE  SessionInv'
  <1>1. VehicleInv /\ IInv
    BY DEF SessionInv
  <1>2. /\ UNCHANGED << rxq, lost, ecu, said, taken, remote >> /\ pc = "idle"
        /\ calls < MaxCalls /\ responder' = NoResponder /\ result'.code # "OK" /\ result'.chunk = << >>
        /\ (pc' = "recv" => asked' = Append(asked, r) /\ req' = r) /\ (clean' => CleanSoFar)
        /\ Call(r) \/ CallSendFails(r)
    BY DEF ClientCall, ClientCallFails, Call, CallSendFails, ResetLocals, None, Error, busVars, ecuVars
  <1>3. IInv'
    BY <1>1, <1>2, CallStep
  <1> PICK a : /\ a \in Request \cup {NotSent} /\ asked' = Append(asked, a)
               /\ pc' = "recv" => a = r /\ req' = r
    BY DEF ClientCall, ClientCallFails, Call, CallSendFails
  <1>4. /\ IsList(asked') /\ Range(asked') \subseteq Request \cup {NotSent} /\ calls' <= MaxCalls
        /\ calls \in Nat /\ calls' = calls + 1 /\ asked'[calls + 1] = a
        /\ \A c \in 1 .. calls : c \in 1 .. calls' /\ asked'[c] = asked[c]
    BY <1>1, <1>2, Asked
  <1>5. ~Receiving'
    BY <1>2 DEF Receiving
  <1>6. ASSUME NEW d \in Ecu
        PROVE  /\ InboxOk(d, inbox[d])'
               /\ \A i \in DOMAIN inbox'[d] :
                    \/ i \in DOMAIN inbox[d] /\ inbox'[d][i] = inbox[d][i]
                    \/ inbox'[d][i].call = calls + 1
    <2> PICK b, y : b = inbox[d] /\ y = inbox'[d]
      OBVIOUS
    <2>1. CASE ClientCall(r)
      <3>1. y = Append(inbox[d], Asking(r))
        BY <1>1, <1>4, <2>1 DEF ClientCall, VehicleInv, Asking
      <3>2. asked' = Append(asked, r) /\ UNCHANGED said /\ calls < MaxCalls
        BY <1>2, <2>1 DEF ClientCall
      <3>3. IsAsked(d, r, Append(inbox[d], Asking(r)))
        BY <1>1, <3>2, InboxAsked
      <3>4. IsAsked(d, r, y)
        BY <3>1, <3>3
      <3> QED BY <3>4 DEF IsAsked
    <2>2. CASE ClientCallFails(r)
      <3>1. y = b
        BY <2>2 DEF ClientCallFails, ecuVars
      <3>2. InboxOk(d, b) /\ \A z : IsEntry(d, z) => IsEntry(d, z)'
        BY <1>1, <1>2, InboxKept
      <3>3. InboxOk(d, b)'
        BY <3>2 DEF InboxOk
      <3> QED BY <3>1, <3>3
    <2> QED BY <2>1, <2>2
  <1>7. ASSUME NEW d \in Ecu, NEW c \in 1 .. calls, OnItsWay(d, c)'
        PROVE  OnItsWay(d, c)
    <2>1. CASE \/ \E i \in Queued(d)' : rxq'[i].data.msg.call = c
               \/ ecu'[d].st # "idle" /\ ecu'[d].msg.call = c
      BY <1>2, <2>1 DEF OnItsWay, Queued
    <2>2. CASE \E i \in DOMAIN inbox'[d] : /\ inbox'[d][i].kind = "REQ" /\ inbox'[d][i].call = c
                                          /\ AnswerLen[d][inbox'[d][i].req] > 0
      <3>1. c # calls + 1
        BY <1>4
      <3> QED BY <1>6, <2>2, <3>1 DEF OnItsWay
    <2> QED BY <1>7, <2>1, <2>2 DEF OnItsWay
  <1>8. VehicleInv'
    <2>1. \A d \in Ecu : EcuOk(d, ecu[d])'
      BY <1>1, <1>2 DEF VehicleInv, EcuOk
    <2>2. \A y \in said' : IsMessage(y)'
      BY <1>1, <1>2, <1>4 DEF VehicleInv, IsMessage
    <2>3. inbox' = [d \in Ecu |-> inbox'[d]]
      BY <1>1 DEF VehicleInv, ClientCall, ClientCallFails, ecuVars
    <2>4. \A d \in Ecu : InboxOk(d, inbox[d])'
      BY <1>6
    <2> QED
      BY <1>1, <1>2, <1>4, <2>1, <2>2, <2>3, <2>4 DEF VehicleInv
  <1>9. QueueInv'
    BY <1>2 DEF SessionInv, QueueInv, IsQueued
  <1>10. \A d : Queued(d)' = Queued(d)
    BY <1>2 DEF Queued
  <1>11. OrderInv'
    BY <1>2, <1>5, <1>10 DEF SessionInv, OrderInv, QueueOrder, SendingLast, ReceivedFirst, Earlier, Next2
  <1>12. ReceivingInv'
    BY <1>2, <1>4, <1>5 DEF SessionInv, ReceivingInv
  <1>13. ChainInv'
    BY <1>2, <1>5, <1>10 DEF SessionInv, ChainInv, Linked, Preceded
  <1>14. ReplyInv'
    BY <1>2 DEF ReplyInv
  <1>15. CleanInv'
    <2> SUFFICES ASSUME clean', ~lost'
                 PROVE  \A d \in Ecu : \A c \in 1 .. calls : ~OnItsWay(d, c)'
      <3>1. calls' - 1 = calls /\ ~CleanSoFar'
        BY <1>2, <1>4 DEF CleanSoFar
      <3> QED BY <1>2, <1>5, <3>1 DEF CleanInv
    <2>1. calls = 0 \/ (clean /\ ~lost /\ CleanSoFar)
      BY <1>2 DEF CleanSoFar
    <2>2. ASSUME NEW d \in Ecu, NEW c \in 1 .. calls PROVE ~OnItsWay(d, c)
      <3>1. c = calls \/ c \in 1 .. calls - 1
        BY <1>4
      <3>2. CASE c = calls
        <4>1. ~OnItsWay(d, calls)
          BY <1>2, <1>4, <2>1, <2>2 DEF SessionInv, CleanInv
        <4> QED BY <3>2, <4>1 DEF OnItsWay
      <3>3. CASE c \in 1 .. calls - 1
        BY <1>4, <2>1, <2>2, <3>3 DEF SessionInv, CleanInv
      <3> QED BY <3>1, <3>2, <3>3
    <2> QED BY <1>7, <2>2
  <1> QED
    BY <1>3, <1>8, <1>9, <1>11, <1>12, <1>13, <1>14, <1>15 DEF SessionInv

-----------------------------------------------------------------------------
LEMMA InitSession == SessionInit => SessionInv
  <1> SUFFICES ASSUME SessionInit PROVE SessionInv
    OBVIOUS
  <1>1. IInv /\ ~Receiving /\ result.code = "NONE" /\ result.chunk = << >> /\ pc = "idle"
    BY InitIInv DEF SessionInit, Init, Receiving, None, Error
  <1>2. /\ calls = 0 /\ rxq = << >> /\ IsList(<< >>) /\ Range(<< >>) = {} /\ Len(rxq) = 0
        /\ \A e : Queued(e) = {}
    BY EmptyList DEF SessionInit, calls, Queued
  <1>3. VehicleInv
    <2>1. \A e \in Ecu : InboxOk(e, inbox[e]) /\ EcuOk(e, ecu[e])
      BY <1>2 DEF SessionInit, InboxOk, EcuOk
    <2>2. IsList(asked) /\ Range(asked) = {} /\ calls <= MaxCalls
      BY <1>2, SessionAssumption DEF SessionInit
    <2>3. remote \in 0 .. MaxRemote
      BY SessionAssumption DEF SessionInit
    <2>3a. lost \in BOOLEAN /\ said = {}
      BY DEF SessionInit
    <2>4. inbox = [e \in Ecu |-> inbox[e]] /\ ecu = [e \in Ecu |-> ecu[e]]
      BY DEF SessionInit
    <2> QED
      BY <2>1, <2>2, <2>3, <2>3a, <2>4 DEF VehicleInv
  <1>4. QueueInv /\ OrderInv /\ ReceivingInv
    BY <1>1, <1>2, SessionAssumption
       DEF SessionInit, QueueInv, OrderInv, QueueOrder, SendingLast, ReceivedFirst, ReceivingInv
  <1>5. ChainInv /\ ReplyInv
    BY <1>1, <1>2 DEF SessionInit, ChainInv, Linked, ReplyInv, Idle
  <1>6. CleanInv
    BY <1>1, <1>2 DEF SessionInit, CleanInv, OnItsWay, Idle
  <1> QED
    BY <1>1, <1>3, <1>4, <1>5, <1>6 DEF SessionInv

LEMMA UnchangedStep ==
    ASSUME SessionInv, UNCHANGED allVars
    PROVE  SessionInv'
  <1>1. /\ UNCHANGED << vars, asked, rxq, lost, inbox, ecu, said, taken, remote, clean >>
        /\ calls' = calls /\ CleanSoFar' = CleanSoFar
    BY CleanStays DEF allVars, sessionVars, busVars, ecuVars
  <1>2. /\ IInv' /\ Receiving' = Receiving /\ pc' = pc /\ responder' = responder
        /\ payload' = payload /\ result' = result /\ req' = req /\ total' = total
    BY <1>1, ClientStays
  <1>3. \A d : Queued(d)' = Queued(d) /\ Next2(d)' = Next2(d)
    BY <1>1 DEF Queued, Next2
  <1>4. VehicleInv' /\ QueueInv'
    BY <1>1 DEF SessionInv, VehicleInv, InboxOk, EcuOk, IsEntry, IsMessage, QueueInv, IsQueued
  <1>5. OrderInv' /\ ReceivingInv'
    BY <1>1, <1>2, <1>3
       DEF SessionInv, OrderInv, QueueOrder, SendingLast, ReceivedFirst, Earlier, ReceivingInv
  <1>6. ChainInv' /\ ReplyInv'
    BY <1>1, <1>2, <1>3 DEF SessionInv, ChainInv, Linked, Preceded, ReplyInv
  <1>7. CleanInv'
    BY <1>1, <1>2, <1>3 DEF SessionInv, CleanInv, OnItsWay
  <1> QED
    BY <1>2, <1>4, <1>5, <1>6, <1>7 DEF SessionInv

LEMMA NextSession == SessionInv /\ [SessionNext]_allVars => SessionInv'
  <1> SUFFICES ASSUME SessionInv, [SessionNext]_allVars PROVE SessionInv'
    OBVIOUS
  <1>1. CASE \E r \in Request : ClientCall(r) \/ ClientCallFails(r)
    BY <1>1, CallKeeps
  <1>2. CASE ClientStep
    BY <1>2, ClientFrameStep, ClientRemoteStep, TimeoutStep DEF ClientStep
  <1>3. CASE \E e \in Ecu : EcuStep(e)
    BY <1>3, EcuStepInv
  <1>4. CASE RemoteFrame
    BY <1>4, RemoteStep
  <1>5. CASE UNCHANGED allVars
    BY <1>5, UnchangedStep
  <1> QED
    BY <1>1, <1>2, <1>3, <1>4, <1>5 DEF SessionNext

LEMMA SpecSession == SessionSpec => []SessionInv
  BY InitSession, NextSession, PTL DEF SessionSpec

-----------------------------------------------------------------------------
(* The calls, the queue and the ECUs keep their types, and within bounds.  *)
THEOREM SessionWellFormed == SessionSpec => []SessionTypeOK
  <1>1. SessionInv => SessionTypeOK
    <2> SUFFICES ASSUME SessionInv PROVE SessionTypeOK
      OBVIOUS
    <2>1. VehicleInv /\ Len(rxq) <= RxCap
      BY DEF SessionInv, QueueInv
    <2>2. asked \in Seq(Request \cup {NotSent})
      <3> PICK S : S = Request \cup {NotSent}
        OBVIOUS
      <3>1. asked \in Seq(Range(asked)) /\ Range(asked) \subseteq S
        BY <2>1 DEF VehicleInv, IsList
      <3> QED BY <3>1
    <2>3. \A e \in Ecu : ecu[e] \in {Idle} \cup [st : {"wait", "send"}, msg : said, k : Nat]
      <3> SUFFICES ASSUME NEW e \in Ecu, ecu[e].st # "idle"
                   PROVE  ecu[e] \in [st : {"wait", "send"}, msg : said, k : Nat]
        BY <2>1 DEF VehicleInv, EcuOk
      <3>1. /\ ecu[e] = [st |-> ecu[e].st, msg |-> ecu[e].msg, k |-> ecu[e].k]
            /\ ecu[e].msg \in said /\ ecu[e].k \in Nat /\ ecu[e].st \in {"wait", "send"}
        BY <2>1, SendingIs DEF VehicleInv, EcuOk, Idle
      <3> QED BY <3>1
    <2>4. \A e \in Ecu : \A i \in DOMAIN inbox[e] : inbox[e][i].kind \in {"REQ", "FC"}
      <3>1. \A e, x : IsEntry(e, x) => x.kind \in {"REQ", "FC"}
        BY DEF IsEntry
      <3> QED BY <2>1, <3>1 DEF VehicleInv, InboxOk
    <2> QED
      BY <2>1, <2>2, <2>3, <2>4 DEF VehicleInv, SessionTypeOK
  <1> QED
    BY <1>1, SpecSession, PTL

(* Without a frame lost to a full queue, every reply is one ECU's answer   *)
(* from its first byte to its last.                                        *)
THEOREM RepliesAreWhole == SessionSpec => []WholeMessage
  <1>1. SessionInv => WholeMessage
    BY DEF SessionInv, ReplyInv, WholeMessage
  <1> QED
    BY <1>1, SpecSession, PTL

(* While every earlier call got a reply and one ECU answers each request,  *)
(* a reply answers the call it is returned from.                           *)
THEOREM CallsStayInStep == SessionSpec => []InStep
  <1>1. SessionInv => InStep
    <2> SUFFICES ASSUME SessionInv, result.code = "OK", clean, ~lost
                 PROVE  \A i \in DOMAIN result.chunk : result.chunk[i].msg.call = calls
      BY DEF InStep
    <2> PICK m : m = result.chunk[1].msg
      OBVIOUS
    <2>1. m.call = calls /\ result.chunk = WholeOf(m)
      BY DEF SessionInv, ReplyInv, CleanInv
    <2>2. ASSUME NEW i \in DOMAIN result.chunk PROVE result.chunk[i].msg = m
      <3>1. result.chunk = [k \in 1 .. ChunkCount(m.len) |-> Chunk(m, k)]
        BY <2>1 DEF WholeOf
      <3>2. result.chunk[i] = Chunk(m, i)
        BY <2>2, <3>1
      <3> QED BY <3>2 DEF Chunk
    <2> QED
      BY <2>1, <2>2
  <1> QED
    BY <1>1, SpecSession, PTL

(* A session is a run of tp_transact: what is proved of the receive loop   *)
(* on an arbitrary bus holds in every session.                             *)
THEOREM SessionRunsTransact == SessionSpec => Spec
  <1>1. SessionInit => Init
    BY DEF SessionInit
  <1>2. SessionInv /\ [SessionNext]_allVars => [Next]_vars
    <2> SUFFICES ASSUME SessionInv, [SessionNext]_allVars PROVE [Next]_vars
      OBVIOUS
    <2>1. CASE \E r \in Request : ClientCall(r) \/ ClientCallFails(r)
      BY <2>1 DEF ClientCall, ClientCallFails, Next
    <2>2. CASE ClientFrame
      BY <2>2, HeadIs DEF ClientFrame, Next
    <2>3. CASE ClientRemote \/ ClientTimeout
      BY <2>3 DEF ClientRemote, ClientTimeout, Next
    <2>4. CASE (\E e \in Ecu : EcuStep(e)) \/ RemoteFrame \/ UNCHANGED allVars
      BY <2>4 DEF EcuStep, EcuSilent, EcuAnswer, EcuReleased, EcuGivesUp, EcuSendNext,
                  EcuUnchanged, RemoteFrame, allVars
    <2> QED
      BY <2>1, <2>2, <2>3, <2>4 DEF SessionNext, ClientStep
  <1> QED
    BY <1>1, <1>2, SpecSession, PTL DEF SessionSpec, Spec

-----------------------------------------------------------------------------
(* How the service sees a step.  An answer is told by its first chunk.     *)
LEMMA WholeIs ==
    ASSUME NEW m, IsMessage(m)
    PROVE  WholeOf(m) # << >> /\ WholeOf(m)[1].msg = m
  <1> PICK n : n = ChunkCount(m.len) /\ n \in Nat /\ n >= 1
    BY LenIs
  <1>1. WholeOf(m) = [k \in 1 .. n |-> Chunk(m, k)] /\ 1 \in 1 .. n
    BY DEF WholeOf
  <1>2. DOMAIN WholeOf(m) = 1 .. n /\ WholeOf(m)[1] = Chunk(m, 1)
    BY <1>1
  <1>3. WholeOf(m) # << >>
    BY <1>1, <1>2
  <1> QED
    BY <1>2, <1>3 DEF Chunk

LEMMA WholeSaid ==
    ASSUME SessionInv, NEW m \in said
    PROVE  WholeOf(m) # << >> /\ WholeOf(m)[1].msg = m
  BY WholeIs DEF SessionInv, VehicleInv

LEMMA ServiceStays ==
    ASSUME UNCHANGED << asked, pc, said, taken, lost, result >>
    PROVE  UNCHANGED Service!serviceVars
  <1>1. WholeAnswers' = WholeAnswers
    BY DEF WholeAnswers
  <1> QED
    BY <1>1 DEF Service!serviceVars

LEMMA ServiceStarts == SessionInit => Service!ServiceInit
  <1> SUFFICES ASSUME SessionInit PROVE Service!ServiceInit
    OBVIOUS
  <1>1. WholeAnswers = {} /\ result.code = "NONE" /\ (pc = "recv") = FALSE
    BY DEF SessionInit, Init, WholeAnswers, None, Error
  <1> QED
    BY <1>1 DEF SessionInit, Service!ServiceInit, Service!Error

(* A call ends with an error.                                              *)
LEMMA EndsBadly ==
    ASSUME SessionInv, NEW code \in {"TIMEOUT", "PROTOCOL"}, pc = "recv", Finish(Error(code)),
           UNCHANGED << asked, said, lost, taken >>
    PROVE  Service!Ends(Service!Error(code)) /\ UNCHANGED taken
  <1>1. result'.code = code /\ result'.chunk = << >> /\ code # "OK" /\ (pc' = "recv") = FALSE
    BY DEF Finish, Error
  <1>2. WholeAnswers' = {}
    BY <1>1, WholeSaid DEF WholeAnswers
  <1> QED
    BY <1>1, <1>2 DEF Service!Ends, Service!Error

LEMMA Refused ==
    ASSUME SessionInv, pc = "recv", Finish(Error("PROTOCOL")),
           UNCHANGED << asked, said, lost, taken >>,
           lost \/ \E m \in said \ taken : m.call < calls
    PROVE  Service!Refuse
  BY EndsBadly DEF Service!Refuse, Service!Pending, Service!Current, calls

(* A call ends with the frames of message m, or of m and others.           *)
LEMMA EndsWell ==
    ASSUME SessionInv, NEW m \in said \ taken, pc = "recv", pc' = "idle",
           result'.code = "OK", result'.chunk[1].msg = m, UNCHANGED << asked, said, lost >>,
           taken' = taken \cup {m}, lost \/ result'.chunk = WholeOf(m)
    PROVE  \/ \E a \in SessionAnswers : Service!Return(a)
           \/ Service!Garble
  <1>1. m \in SessionAnswers
    <2>1. IsMessage(m)
      BY DEF SessionInv, VehicleInv
    <2>2. m.call \in 1 .. MaxCalls
      BY <2>1, CallsIs, SessionAssumption DEF SessionInv, VehicleInv, IsMessage
    <2> QED BY <2>1, <2>2 DEF IsMessage, SessionAnswers
  <1>2. WholeAnswers' \subseteq {m} /\ (pc' = "recv") = FALSE
    BY WholeSaid DEF WholeAnswers
  <1>3. CASE WholeAnswers' = {m}
    BY <1>1, <1>2, <1>3
       DEF Service!Return, Service!Pending, Service!Ends, Service!Ok
  <1>4. CASE WholeAnswers' = {}
    <2>1. lost
      BY <1>4 DEF WholeAnswers
    <2>2. {m} \in SUBSET (said \ taken) /\ taken' = taken \cup {m}
      OBVIOUS
    <2> QED
      BY <1>2, <1>4, <2>1, <2>2 DEF Service!Garble, Service!Pending, Service!Ends, Service!Error
  <1> QED
    BY <1>2, <1>3, <1>4

(* A frame that finds the queue full is missed.                            *)
LEMMA AnswerServes ==
    ASSUME SessionInv, NEW e \in Ecu, EcuAnswer(e)
    PROVE  Service!ServiceNext
  <1> PICK y : y = Head(inbox[e])
    OBVIOUS
  <1> PICK m : m = Message(e, y.req, y.call)
    OBVIOUS
  <1>1. /\ said' = said \cup {m} /\ UNCHANGED << asked, pc, taken, result >>
        /\ lost' = lost \/ lost' = TRUE
        /\ y.kind = "REQ" /\ AnswerLen[e][y.req] > 0
    BY DEF EcuAnswer, Queue, EcuUnchanged, vars
  <1>2. IsEntry(e, y)
    <2> PICK b : b = inbox[e]
      OBVIOUS
    <2>1. InboxOk(e, b) /\ b # << >>
      BY DEF EcuAnswer, Reading, SessionInv, VehicleInv
    <2>2. InboxLeft(e, b, Head(b), Tail(b))
      BY <2>1, InboxTail, Zenon
    <2> QED BY <2>2 DEF InboxLeft
  <1>3. /\ m.src = e /\ m.req = y.req /\ m.call = y.call /\ m.len = AnswerLen[e][y.req]
        /\ y.call \in 1 .. calls /\ y.req = asked[y.call] /\ y.req \in Request
        /\ \A z \in said : z.src = e => z.call < m.call
    BY <1>1, <1>2 DEF Message, IsEntry
  <1>4. IsMessage(m)
    BY <1>1, <1>3 DEF IsMessage
  <1>5. calls \in Nat /\ DOMAIN asked = 1 .. calls /\ calls <= MaxCalls /\ MaxCalls \in Nat
    BY CallsIs, SessionAssumption DEF SessionInv, VehicleInv
  <1>6. m \in SessionAnswers /\ m \notin said
    <2>1. m.call \in Nat /\ m.call \in 1 .. MaxCalls
      BY <1>3, <1>5
    <2> QED BY <1>3, <2>1 DEF SessionAnswers
  <1>7. WholeAnswers' = WholeAnswers
    <2>1. result.chunk # WholeOf(m)
      BY <1>4, <1>6, WholeIs DEF SessionInv, ReplyInv
    <2> QED BY <1>1, <2>1 DEF WholeAnswers
  <1>8. Service!Fresh(m)
    BY <1>3, <1>5, <1>6 DEF Service!Fresh
  <1>9. CASE lost' = lost
    <2>1. Service!Say(m)
      BY <1>1, <1>7, <1>8, <1>9 DEF Service!Say
    <2> QED BY <1>6, <2>1 DEF Service!ServiceNext
  <1>10. CASE lost' = TRUE
    <2>1. Service!Miss
      BY <1>1, <1>6, <1>7, <1>8, <1>10 DEF Service!Miss
    <2> QED BY <2>1 DEF Service!ServiceNext
  <1> QED
    BY <1>1, <1>9, <1>10

LEMMA FrameMissed ==
    ASSUME UNCHANGED << asked, pc, said, taken, result >>, NEW f, Queue(f)
    PROVE  [Service!ServiceNext]_(Service!serviceVars)
  <1>1. CASE UNCHANGED lost
    BY <1>1, ServiceStays
  <1>2. CASE lost' = TRUE
    <2>1. WholeAnswers' = WholeAnswers
      BY DEF WholeAnswers
    <2>2. Service!Miss
      BY <1>2, <2>1 DEF Service!Miss
    <2> QED BY <2>2 DEF Service!ServiceNext
  <1> QED
    BY <1>1, <1>2 DEF Queue

LEMMA EcuServes ==
    ASSUME SessionInv, NEW e \in Ecu, EcuStep(e)
    PROVE  [Service!ServiceNext]_(Service!serviceVars)
  <1>1. CASE EcuSilent(e) \/ EcuReleased(e) \/ EcuGivesUp(e)
    <2>1. UNCHANGED << asked, pc, said, taken, lost, result >>
      BY <1>1 DEF EcuSilent, EcuReleased, EcuGivesUp, EcuUnchanged, vars, busVars
    <2> QED BY <2>1, ServiceStays
  <1>2. CASE EcuAnswer(e)
    BY <1>2, AnswerServes
  <1>3. CASE EcuSendNext(e)
    <2>1. UNCHANGED << asked, pc, said, taken, result >>
      BY <1>3 DEF EcuSendNext, EcuUnchanged, vars
    <2>2. \E f : Queue(f)
      BY <1>3 DEF EcuSendNext
    <2> QED BY <2>1, <2>2, FrameMissed
  <1> QED
    BY <1>1, <1>2, <1>3 DEF EcuStep

LEMMA CallServes ==
    ASSUME SessionInv, Ecu # {}, NEW r \in Request, ClientCall(r) \/ ClientCallFails(r)
    PROVE  Service!ServiceNext
  <1>1. pc = "idle" /\ calls < MaxCalls /\ UNCHANGED << said, taken, lost >> /\ (pc = "recv") = FALSE
    BY DEF ClientCall, ClientCallFails, Call, CallSendFails, busVars, ecuVars
  <1>2. r \in {a.req : a \in SessionAnswers}
    <2> PICK e \in Ecu : TRUE
      OBVIOUS
    <2>1. 1 \in 1 .. MaxCalls
      BY <1>1, CallsIs, SessionAssumption DEF SessionInv
    <2>2. Message(e, r, 1) \in SessionAnswers /\ Message(e, r, 1).req = r
      BY <2>1 DEF SessionAnswers, Message
    <2> QED BY <2>2
  <1>3. CASE ClientCall(r)
    <2>1. /\ result'.code = "NONE" /\ result'.chunk = << >> /\ (pc' = "recv") = TRUE
          /\ asked' = Append(asked, r)
      BY <1>3 DEF ClientCall, Call, None, Error
    <2>2. WholeAnswers' = {}
      BY <1>1, <2>1, WholeSaid DEF WholeAnswers
    <2>3. Service!Ask(r)
      BY <1>1, <2>1, <2>2 DEF Service!Ask, Service!Error
    <2> QED BY <1>2, <2>3 DEF Service!ServiceNext
  <1>4. CASE ClientCallFails(r)
    <2>1. /\ result'.code = "TIMEOUT" /\ result'.chunk = << >> /\ pc' = pc
          /\ asked' = Append(asked, NotSent)
      BY <1>4 DEF ClientCallFails, CallSendFails, Error
    <2>2. WholeAnswers' = {}
      BY <1>1, <2>1, WholeSaid DEF WholeAnswers
    <2>3. Service!AskFails
      BY <1>1, <2>1, <2>2 DEF Service!AskFails, Service!Error
    <2> QED BY <2>3 DEF Service!ServiceNext
  <1> QED
    BY <1>3, <1>4

(* The frame at the head of the queue, seen from the service.              *)
LEMMA SingleServes ==
    ASSUME SessionInv, ClientFrame, OnSingle(Head(rxq))
    PROVE  Service!ServiceNext
  <1> PICK f : f = Head(rxq)
    OBVIOUS
  <1> PICK m, k :
             /\ m \in said /\ IsMessage(m) /\ k \in 1 .. ChunkCount(m.len) /\ k \in Nat
             /\ f = Sent(m, k) /\ f.id = m.src /\ f.data = Chunk(m, k)
             /\ 1 \in Queued(m.src) /\ f = rxq[1] /\ Chunk(m, k).msg = m /\ Chunk(m, k).k = k
    BY HeadIs DEF ClientFrame
  <1>1. /\ k = 1 /\ m.len <= SingleBytes /\ f.n = m.len /\ f.dlc = m.len + 1
        /\ m.len \in Nat /\ m.len <= RespCap
    <2>1. f.pci = "SF"
      BY DEF OnSingle
    <2> QED BY <2>1, SentFields, LenIs
  <1>2. ~(f.n > SingleBytes \/ f.n + 1 > f.dlc \/ f.n > RespCap)
    BY <1>1, TransactAssumption DEF SingleBytes
  <1>3. Finish(Reply(f.id, f.n, << f.data >>)) /\ pc = "recv"
    BY <1>2 DEF OnSingle
  <1>4. result'.code = "OK" /\ result'.chunk = << Chunk(m, 1) >> /\ pc' = "idle"
    BY <1>1, <1>3 DEF Finish, Reply
  <1>5. result'.chunk[1].msg = m /\ result'.chunk = WholeOf(m)
    <2>1. ChunkCount(m.len) = 1
      BY <1>1, LenIs
    <2>2. WholeOf(m) = [i \in 1 .. 1 |-> Chunk(m, i)]
      BY <2>1 DEF WholeOf
    <2>3. [i \in 1 .. 1 |-> Chunk(m, i)] = << Chunk(m, 1) >>
      OBVIOUS
    <2> QED BY <1>1, <1>4, <2>2, <2>3
  <1>6. result = None
    BY <1>3 DEF SessionInv, IInv, TransferInv
  <1>7. taken' = taken \cup {m} /\ UNCHANGED << asked, said, lost >>
    BY <1>4, <1>5, <1>6 DEF ClientFrame, None, Error
  <1>8. m \notin taken
    <2>1. 1 \in DOMAIN rxq /\ rxq[1] # Remote /\ rxq[1].data.k = 1 /\ rxq[1].data.msg = m
      BY <1>1 DEF Queued
    <2> QED BY <2>1 DEF SessionInv, ReceivingInv
  <1> QED
    BY <1>3, <1>4, <1>5, <1>7, <1>8, EndsWell DEF Service!ServiceNext

(* A second first frame is of a later answer of the same ECU.              *)
LEMMA RefuseFirstServes ==
    ASSUME SessionInv, ClientFrame, RefuseFirst(Head(rxq))
    PROVE  Service!ServiceNext
  <1> PICK f : f = Head(rxq)
    OBVIOUS
  <1> PICK m, k :
             /\ m \in said /\ IsMessage(m) /\ k \in 1 .. ChunkCount(m.len) /\ k \in Nat
             /\ m.src \in Ecu /\ f = Sent(m, k) /\ f.id = m.src /\ f.data = Chunk(m, k)
             /\ f \in BusFrame
             /\ 1 \in Queued(m.src) /\ f = rxq[1] /\ Chunk(m, k).msg = m /\ Chunk(m, k).k = k
    BY HeadIs DEF ClientFrame
  <1>1. /\ f.pci = "FF" /\ k = 1 /\ m.len > SingleBytes /\ f.n = m.len
        /\ m.len \in Nat /\ m.len <= RespCap /\ m.len <= TpMaxPayload
    <2>1. f.pci = "FF"
      BY DEF RefuseFirst
    <2> QED BY <2>1, SentFields, LenIs
  <1>2. Acceptable(f)
    <2>1. Announced(f) = f.n
      BY <1>1 DEF Announced, TpMaxPayload, MaxLen
    <2> QED BY <1>1, <2>1 DEF Acceptable
  <1>3. responder # NoResponder /\ pc = "recv" /\ ~Ignored(f) /\ Finish(Error("PROTOCOL"))
    BY <1>2 DEF RefuseFirst
  <1>4. Receiving /\ responder = m.src
    BY <1>3, FrameFacts DEF Receiving
  <1>5. UNCHANGED << asked, said, lost, taken >>
    BY <1>3 DEF ClientFrame, Finish, Error
  <1> PICK n : n = payload[1].msg
    OBVIOUS
  <1>6. 1 \in DOMAIN payload
    <2>1. Transferring
      BY <1>3 DEF SessionInv, IInv, TransferInv
    <2>2. payload \in Seq(Data) /\ used \in Seq(BusFrame)
      BY DEF SessionInv, IInv, TypeOK
    <2>3. Len(used) \in Nat \ {0} /\ Len(payload) = Len(used)
      BY <2>1, <2>2 DEF Transferring
    <2> QED BY <2>2, <2>3
  <1>7. n \in said \ taken /\ payload[1].k = 1
    BY <1>4 DEF SessionInv, ReceivingInv
  <1>8. Earlier(payload[1], f.data)
    BY <1>4, <1>6 DEF SessionInv, OrderInv, ReceivedFirst
  <1>9. n.call < m.call
    BY <1>1, <1>7, <1>8 DEF Earlier
  <1>10. m.call \in 1 .. calls /\ n.call \in 1 .. calls /\ calls \in Nat
    BY <1>7, CallsIs DEF SessionInv, VehicleInv, IsMessage
  <1>11. n.call < calls
    BY <1>9, <1>10
  <1> QED
    BY <1>3, <1>5, <1>7, <1>11, Refused DEF Service!ServiceNext

(* What a consecutive frame brings, counted from either end.               *)
LEMMA BytesLeft ==
    ASSUME NEW l \in Nat, NEW g \in Nat, g < l
    PROVE  Smaller(l - g, 7) \in Nat /\ Smaller(l - g, 7) + 1 = 1 + Smaller(l, g + 7) - g
  <1>1. CASE l - g < 7
    <2>1. Smaller(l - g, 7) = l - g /\ Smaller(l, g + 7) = l
      BY <1>1 DEF Smaller
    <2> QED BY <2>1
  <1>2. CASE ~(l - g < 7)
    <2>1. Smaller(l - g, 7) = 7 /\ Smaller(l, g + 7) = g + 7
      BY <1>2 DEF Smaller
    <2> QED BY <2>1
  <1> QED
    BY <1>1, <1>2

(* While no frame is missed, each consecutive frame is the one expected.   *)
LEMMA RefuseNextServes ==
    ASSUME SessionInv, ClientFrame, RefuseNext(Head(rxq))
    PROVE  Service!ServiceNext
  <1> PICK f, m, n : f = Head(rxq) /\ m = payload[1].msg /\ n = Len(payload)
    OBVIOUS
  <1>1. /\ pc = "recv" /\ f.pci = "CF" /\ ~Ignored(f) /\ Finish(Error("PROTOCOL"))
        /\ ~InOrder(f) \/ Wanted + 1 > f.dlc
    BY DEF RefuseNext
  <1>2. UNCHANGED << asked, said, lost, taken >>
    BY <1>1 DEF ClientFrame, Finish, Error
  <1>3. ASSUME ~lost PROVE FALSE
    <2>1. /\ Receiving /\ n \in Nat \ {0} /\ total = m.len /\ IsMessage(m)
          /\ n + 1 \in 1 .. ChunkCount(m.len) /\ f = Sent(m, n + 1)
      BY <1>1, <1>3, NextHead
    <2> PICK l : l = m.len /\ l \in Nat /\ l > 7
      <3>1. m.len \in Nat /\ (m.len <= SingleBytes => ChunkCount(m.len) = 1)
        BY <2>1, LenIs
      <3> QED BY <2>1, <3>1 DEF SingleBytes
    <2>2. Transferring /\ got \in Nat
      BY <2>1 DEF SessionInv, IInv, TransferInv, Receiving, TypeOK
    <2>3. expectSeq = n /\ got = 6 + 7 * (n - 1) /\ got < l
      BY <2>1, <2>2 DEF Transferring, FirstBytes, NextBytes
    <2> PICK k : k = n + 1 /\ k \in 1 .. ChunkCount(m.len) /\ k > 1 /\ k - 1 = n
      BY <2>1
    <2>4. f.n = (k - 1) % SeqCount /\ f.dlc = 1 + Carried(l, k) - Carried(l, k - 1)
      BY <2>1, SentFields
    <2>5. InOrder(f)
      BY <2>3, <2>4 DEF InOrder
    <2>6. Carried(l, n) = got /\ Carried(l, n + 1) = Smaller(l, got + 7)
      BY <2>1, <2>3 DEF Carried, Smaller, FirstBytes, NextBytes
    <2>7. Wanted = Smaller(l - got, 7)
      BY <2>1 DEF Wanted, NextBytes
    <2> PICK g, d, w : g = got /\ d = f.dlc /\ w = Wanted
      OBVIOUS
    <2>8. d = 1 + Smaller(l, g + 7) - g
      BY <2>4, <2>6
    <2>9. w = Smaller(l - g, 7) /\ g \in Nat
      BY <2>2, <2>7
    <2>10. w \in Nat /\ w + 1 = d
      <3>1. g < l /\ g \in Nat /\ l \in Nat
        BY <2>3, <2>9
      <3> PICK a, b : a = Smaller(l - g, 7) /\ b = 1 + Smaller(l, g + 7) - g
        OBVIOUS
      <3>2. a \in Nat /\ a + 1 = b
        BY <3>1, BytesLeft
      <3>3. w = a /\ d = b
        BY <2>8, <2>9
      <3> QED BY <3>2, <3>3, Zenon
    <2> QED BY <1>1, <2>5, <2>10
  <1> QED
    BY <1>1, <1>2, <1>3, Refused DEF Service!ServiceNext

(* The transfer goes on, or its last frame ends the call.                  *)
LEMMA AcceptNextServes ==
    ASSUME SessionInv, SessionInv', ClientFrame, AcceptNext(Head(rxq))
    PROVE  [Service!ServiceNext]_(Service!serviceVars)
  <1> PICK f, m, n : f = Head(rxq) /\ m = payload[1].msg /\ n = Len(payload)
    OBVIOUS
  <1>1. /\ m \in said \ taken /\ total = m.len /\ pc = "recv" /\ payload'[1].msg = m
        /\ UNCHANGED << asked, said, lost >> /\ result = None
    <2>1. m \in said \ taken /\ total = m.len /\ payload'[1].msg = m /\ pc = "recv"
      BY NextHead, NextIs DEF AcceptNext
    <2> QED
      BY <2>1 DEF ClientFrame, SessionInv, IInv, TransferInv
  <1>2. CASE UNCHANGED << pc, req, result >>
    <2>1. taken' = taken
      BY <1>2 DEF ClientFrame
    <2> QED BY <1>1, <1>2, <2>1, ServiceStays
  <1>3. CASE Finish(Reply(responder, total, payload'))
    <2>1. result'.code = "OK" /\ result'.chunk = payload' /\ pc' = "idle"
      BY <1>3 DEF Finish, Reply
    <2>2. taken' = taken \cup {m}
      BY <1>1, <2>1 DEF ClientFrame, None, Error
    <2>3. lost \/ result'.chunk = WholeOf(m)
      BY <1>1, <2>1 DEF SessionInv, ReplyInv
    <2> QED
      BY <1>1, <2>1, <2>2, <2>3, EndsWell DEF Service!ServiceNext
  <1> QED
    BY <1>2, <1>3 DEF AcceptNext

LEMMA FrameServes ==
    ASSUME SessionInv, SessionInv', ClientFrame
    PROVE  [Service!ServiceNext]_(Service!serviceVars)
  <1> PICK f : f = Head(rxq)
    OBVIOUS
  <1>1. OnFrame(f) /\ UNCHANGED << asked, said, lost >>
    BY DEF ClientFrame
  <1>2. CASE Skip(f) \/ AcceptFirst(f)
    <2>1. UNCHANGED << pc, result >>
      BY <1>2 DEF Skip, AcceptFirst, vars
    <2>2. taken' = taken
      BY <2>1 DEF ClientFrame
    <2> QED BY <1>1, <2>1, <2>2, ServiceStays
  <1>3. CASE FlowControlFails(f)
    <2>1. pc = "recv" /\ Finish(Error("TIMEOUT"))
      BY <1>3 DEF FlowControlFails
    <2>2. taken' = taken
      BY <2>1 DEF ClientFrame, Finish, Error
    <2>3. Service!GiveUp
      BY <1>1, <2>1, <2>2, EndsBadly DEF Service!GiveUp
    <2> QED BY <2>3 DEF Service!ServiceNext
  <1>4. CASE OnSingle(f)
    BY <1>4, SingleServes
  <1>5. CASE RefuseFirst(f)
    BY <1>5, RefuseFirstServes
  <1>6. CASE RefuseNext(f)
    BY <1>6, RefuseNextServes
  <1>7. CASE AcceptNext(f)
    BY <1>7, AcceptNextServes
  <1> QED
    BY <1>1, <1>2, <1>3, <1>4, <1>5, <1>6, <1>7 DEF OnFrame


LEMMA ServiceGoesOn ==
    ASSUME Ecu # {}, SessionInv, SessionInv', [SessionNext]_allVars
    PROVE  [Service!ServiceNext]_(Service!serviceVars)
  <1>1. CASE \E r \in Request : ClientCall(r) \/ ClientCallFails(r)
    BY <1>1, CallServes
  <1>2. CASE ClientFrame
    BY <1>2, FrameServes
  <1>3. CASE ClientRemote \/ ClientTimeout
    <2>1. pc = "recv" /\ Finish(Error("TIMEOUT")) /\ UNCHANGED << asked, said, lost, taken >>
      BY <1>3 DEF ClientRemote, ClientTimeout, Timeout, sessionVars, ecuVars, busVars
    <2>2. Service!GiveUp
      BY <2>1, EndsBadly DEF Service!GiveUp
    <2> QED BY <2>2 DEF Service!ServiceNext
  <1>4. CASE \E e \in Ecu : EcuStep(e)
    BY <1>4, EcuServes
  <1>5. CASE RemoteFrame
    <2>1. UNCHANGED << asked, pc, said, taken, result >> /\ Queue(Remote)
      BY <1>5 DEF RemoteFrame, vars, ecuVars
    <2> QED BY <2>1, FrameMissed
  <1>6. CASE UNCHANGED allVars
    <2>1. UNCHANGED << asked, pc, said, taken, lost, result >>
      BY <1>6 DEF allVars, vars, sessionVars, ecuVars, busVars
    <2> QED BY <2>1, ServiceStays
  <1> QED
    BY <1>1, <1>2, <1>3, <1>4, <1>5, <1>6 DEF SessionNext, ClientStep

(* Frame by frame, a session does what TransactService promises.           *)
THEOREM SessionServes == Ecu # {} => (SessionSpec => ImplementsService)
  <1> SUFFICES ASSUME Ecu # {} PROVE SessionSpec => ImplementsService
    OBVIOUS
  <1>1. SessionInv /\ SessionInv' /\ [SessionNext]_allVars
          => [Service!ServiceNext]_(Service!serviceVars)
    BY ServiceGoesOn
  <1> QED
    BY <1>1, ServiceStarts, SpecSession, PTL DEF SessionSpec, ImplementsService, Service!ServiceSpec
=============================================================================
