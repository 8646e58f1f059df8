-------------------------- MODULE TpTransactProofs --------------------------
(***************************************************************************)
(* Theorems about tp_transact on an arbitrary bus: every property of       *)
(* TpTransact holds for every variant, buffer size, request set and set of *)
(* bus frames.                                                             *)
(***************************************************************************)
EXTENDS TpTransact, SequenceTheorems, TLAPS

(* What the locals hold between two frames of a transfer.                  *)
Transferring ==
    /\ used # << >>
    /\ used[1].pci = "FF" /\ used[1].n = total
    /\ total > SingleBytes /\ total <= TpMaxPayload /\ total <= RespCap
    /\ Len(payload) = Len(used)
    /\ expectSeq = Len(used)
    /\ got = FirstBytes + NextBytes * (Len(used) - 1)
    /\ got < total
    /\ \A i \in 1 .. Len(used) :
         payload[i] = used[i].data /\ used[i].id = responder
    /\ \A i \in 2 .. Len(used) :
         used[i].pci = "CF" /\ used[i].n = (i - 1) % SeqCount

TransferInv ==
    pc = "recv" =>
      /\ result = None
      /\ responder = NoResponder =>
           /\ payload = << >> /\ used = << >>
           /\ sent = << RequestFrame(req) >>
      /\ responder # NoResponder =>
           /\ Transferring
           /\ sent = << RequestFrame(req), FlowControl(responder) >>

IInv ==
    /\ TypeOK
    /\ TransferInv
    /\ BufferBound
    /\ AgreesWithDecoder
    /\ OneSource
    /\ ReadOnlyWire

-----------------------------------------------------------------------------
(* 0, the code's "no responder yet", is no response id of any variant.     *)
LEMMA NoResponderIsNoId ==
    NoResponder \notin RespIds(Variant)
  BY TransactAssumption
     DEF NoResponder, RespIds, RespBase, RespLast, Extended, Variants

(* The transfer is complete exactly with the frame that fills ChunkCount.  *)
LEMMA ChunkCountReached ==
    ASSUME NEW len \in Nat, NEW k \in Nat \ {0}, len > SingleBytes,
           FirstBytes + NextBytes * (k - 1) < len,
           len <= FirstBytes + NextBytes * k
    PROVE  ChunkCount(len) = k + 1
  <1>1. len >= 7 * k /\ len < 7 * (k + 1)
    BY DEF FirstBytes, NextBytes
  <1>2. len \div 7 = k
    BY <1>1
  <1>3. NextCount(len) = len \div 7
    BY DEF NextCount, FirstBytes, NextBytes
  <1> QED
    BY <1>2, <1>3 DEF ChunkCount, SingleBytes

LEMMA ErrorIsResult ==
    \A code \in Codes : Error(code) \in Results
  BY DEF Codes, Error, Results

LEMMA AppendToOne ==
    ASSUME NEW a, NEW b
    PROVE  Append(<< a >>, b) = << a, b >>
  <1> DEFINE s == Append(<< a >>, b)
             t == << a, b >>
  <1>1. s \in Seq({a, b}) /\ Len(s) = 2 /\ s[1] = a /\ s[2] = b
    OBVIOUS
  <1>2. t \in Seq({a, b}) /\ Len(t) = 2 /\ t[1] = a /\ t[2] = b
    OBVIOUS
  <1> HIDE DEF s, t
  <1>3. \A i \in 1 .. Len(s) : s[i] = t[i]
    BY <1>1, <1>2
  <1>4. Len(s) = Len(t)
    BY <1>1, <1>2
  <1>5. s = t
    BY <1>1, <1>2, <1>3, <1>4, SeqEqual, Zenon
  <1> QED
    BY <1>5 DEF s, t

(* Whatever fits payload[] fits the decoder's frame table.                 *)
LEMMA ChunkCountFits ==
    ASSUME NEW len \in Nat, len <= TpMaxPayload
    PROVE  ChunkCount(len) \in Nat /\ ChunkCount(len) <= MaxFrames
  <1>1. ChunkCount(TpMaxPayload) = 37
    BY DEF ChunkCount, NextCount, TpMaxPayload, SingleBytes, FirstBytes, NextBytes
  <1>2. len > 7 => len \div 7 <= 36 /\ len \div 7 \in Nat
    BY DEF TpMaxPayload
  <1>3. len > 7 => NextCount(len) = len \div 7
    BY DEF NextCount, FirstBytes, NextBytes
  <1>4. ChunkCount(len) \in Nat /\ ChunkCount(len) <= 37
    BY <1>2, <1>3 DEF ChunkCount, SingleBytes
  <1> QED
    BY <1>1, <1>4, IsoTpAssumption, TransactAssumption

(* What a frame the loop does not step over tells.                         *)
LEMMA FrameFacts ==
    ASSUME NEW f \in BusFrame, ~Ignored(f)
    PROVE  /\ f.id \in RespIds(Variant) /\ f.id # NoResponder
           /\ f.n \in Nat /\ f.dlc \in Nat /\ f.data \in Data
           /\ responder # NoResponder => f.id = responder
           /\ f.pci = "CF" => responder # NoResponder
  <1>1. f \in Frame
    BY TransactAssumption
  <1>2. f.n \in Nat /\ f.dlc \in Nat /\ f.data \in Data
    BY <1>1 DEF Frame
  <1>3. f.id \in RespIds(Variant)
    BY DEF Ignored
  <1> QED
    BY <1>2, <1>3, NoResponderIsNoId DEF Ignored

(* An acceptable first frame announces a length both buffers hold.         *)
LEMMA AcceptableLength ==
    ASSUME NEW f, f.n \in Nat, Acceptable(f)
    PROVE  /\ Announced(f) = f.n /\ f.n \in 0 .. MaxLen
           /\ f.n > SingleBytes /\ f.n <= TpMaxPayload /\ f.n <= RespCap
  <1>1. Announced(f) = f.n /\ f.n > SingleBytes /\ f.n <= MaxLen
    BY DEF Acceptable, Announced
  <1>2. \A n \in Nat : n <= MaxLen => n \in 0 .. MaxLen
    BY DEF MaxLen
  <1> QED
    BY <1>1, <1>2 DEF Acceptable

-----------------------------------------------------------------------------
LEMMA InitIInv == Init => IInv
  <1> SUFFICES ASSUME Init PROVE IInv
    OBVIOUS
  <1>1. TypeOK
    <2>1. result \in Results
      BY ErrorIsResult DEF Init, None, Codes
    <2> QED
      BY <2>1 DEF Init, TypeOK, MaxLen
  <1>2. TransferInv /\ BufferBound /\ AgreesWithDecoder /\ OneSource /\ ReadOnlyWire
    BY DEF Init, TransferInv, BufferBound, AgreesWithDecoder, OneSource,
           ReadOnlyWire, None, Error
  <1> QED
    BY <1>1, <1>2 DEF IInv

(* A call, or a call whose request could not be sent, starts afresh.       *)
LEMMA CallStep ==
    ASSUME IInv, NEW r \in Request, Call(r) \/ CallSendFails(r)
    PROVE  IInv'
  <1> USE DEF Call, CallSendFails, ResetLocals
  <1>1. TypeOK'
    <2>1. RequestFrame(r) \in TxFrame
      BY DEF TxFrame
    <2>2. sent' \in Seq(TxFrame)
      <3>1. CASE Call(r)
        BY <2>1, <3>1
      <3>2. CASE CallSendFails(r)
        BY <3>2
      <3> QED
        BY <3>1, <3>2
    <2>3. result' \in Results
      BY ErrorIsResult DEF None, Codes
    <2>4. /\ pc' \in {"idle", "recv"} /\ req' \in Request
          /\ responder' = NoResponder /\ total' = 0 /\ got' = 0
          /\ expectSeq' = 1 /\ payload' = << >> /\ used' = << >>
      BY DEF IInv, TypeOK
    <2> QED
      BY <2>2, <2>3, <2>4 DEF TypeOK, MaxLen
  <1>2. TransferInv'
    BY DEF IInv, TypeOK, TransferInv, RequestFrame, NoResponder
  <1>3. BufferBound' /\ AgreesWithDecoder' /\ OneSource'
    BY DEF BufferBound, AgreesWithDecoder, OneSource, None, Error
  <1>4. ReadOnlyWire'
    BY DEF ReadOnlyWire, RequestFrame
  <1> QED
    BY <1>1, <1>2, <1>3, <1>4 DEF IInv

(* The call ends with an error: what was received stays where it is.       *)
LEMMA ErrorStep ==
    ASSUME IInv, NEW code \in {"TIMEOUT", "PROTOCOL"}, Finish(Error(code)),
           UNCHANGED << got, expectSeq, payload, sent, used >>,
           \/ UNCHANGED total
           \/ total' \in 0 .. MaxLen /\ payload = << >>,
           \/ UNCHANGED responder
           \/ responder' \in RespIds(Variant) /\ ReadOnlyWire'
    PROVE  IInv'
  <1> USE DEF Finish
  <1>1. TypeOK'
    <2>1. result' \in Results
      BY ErrorIsResult DEF Codes
    <2>2. responder' \in RespIds(Variant) \cup {NoResponder}
      BY DEF IInv, TypeOK
    <2>3. total' \in 0 .. MaxLen
      BY DEF IInv, TypeOK
    <2> QED
      BY <2>1, <2>2, <2>3 DEF IInv, TypeOK
  <1>2. TransferInv'
    BY DEF TransferInv
  <1>3. BufferBound' /\ AgreesWithDecoder' /\ OneSource'
    BY DEF IInv, BufferBound, AgreesWithDecoder, OneSource, Error
  <1>4. ReadOnlyWire'
    BY DEF IInv, ReadOnlyWire, RequestFrame, FlowControl
  <1> QED
    BY <1>1, <1>2, <1>3, <1>4 DEF IInv

LEMMA SingleStep ==
    ASSUME IInv, NEW f \in BusFrame, OnSingle(f)
    PROVE  IInv'
  <1>0. /\ f.id \in RespIds(Variant) /\ f.id # NoResponder
        /\ f.n \in Nat /\ f.dlc \in Nat /\ f.data \in Data /\ pc = "recv"
    BY FrameFacts DEF OnSingle
  <1>1. CASE Finish(Error("PROTOCOL")) /\ UNCHANGED used
    BY <1>1, ErrorStep DEF OnSingle, locals
  <1>2. CASE /\ ~(f.n > SingleBytes \/ f.n + 1 > f.dlc \/ f.n > RespCap)
             /\ Finish(Reply(f.id, f.n, << f.data >>)) /\ used' = << f >>
    <2> USE <1>2 DEF OnSingle, locals, Finish, Reply
    <2>1. TypeOK'
      <3>1. result' \in Results
        BY <1>0 DEF Results, Codes
      <3>2. used' \in Seq(BusFrame)
        OBVIOUS
      <3> QED
        BY <3>1, <3>2 DEF IInv, TypeOK
    <2>2. TransferInv'
      BY DEF TransferInv
    <2>3. BufferBound'
      BY <1>0, TransactAssumption DEF IInv, BufferBound, Carried, Smaller
    <2>4. AgreesWithDecoder'
      <3>1. MaxFrames >= 1 /\ MaxFrames \in Nat
        BY IsoTpAssumption
      <3>2. Decode(<< f >>, RespCap) = [len |-> f.n, chunk |-> << f.data >>]
        BY <1>0, <3>1, TransactAssumption DEF Decode, SingleBytes
      <3> QED
        BY <3>2 DEF AgreesWithDecoder
    <2>5. OneSource'
      BY <1>0 DEF OneSource, Ignored
    <2>6. ReadOnlyWire'
      BY DEF IInv, ReadOnlyWire, RequestFrame, FlowControl
    <2> QED
      BY <2>1, <2>2, <2>3, <2>4, <2>5, <2>6 DEF IInv
  <1> QED
    BY <1>1, <1>2 DEF OnSingle

LEMMA RefuseFirstStep ==
    ASSUME IInv, NEW f \in BusFrame, RefuseFirst(f)
    PROVE  IInv'
  <1>1. /\ ~Ignored(f) /\ pc = "recv"
        /\ responder # NoResponder => responder' = responder
        /\ responder = NoResponder => responder' = f.id
    BY DEF RefuseFirst
  <1>2. responder' \in RespIds(Variant)
    BY <1>1, FrameFacts DEF IInv, TypeOK
  <1>3. responder # NoResponder => responder' = responder
    BY <1>1
  <1>4. ReadOnlyWire'
    <2>1. CASE responder = NoResponder
      BY <1>1, <2>1 DEF IInv, TransferInv, RefuseFirst, Finish, ReadOnlyWire, RequestFrame
    <2>2. CASE responder # NoResponder
      BY <1>3, <2>2 DEF IInv, RefuseFirst, Finish, ReadOnlyWire,
                        RequestFrame, FlowControl
    <2> QED
      BY <2>1, <2>2
  <1> QED
    BY <1>2, <1>4, ErrorStep DEF RefuseFirst

LEMMA FlowControlFailsStep ==
    ASSUME IInv, NEW f \in BusFrame, FlowControlFails(f)
    PROVE  IInv'
  <1>1. ~Ignored(f) /\ pc = "recv" /\ responder' = f.id /\ responder = NoResponder
    BY DEF FlowControlFails
  <1>2. responder' \in RespIds(Variant)
    BY <1>1, FrameFacts
  <1>3. payload = << >> /\ sent = << RequestFrame(req) >>
    BY <1>1 DEF IInv, TransferInv
  <1>4. total' \in 0 .. MaxLen
    BY <1>1, FrameFacts, AcceptableLength DEF FlowControlFails
  <1>5. ReadOnlyWire'
    BY <1>3 DEF FlowControlFails, Finish, ReadOnlyWire, RequestFrame
  <1> QED
    BY <1>2, <1>3, <1>4, <1>5, ErrorStep DEF FlowControlFails

LEMMA AcceptFirstStep ==
    ASSUME IInv, NEW f \in BusFrame, AcceptFirst(f)
    PROVE  IInv'
  <1>1. /\ pc = "recv" /\ responder = NoResponder /\ f.pci = "FF"
        /\ result = None /\ sent = << RequestFrame(req) >>
    BY DEF AcceptFirst, IInv, TransferInv
  <1>2. /\ f.id \in RespIds(Variant) /\ f.id # NoResponder
        /\ f.n \in Nat /\ f.data \in Data
    BY FrameFacts DEF AcceptFirst
  <1>3. /\ total' = f.n /\ f.n \in 0 .. MaxLen /\ f.n > SingleBytes
        /\ f.n <= TpMaxPayload /\ f.n <= RespCap
    BY <1>2, AcceptableLength DEF AcceptFirst
  <1>4. got' = 6
    BY <1>2, <1>3 DEF AcceptFirst, Smaller, FirstBytes, SingleBytes
  <1>5. /\ responder' = f.id /\ expectSeq' = 1
        /\ payload' = << f.data >> /\ used' = << f >>
        /\ sent' = << RequestFrame(req), FlowControl(responder') >>
        /\ UNCHANGED << pc, req, result >>
    BY <1>1, AppendToOne DEF AcceptFirst
  <1>6. TypeOK'
    <2>1. FlowControl(f.id) \in TxFrame
      BY <1>2 DEF TxFrame
    <2>2. sent' \in Seq(TxFrame)
      BY <2>1 DEF IInv, TypeOK, AcceptFirst
    <2>3. payload' \in Seq(Data) /\ used' \in Seq(BusFrame)
      BY <1>2, <1>5
    <2> QED
      BY <1>2, <1>3, <1>4, <1>5, <2>2, <2>3 DEF IInv, TypeOK
  <1>7. TransferInv'
    <2>1. Transferring'
      BY <1>1, <1>2, <1>3, <1>4, <1>5
         DEF Transferring, SingleBytes, FirstBytes, NextBytes
    <2> QED
      BY <1>1, <1>2, <1>5, <2>1 DEF TransferInv, None
  <1>8. BufferBound'
    BY <1>1, <1>2, <1>3, <1>4, <1>5
       DEF BufferBound, Carried, Smaller, SingleBytes, FirstBytes, NextBytes,
           None, Error
  <1>9. AgreesWithDecoder' /\ OneSource'
    BY <1>1, <1>5 DEF AgreesWithDecoder, OneSource, None, Error
  <1>10. ReadOnlyWire'
    BY <1>2, <1>5 DEF ReadOnlyWire
  <1> QED
    BY <1>6, <1>7, <1>8, <1>9, <1>10 DEF IInv

(* One more consecutive frame: either bytes are still missing, or the      *)
(* reply is complete and the decoder makes the same of the frames used.    *)
LEMMA AcceptNextStep ==
    ASSUME IInv, NEW f \in BusFrame, AcceptNext(f)
    PROVE  IInv'
  <1> DEFINE k == Len(used)
  <1>1. /\ pc = "recv" /\ f.pci = "CF" /\ f.n = expectSeq % SeqCount
        /\ f.id = responder /\ responder # NoResponder
        /\ responder \in RespIds(Variant) /\ f.data \in Data
    BY FrameFacts DEF AcceptNext, InOrder
  <1>2. /\ Transferring /\ result = None
        /\ sent = << RequestFrame(req), FlowControl(responder) >>
    BY <1>1 DEF IInv, TransferInv
  <1>3. /\ total \in Nat /\ got \in Nat /\ expectSeq \in Nat
        /\ payload \in Seq(Data) /\ used \in Seq(BusFrame)
        /\ k \in Nat \ {0} /\ Len(payload) = k
    BY <1>2 DEF IInv, TypeOK, MaxLen, Transferring
  <1>4. /\ payload' = Append(payload, f.data) /\ used' = Append(used, f)
        /\ expectSeq' = k + 1 /\ got' = got + Wanted
        /\ UNCHANGED << responder, total, sent, req >>
    BY <1>2 DEF AcceptNext, Transferring, Finish
  <1>5. /\ payload' \in Seq(Data) /\ used' \in Seq(BusFrame)
        /\ Len(payload') = k + 1 /\ Len(used') = k + 1
    BY <1>1, <1>3, <1>4
  <1>6. /\ used'[1] = used[1]
        /\ \A i \in 1 .. k + 1 :
             payload'[i] = used'[i].data /\ used'[i].id = responder
    BY <1>1, <1>2, <1>3, <1>4 DEF Transferring
  <1>7. \A i \in 2 .. k + 1 : used'[i].pci = "CF" /\ used'[i].n = (i - 1) % SeqCount
    <2>1. used'[k + 1] = f /\ f.n = k % SeqCount
      BY <1>1, <1>2, <1>3, <1>4 DEF Transferring
    <2>2. \A i \in 2 .. k : used'[i] = used[i]
      BY <1>3, <1>4
    <2>3. \A i \in 2 .. k + 1 : i \in 2 .. k \/ i = k + 1
      BY <1>3
    <2> HIDE DEF k
    <2>4. \A i \in 2 .. k : used[i].pci = "CF" /\ used[i].n = (i - 1) % SeqCount
      BY <1>2 DEF Transferring, k
    <2>5. ASSUME NEW i \in 2 .. k + 1
          PROVE  used'[i].pci = "CF" /\ used'[i].n = (i - 1) % SeqCount
      <3>1. CASE i \in 2 .. k
        BY <2>2, <2>4, <3>1
      <3>2. CASE i = k + 1
        <4>1. i - 1 = k
          BY <1>3, <3>2
        <4> QED
          BY <1>1, <2>1, <3>2, <4>1, Zenon
      <3> QED
        BY <2>3, <3>1, <3>2
    <2> QED
      BY <2>5
  <1>8. /\ got = 6 + 7 * (k - 1) /\ got < total /\ total > 7
        /\ total <= TpMaxPayload /\ total <= RespCap
        /\ used[1].pci = "FF" /\ used[1].n = total
    BY <1>2 DEF Transferring, SingleBytes, FirstBytes, NextBytes
  <1>9. CASE total - got <= 7
    <2>1. Wanted = total - got
      BY <1>3, <1>9 DEF Wanted, Smaller, NextBytes
    <2>2. got' = total
      BY <1>3, <1>4, <2>1
    <2>3. pc' = "idle" /\ result' = Reply(responder, total, payload')
      BY <1>3, <1>4, <2>2 DEF AcceptNext, Finish
    <2>4. ChunkCount(total) = k + 1
      BY <1>3, <1>8, <1>9, ChunkCountReached DEF SingleBytes, FirstBytes, NextBytes
    <2>5. k + 1 <= MaxFrames
      BY <1>3, <1>8, <2>4, ChunkCountFits
    <2>6. TypeOK'
      <3>1. result' \in Results
        BY <1>1, <1>3, <1>5, <2>3 DEF Reply, Results, Codes
      <3> QED
        BY <1>3, <1>4, <1>5, <2>2, <2>3, <3>1 DEF IInv, TypeOK
    <2>7. TransferInv'
      BY <2>3 DEF TransferInv
    <2>8. BufferBound'
      <3>1. total = Carried(total, k + 1)
        BY <1>3, <1>8, <1>9 DEF Carried, Smaller, FirstBytes, NextBytes
      <3> QED
        BY <1>3, <1>4, <1>5, <1>8, <2>2, <2>3, <3>1 DEF BufferBound, Reply
    <2>9. AgreesWithDecoder'
      <3>1. InSequence(used', total)
        BY <1>7, <2>4 DEF InSequence
      <3>2. payload' = [i \in 1 .. k + 1 |-> used'[i].data]
        BY <1>3, <1>5, <1>6
      <3>3. Decode(used', RespCap)
              = [len |-> total, chunk |-> [i \in 1 .. k + 1 |-> used'[i].data]]
        <4>1. used' # << >> /\ ~(Len(used') > MaxFrames)
          BY <1>3, <1>5, <2>5, IsoTpAssumption
        <4>2. used'[1].pci = "FF" /\ used'[1].n = total
          BY <1>6, <1>8
        <4>3. total > SingleBytes /\ Len(used') >= ChunkCount(total)
          BY <1>3, <1>5, <1>8, <2>4 DEF SingleBytes
        <4> QED
          BY <1>8, <2>4, <3>1, <4>1, <4>2, <4>3 DEF Decode
      <3> QED
        BY <2>3, <3>2, <3>3 DEF AgreesWithDecoder, Reply
    <2>10. OneSource'
      BY <1>1, <1>3, <1>4, <1>5, <1>6, <2>3 DEF OneSource, Reply
    <2>11. ReadOnlyWire'
      BY <1>1, <1>2, <1>3, <1>4, <1>5 DEF ReadOnlyWire, RequestFrame, FlowControl
    <2> QED
      BY <2>6, <2>7, <2>8, <2>9, <2>10, <2>11 DEF IInv
  <1>10. CASE ~(total - got <= 7)
    <2>1. Wanted = 7
      BY <1>3, <1>10 DEF Wanted, Smaller, NextBytes
    <2>2. got' = 6 + 7 * k /\ got' < total /\ got' \in Nat
      BY <1>3, <1>4, <1>8, <1>10, <2>1
    <2>3. UNCHANGED << pc, req, result >>
      BY <1>3, <1>4, <2>2 DEF AcceptNext
    <2>4. TypeOK'
      BY <1>3, <1>4, <1>5, <2>2, <2>3 DEF IInv, TypeOK
    <2>5. Transferring'
      <3>1. used' # << >>
        BY <1>3, <1>5
      <3> QED
        BY <1>3, <1>4, <1>5, <1>6, <1>7, <1>8, <2>2, <3>1
           DEF Transferring, SingleBytes, FirstBytes, NextBytes
    <2>6. TransferInv'
      BY <1>1, <1>2, <1>4, <2>3, <2>5
         DEF TransferInv, RequestFrame, FlowControl, None, Error
    <2>7. BufferBound'
      BY <1>2, <1>3, <1>4, <1>5, <1>8, <2>2, <2>3
         DEF BufferBound, Carried, Smaller, FirstBytes, NextBytes, None, Error
    <2>8. AgreesWithDecoder' /\ OneSource'
      BY <1>2, <2>3 DEF AgreesWithDecoder, OneSource, None, Error
    <2>9. ReadOnlyWire'
      BY <1>1, <1>2, <1>3, <1>4, <1>5 DEF ReadOnlyWire, RequestFrame, FlowControl
    <2> QED
      BY <2>4, <2>6, <2>7, <2>8, <2>9 DEF IInv
  <1> QED
    BY <1>9, <1>10

-----------------------------------------------------------------------------
LEMMA FrameStep ==
    ASSUME IInv, NEW f \in BusFrame, OnFrame(f)
    PROVE  IInv'
  <1>1. CASE Skip(f)
    BY <1>1 DEF Skip, vars, locals, IInv, TypeOK, TransferInv, Transferring,
               BufferBound, AgreesWithDecoder, OneSource, ReadOnlyWire, Wanted
  <1>2. CASE OnSingle(f)
    BY <1>2, SingleStep
  <1>3. CASE RefuseFirst(f)
    BY <1>3, RefuseFirstStep
  <1>4. CASE AcceptFirst(f)
    BY <1>4, AcceptFirstStep
  <1>5. CASE FlowControlFails(f)
    BY <1>5, FlowControlFailsStep
  <1>6. CASE RefuseNext(f)
    BY <1>6, ErrorStep DEF RefuseNext, locals
  <1>7. CASE AcceptNext(f)
    BY <1>7, AcceptNextStep
  <1> QED
    BY <1>1, <1>2, <1>3, <1>4, <1>5, <1>6, <1>7 DEF OnFrame

LEMMA NextIInv == IInv /\ [Next]_vars => IInv'
  <1> SUFFICES ASSUME IInv, [Next]_vars PROVE IInv'
    OBVIOUS
  <1>1. CASE \E r \in Request : Call(r) \/ CallSendFails(r)
    BY <1>1, CallStep
  <1>2. CASE \E f \in BusFrame : OnFrame(f)
    BY <1>2, FrameStep
  <1>3. CASE Timeout
    BY <1>3, ErrorStep DEF Timeout, locals
  <1>4. CASE UNCHANGED vars
    BY <1>4 DEF vars, locals, IInv, TypeOK, TransferInv, Transferring,
               BufferBound, AgreesWithDecoder, OneSource, ReadOnlyWire
  <1> QED
    BY <1>1, <1>2, <1>3, <1>4 DEF Next

LEMMA SpecIInv == Spec => []IInv
  BY InitIInv, NextIInv, PTL DEF Spec

-----------------------------------------------------------------------------
(* The C locals, the frames on the wire and the result keep their types.   *)
THEOREM TransactTypeCorrect == Spec => []TypeOK
  <1>1. IInv => TypeOK
    BY DEF IInv
  <1> QED
    BY <1>1, SpecIInv, PTL

(* No memcpy of tp_transact leaves payload[256] or the caller's buffer,    *)
(* for any resp_cap and any frames the bus may deliver.                    *)
THEOREM NoOverflow == Spec => []BufferBound
  <1>1. IInv => BufferBound
    BY DEF IInv
  <1> QED
    BY <1>1, SpecIInv, PTL

(* Every reply is what isotp_decode makes of the frames it was taken from. *)
THEOREM ReplyIsDecoding == Spec => []AgreesWithDecoder
  <1>1. IInv => AgreesWithDecoder
    BY DEF IInv
  <1> QED
    BY <1>1, SpecIInv, PTL

(* Every byte of a reply comes from one ECU, the one acknowledged.         *)
THEOREM FirstResponderWins == Spec => []OneSource
  <1>1. IInv => OneSource
    BY DEF IInv
  <1> QED
    BY <1>1, SpecIInv, PTL

(* A call puts its request and at most one flow control on the wire.       *)
THEOREM WireAudit == Spec => []ReadOnlyWire
  <1>1. IInv => ReadOnlyWire
    BY DEF IInv
  <1> QED
    BY <1>1, SpecIInv, PTL
=============================================================================
