----------------------------- MODULE TpTransact -----------------------------
(***************************************************************************)
(* tp_transact in firmware/esp32/src/obd_client.c: one request on the      *)
(* functional id, then frames off the bus until one responder's reply is   *)
(* complete, the transfer is given up, or recv reports a timeout.          *)
(*                                                                         *)
(* The bus is arbitrary here: recv may hand over any frame of BusFrame at  *)
(* any time, or time out.  A frame's bytes past its dlc are whatever the   *)
(* receive buffer held before; only a first frame is used without its dlc  *)
(* being checked, and BusFrame then stands for what is read.  Composition  *)
(* with a receive queue and ECUs is CanSession.                            *)
(***************************************************************************)
EXTENDS IsoTp, CanIds

CONSTANTS
    Variant,    (* the negotiated CAN variant, fixed after open *)
    Request,    (* request payloads; all of them fit a single frame *)
    RespCap,    (* resp_cap, the caller's buffer size *)
    BusFrame    (* the frames recv can deliver *)

TpMaxPayload == 256     \* TP_MAX_PAYLOAD

Frame == [id : Nat, extd : BOOLEAN, dlc : Nat,
          pci : {"SF", "FF", "CF", "OTHER"}, n : Nat, data : Data]

ASSUME TransactAssumption ==
    /\ Variant \in Variants
    /\ RespCap \in Nat \ {0}
    /\ BusFrame \subseteq Frame
    /\ ChunkCount(TpMaxPayload) <= MaxFrames

VARIABLES
    pc,         \* "idle" between calls, "recv" in the receive loop
    req,        \* the request of the current (or last) call
    responder, total, got, expectSeq, payload,      \* the C locals
    result,     \* what the last call returned
    sent,       \* frames transmitted by the current (or last) call
    used        \* history: the frames whose data make up payload / resp

locals == << responder, total, got, expectSeq, payload >>
vars == << pc, req, locals, result, sent, used >>

Error(code) == [code |-> code, len |-> -1, chunk |-> << >>, from |-> NoResponder]
None == Error("NONE")
Reply(from, len, chunk) ==
    [code |-> "OK", len |-> len, chunk |-> chunk, from |-> from]

(* What goes on the wire: a single-frame request to the functional id, and *)
(* a ContinueToSend flow control to one ECU's physical id.                 *)
RequestFrame(r) ==
    [id |-> FuncId(Variant), extd |-> Extended(Variant), body |-> << "SF", r >>]
FlowControl(e) ==
    [id |-> PhysFor(Variant, e), extd |-> Extended(Variant),
     body |-> << "FC", "CTS" >>]

Init ==
    /\ pc = "idle"
    /\ req \in Request                  \* no call yet
    /\ responder = NoResponder /\ total = 0 /\ got = 0
    /\ expectSeq = 1 /\ payload = << >>
    /\ result = None
    /\ sent = << >>
    /\ used = << >>

(* obd_client.c:93-97 *)
ResetLocals ==
    /\ responder' = NoResponder /\ total' = 0 /\ got' = 0
    /\ expectSeq' = 1 /\ payload' = << >>
    /\ used' = << >>

Call(r) ==
    /\ pc = "idle"
    /\ req' = r
    /\ ResetLocals
    /\ pc' = "recv"
    /\ sent' = << RequestFrame(r) >>
    /\ result' = None

(* send failed: the call is over, reported as a timeout.                   *)
CallSendFails(r) ==
    /\ pc = "idle"
    /\ req' = r
    /\ ResetLocals
    /\ sent' = << >>
    /\ result' = Error("TIMEOUT")
    /\ UNCHANGED pc

Finish(res) == pc' = "idle" /\ result' = res /\ UNCHANGED req

(* Mutation of Ignored: the "first responder wins" test is missing.        *)
IgnoredAnyResponder(f) ==
    \/ f.dlc = 0
    \/ f.extd # Extended(Variant)
    \/ f.id \notin RespIds(Variant)
    \/ f.pci = "CF" /\ responder = NoResponder
    \/ f.pci = "OTHER"

(* Frames the loop steps over: empty, not on a response id, from another   *)
(* ECU once one has been chosen, a consecutive frame before any first      *)
(* frame, a PCI that is no response.                                       *)
Ignored(f) ==
    \/ f.dlc = 0
    \/ f.extd # Extended(Variant)
    \/ f.id \notin RespIds(Variant)
    \/ responder # NoResponder /\ f.id # responder
    \/ f.pci = "CF" /\ responder = NoResponder
    \/ f.pci = "OTHER"

Skip(f) ==
    /\ pc = "recv"
    /\ Ignored(f)
    /\ UNCHANGED vars

(* A single frame ends the call at once, even between the consecutive      *)
(* frames of a transfer from the same ECU.                                 *)
OnSingle(f) ==
    /\ pc = "recv" /\ ~Ignored(f) /\ f.pci = "SF"
    /\ IF f.n > SingleBytes \/ f.n + 1 > f.dlc \/ f.n > RespCap
       THEN Finish(Error("PROTOCOL")) /\ UNCHANGED used
       ELSE Finish(Reply(f.id, f.n, << f.data >>)) /\ used' = << f >>
    /\ UNCHANGED << locals, sent >>

(* Mutations of Acceptable: the announced length is not compared with the  *)
(* buffers; isotp_on_first_frame's -1 is not looked at.                    *)
AcceptableAnyLength(f) == Announced(f) # -1
AcceptableNegative(f) ==
    Announced(f) <= TpMaxPayload /\ Announced(f) <= RespCap

Acceptable(f) ==
    /\ Announced(f) # -1
    /\ Announced(f) <= TpMaxPayload
    /\ Announced(f) <= RespCap

(* Mutation of RefuseFirst: flow control is sent before the length check.  *)
RefuseFirstAfterFlow(f) ==
    /\ pc = "recv" /\ ~Ignored(f) /\ f.pci = "FF"
    /\ \/ responder # NoResponder /\ UNCHANGED << responder, sent >>
       \/ /\ responder = NoResponder /\ ~Acceptable(f)
          /\ responder' = f.id
          /\ sent' = Append(sent, FlowControl(f.id))
    /\ Finish(Error("PROTOCOL"))
    /\ UNCHANGED << total, got, expectSeq, payload, used >>

(* A second first frame, or an announced length that does not fit.         *)
RefuseFirst(f) ==
    /\ pc = "recv" /\ ~Ignored(f) /\ f.pci = "FF"
    /\ \/ responder # NoResponder /\ UNCHANGED responder
       \/ responder = NoResponder /\ ~Acceptable(f) /\ responder' = f.id
    /\ Finish(Error("PROTOCOL"))
    /\ UNCHANGED << total, got, expectSeq, payload, sent, used >>

(* Mutation of AcceptFirst: a first frame is credited with seven bytes.    *)
AcceptFirstSeven(f) ==
    /\ pc = "recv" /\ ~Ignored(f) /\ f.pci = "FF"
    /\ responder = NoResponder /\ Acceptable(f)
    /\ responder' = f.id
    /\ total' = Announced(f)
    /\ sent' = Append(sent, FlowControl(f.id))
    /\ got' = Smaller(total', SingleBytes)
    /\ payload' = << f.data >>
    /\ expectSeq' = 1
    /\ used' = << f >>
    /\ UNCHANGED << pc, req, result >>

AcceptFirst(f) ==
    /\ pc = "recv" /\ ~Ignored(f) /\ f.pci = "FF"
    /\ responder = NoResponder /\ Acceptable(f)
    /\ responder' = f.id
    /\ total' = Announced(f)
    /\ sent' = Append(sent, FlowControl(f.id))
    /\ got' = Smaller(total', FirstBytes)
    /\ payload' = << f.data >>
    /\ expectSeq' = 1
    /\ used' = << f >>
    /\ UNCHANGED << pc, req, result >>

(* The flow control could not be sent.                                     *)
FlowControlFails(f) ==
    /\ pc = "recv" /\ ~Ignored(f) /\ f.pci = "FF"
    /\ responder = NoResponder /\ Acceptable(f)
    /\ responder' = f.id
    /\ total' = Announced(f)
    /\ Finish(Error("TIMEOUT"))
    /\ UNCHANGED << got, expectSeq, payload, sent, used >>

(* Data bytes the next consecutive frame has to bring.                     *)
Wanted == Smaller(total - got, NextBytes)

(* Mutation of InOrder: the sequence number is not checked.                *)
InAnyOrder(f) == TRUE

InOrder(f) == f.n = expectSeq % SeqCount

RefuseNext(f) ==
    /\ pc = "recv" /\ ~Ignored(f) /\ f.pci = "CF"
    /\ ~InOrder(f) \/ Wanted + 1 > f.dlc
    /\ Finish(Error("PROTOCOL"))
    /\ UNCHANGED << locals, sent, used >>

AcceptNext(f) ==
    /\ pc = "recv" /\ ~Ignored(f) /\ f.pci = "CF"
    /\ InOrder(f) /\ Wanted + 1 <= f.dlc
    /\ payload' = Append(payload, f.data)
    /\ got' = got + Wanted
    /\ expectSeq' = expectSeq + 1
    /\ used' = Append(used, f)
    /\ IF got' >= total
       THEN Finish(Reply(responder, total, payload'))
       ELSE UNCHANGED << pc, req, result >>
    /\ UNCHANGED << responder, total, sent >>

(* recv returned 1 or an error: both end the call the same way.            *)
Timeout ==
    /\ pc = "recv"
    /\ Finish(Error("TIMEOUT"))
    /\ UNCHANGED << locals, sent, used >>

OnFrame(f) ==
    \/ Skip(f)
    \/ OnSingle(f)
    \/ RefuseFirst(f) \/ AcceptFirst(f) \/ FlowControlFails(f)
    \/ RefuseNext(f) \/ AcceptNext(f)

Next ==
    \/ \E r \in Request : Call(r) \/ CallSendFails(r)
    \/ \E f \in BusFrame : OnFrame(f)
    \/ Timeout

Spec == Init /\ [][Next]_vars

-----------------------------------------------------------------------------
Codes == {"NONE", "OK", "TIMEOUT", "PROTOCOL"}
TxFrame == {RequestFrame(r) : r \in Request}
             \cup {FlowControl(e) : e \in RespIds(Variant)}
Results == [code : Codes, len : Nat \cup {-1}, chunk : Seq(Data),
            from : RespIds(Variant) \cup {NoResponder}]

TypeOK ==
    /\ pc \in {"idle", "recv"}
    /\ req \in Request
    /\ responder \in RespIds(Variant) \cup {NoResponder}
    /\ total \in 0 .. MaxLen
    /\ got \in Nat
    /\ expectSeq \in Nat \ {0}
    /\ payload \in Seq(Data)
    /\ used \in Seq(BusFrame)
    /\ sent \in Seq(TxFrame)
    /\ result \in Results

(* The memcpy calls stay inside payload[TP_MAX_PAYLOAD] and the caller's   *)
(* resp[resp_cap]: whatever the bus says, the bytes collected never exceed *)
(* the announced total, nor does that total exceed either buffer, and a    *)
(* call never waits for more once it has them all (total - got, unsigned,  *)
(* cannot wrap).                                                           *)
BufferBound ==
    /\ payload # << >> =>
         /\ got <= total
         /\ total <= TpMaxPayload /\ total <= RespCap
         /\ got = Carried(total, Len(payload))
    /\ pc = "recv" /\ payload # << >> => got < total
    /\ result.code = "OK" => result.len <= RespCap

(* The live receive loop and the offline decoder agree: a reply is exactly *)
(* what isotp_decode makes of the frames the reply was taken from, though  *)
(* any other frames were received in between.                              *)
AgreesWithDecoder ==
    result.code = "OK" =>
        Decode(used, RespCap) = [len |-> result.len, chunk |-> result.chunk]

(* "first responder wins": no byte of a reply comes from another ECU than  *)
(* the one whose first frame was acknowledged, even when a second ECU      *)
(* answers in the middle of the transfer.                                  *)
OneSource ==
    /\ result.code = "OK" =>
         /\ \A i \in DOMAIN used : used[i].id = result.from
         /\ responder # NoResponder => result.from = responder
    /\ result.code = "OK" => result.from \in RespIds(Variant)

(* The wire audit: a call transmits nothing but its own request, once, to  *)
(* the functional id, then at most one flow control, to the physical id    *)
(* paired with the ECU whose first frame it accepted.                      *)
ReadOnlyWire ==
    \/ sent = << >>
    \/ sent = << RequestFrame(req) >>
    \/ /\ sent = << RequestFrame(req), FlowControl(responder) >>
       /\ used # << >>
       /\ responder # NoResponder


=============================================================================
