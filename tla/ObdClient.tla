----------------------------- MODULE ObdClient ------------------------------
(***************************************************************************)
(* The OBD client above tp_transact: one phone request at a time           *)
(* (main_esp32.c run_op) is dispatched, runs one read or the whole         *)
(* obd_scan (VIN, three DTC services, then each live PID) and is replied   *)
(* to.  A read passes the allowlist gate, makes one tp_transact call and   *)
(* validates what came back, which may be the answer to an earlier call:   *)
(* the calls are those of TransactService.                                 *)
(***************************************************************************)
EXTENDS TransactService, FiniteSets

CONSTANTS
    Ecus,           (* what can answer a functional request *)
    DefaultPids,    (* OBD_DEFAULT_PIDS *)
    Allowlisted,    (* PID_ALLOWLIST *)
    Decodable,      (* PIDs pid_decode has a case for *)
    Ops,            (* the phone's requests *)
    MaxOps,         (* bound on the number of phone requests *)
    MaxScans,       (* bound on the full scans among them *)
    MissFrom,       (* bound: frames are missed only from this call on *)
    MaxFaults       (* bound on answers given late and frames missed *)

VARIABLES
    st,         \* "idle", "gate" before a read, "wait" for its call
    op,         \* the phone request being served (or served last)
    at,         \* which read of the op's program
    scan,       \* obd_scan_t, with the answer behind every field
    reply,      \* the reply to the last phone request
    ops,        \* phone requests so far, in order
    late        \* history: the answers left pending outside their own call

clientVars == << st, op, at, scan, reply, ops >>
obdVars == << serviceVars, clientVars, late >>

-----------------------------------------------------------------------------
(* Requests, and the programs the operations run.                          *)
Req(svc, pid) == [svc |-> svc, pid |-> pid]
Vin == Req("09", "02")
DtcServices == << "03", "07", "0A" >>
Dtc(svc) == Req(svc, "none")
Live(pid) == Req("01", pid)
Frozen(pid) == Req("02", pid)

ScanProgram ==
    << Vin >> \o [i \in DOMAIN DtcServices |-> Dtc(DtcServices[i])]
              \o [i \in DOMAIN DefaultPids |-> Live(DefaultPids[i])]

Scan == [kind |-> "full_scan"]
Read(r) == [kind |-> "read", req |-> r]
Unknown == [kind |-> "unknown"]

Program(o) == IF o = Scan THEN ScanProgram ELSE << o.req >>

HasPid(r) == r.svc \in {"01", "02"}

(* obd_dispatch knows no other reads; an answer carries what it answers.   *)
ASSUME ObdAssumption ==
    /\ DefaultPids \in Seq({DefaultPids[i] : i \in DOMAIN DefaultPids})
    /\ MaxOps \in Nat
    /\ \A o \in Ops \ {Scan, Unknown} :
          /\ o = Read(Req(o.req.svc, o.req.pid))
          /\ \/ o.req = Vin \/ HasPid(o.req)
             \/ \E i \in DOMAIN DtcServices : o.req = Dtc(DtcServices[i])
    /\ \A a \in Answers : a.req = Req(a.req.svc, a.req.pid)

(* obd_dispatch; full_scan does not go through it.                         *)
Dispatched(o) ==
    /\ o # Unknown
    /\ o.kind = "read" => (HasPid(o.req) => o.req.pid \in Allowlisted)

-----------------------------------------------------------------------------
(* Mutation of Echoes: only the service id of a response is compared.      *)
EchoesService(a, r) == a.req.svc = r.svc

(* The response's service id and, where there is one, its PID.             *)
Echoes(a, r) == a.req.svc = r.svc /\ a.req.pid = r.pid

(* What a read makes of the call's outcome: its return code and the answer *)
(* its value was decoded from.  Joined bytes of two answers can look like  *)
(* anything.                                                               *)
Verdict(rc, from) == [rc |-> rc, from |-> from]
Decoded(r, from) ==
    Verdict(IF HasPid(r) /\ r.pid \notin Decodable THEN "FORBIDDEN" ELSE "OK", from)

Verdicts(r) ==
    CASE outcome.code = "GARBLED" -> {Verdict("PROTOCOL", {}), Decoded(r, {})}
      [] outcome.code = "OK" ->
           {IF \A a \in outcome.answer : Echoes(a, r) /\ a.body = "good"
            THEN Decoded(r, outcome.answer) ELSE Verdict("PROTOCOL", {})}
      [] OTHER -> {Verdict(outcome.code, {})}

(* first is history: the number of the scan's first call.                  *)
EmptyScan ==
    [vin |-> {}, dtc |-> [i \in DOMAIN DtcServices |-> {}],
     incomplete |-> FALSE, slots |-> << >>, first |-> Current + 1]

(* obd_scan_t is a local of run_op: before the memset it holds whatever is *)
(* on the stack, such as the DTC lists of an earlier scan (call 0).        *)
OnTheStack ==
    [EmptyScan EXCEPT !.dtc = [i \in DOMAIN DtcServices |->
        {[ecu |-> e, req |-> Dtc(DtcServices[i]), call |-> 0, body |-> "good"] :
           e \in {CHOOSE x \in Ecus : TRUE}}]]

NoReply == [code |-> "NONE"]

ObdInit ==
    /\ ServiceInit
    /\ st = "idle" /\ op = Unknown /\ at = 0
    /\ scan = OnTheStack
    /\ reply = NoReply
    /\ ops = << >>
    /\ late = {}

-----------------------------------------------------------------------------
Within(o) ==
    /\ Len(ops) < MaxOps
    /\ o = Scan => Cardinality({i \in DOMAIN ops : ops[i] = Scan}) < MaxScans

(* The phone writes a request.                                             *)
Refused(o) ==
    /\ st = "idle" /\ Within(o)
    /\ ~Dispatched(o)
    /\ ops' = Append(ops, o)
    /\ op' = o
    /\ reply' = [code |-> IF o = Unknown THEN "FORBIDDEN_COMMAND"
                                         ELSE "PID_NOT_ALLOWED"]
    /\ UNCHANGED << serviceVars, st, at, scan >>

(* Mutation of Begin: the scan record is not cleared (the memset).         *)
BeginUncleared(o) ==
    /\ st = "idle" /\ Within(o)
    /\ Dispatched(o)
    /\ ops' = Append(ops, o)
    /\ op' = o
    /\ at' = 1
    /\ st' = "gate"
    /\ scan' = [scan EXCEPT !.incomplete = FALSE, !.slots = << >>,
                            !.first = Current + 1]
    /\ reply' = NoReply
    /\ UNCHANGED serviceVars

Begin(o) ==
    /\ st = "idle" /\ Within(o)
    /\ Dispatched(o)
    /\ ops' = Append(ops, o)
    /\ op' = o
    /\ at' = 1
    /\ st' = "gate"
    /\ scan' = EmptyScan
    /\ reply' = NoReply
    /\ UNCHANGED serviceVars

Request == Program(op)[at]

(* Mutation of Gated: the scan path relies on the dispatcher's check.      *)
GatedByDispatch == op # Scan /\ HasPid(Request) /\ Request.pid \notin Allowlisted

(* The allowlist check before any frame is transmitted.                    *)
Gated == HasPid(Request) /\ Request.pid \notin Allowlisted

Transmit ==
    /\ st = "gate" /\ ~Gated
    /\ st' = "wait"
    /\ Ask(Request) \/ AskFails
    /\ UNCHANGED << op, at, scan, reply, ops >>

(* A read of run_op's switch returned.                                     *)
ReplyTo(v) ==
    [code |-> CASE v.rc = "OK" -> "DATA"
                [] v.rc # "OK" /\ (v.rc = "TIMEOUT" \/ ~HasPid(Request)) -> "NO_DATA"
                [] v.rc \notin {"OK", "TIMEOUT"} /\ HasPid(Request) -> "BAD_REQUEST",
     from |-> v.from]

SingleRead(v) ==
    /\ op # Scan
    /\ st' = "idle"
    /\ reply' = ReplyTo(v)
    /\ UNCHANGED << at, scan >>

(* The VIN read failed: no VIN, no scan.                                   *)
ScanAborts(v) ==
    /\ op = Scan /\ at = 1 /\ v.rc # "OK"
    /\ st' = "idle"
    /\ reply' = [code |-> "BAD_REQUEST"]
    /\ UNCHANGED << at, scan >>

(* Mutation of Record: dtc_incomplete says how the last DTC service went.  *)
RecordLast(v) ==
    LET i == at - 1
        j == at - 1 - Len(DtcServices)
    IN  CASE at = 1 -> [scan EXCEPT !.vin = v.from]
          [] i \in DOMAIN DtcServices ->
               [scan EXCEPT !.dtc[i] = v.from, !.incomplete = v.rc # "OK"]
          [] v.rc = "FORBIDDEN" -> scan
          [] OTHER ->
               [scan EXCEPT !.slots = Append(@,
                  [pid |-> DefaultPids[j], present |-> v.rc = "OK",
                   call |-> Current, from |-> v.from])]

(* The scan record after the read: VIN, a DTC list or the incomplete flag, *)
(* a PID slot - none for a PID refused as forbidden.                       *)
Record(v) ==
    LET i == at - 1
        j == at - 1 - Len(DtcServices)
    IN  CASE at = 1 -> [scan EXCEPT !.vin = v.from]
          [] i \in DOMAIN DtcServices /\ v.rc = "OK" -> [scan EXCEPT !.dtc[i] = v.from]
          [] i \in DOMAIN DtcServices /\ v.rc # "OK" -> [scan EXCEPT !.incomplete = TRUE]
          [] j \in DOMAIN DefaultPids /\ v.rc = "FORBIDDEN" -> scan
          [] j \in DOMAIN DefaultPids /\ v.rc # "FORBIDDEN" ->
               [scan EXCEPT !.slots = Append(@,
                  [pid |-> DefaultPids[j], present |-> v.rc = "OK",
                   call |-> Current, from |-> v.from])]

(* Mutation of ScanContinues: the loop over pid_list runs once too often.  *)
ScanOverruns(v) ==
    /\ op = Scan /\ (at = 1 => v.rc = "OK")
    /\ scan' = Record(v)
    /\ at' = at + 1 /\ st' = "gate" /\ UNCHANGED reply

(* Mutation of ScanContinues: a skipped PID is tried again.                *)
ScanRetries(v) ==
    /\ op = Scan /\ (at = 1 => v.rc = "OK")
    /\ scan' = Record(v)
    /\ IF at < Len(ScanProgram)
       THEN /\ at' = IF v.rc = "FORBIDDEN" THEN at ELSE at + 1
            /\ st' = "gate" /\ UNCHANGED reply
       ELSE st' = "idle" /\ reply' = [code |-> "SCAN", scan |-> scan'] /\ UNCHANGED at

ScanContinues(v) ==
    /\ op = Scan /\ (at = 1 => v.rc = "OK")
    /\ scan' = Record(v)
    /\ IF at < Len(ScanProgram)
       THEN at' = at + 1 /\ st' = "gate" /\ UNCHANGED reply
       ELSE st' = "idle" /\ reply' = [code |-> "SCAN", scan |-> scan'] /\ UNCHANGED at

ReadReturns(v) ==
    /\ SingleRead(v) \/ ScanAborts(v) \/ ScanContinues(v)
    /\ UNCHANGED << serviceVars, op, ops >>

GateRefuses ==
    /\ st = "gate" /\ Gated
    /\ ReadReturns(Verdict("FORBIDDEN", {}))

CallReturned ==
    /\ st = "wait" /\ ~busy
    /\ \E v \in Verdicts(Request) : ReadReturns(v)

ClientStep == Transmit \/ GateRefuses \/ CallReturned

-----------------------------------------------------------------------------
(* The vehicle: an ECU answers a call at most once, well or with bytes     *)
(* that fail validation, in time and alone or - MaxFaults - late or beside *)
(* another ECU's answer.                                                   *)
MoreFaults == Cardinality(late) + (IF lossy THEN 1 ELSE 0) < MaxFaults

Prompt(a) == busy /\ a.call = Current /\ \A b \in given : b.call # Current

NotSaid(a) == \A b \in given : b.ecu # a.ecu \/ b.call # a.call

EcuSays(a) ==
    /\ Prompt(a) \/ MoreFaults
    /\ NotSaid(a)
    /\ Say(a)
    /\ UNCHANGED clientVars

(* The deadline passes; a frame or its flow control may just have been     *)
(* lost to an error of the driver, and the answer stays pending.           *)
CallTimesOut ==
    /\ Pending = {} \/ MoreFaults
    /\ GiveUp
    /\ UNCHANGED clientVars

CallEnds ==
    \/ CallTimesOut
    \/ ((\E a \in Pending : Return(a)) \/ Refuse \/ Garble) /\ UNCHANGED clientVars

FrameMissed ==
    /\ MoreFaults /\ Current >= MissFrom
    /\ Miss
    /\ \A a \in given' \ given : NotSaid(a)
    /\ UNCHANGED clientVars

LeftOver == {a \in Pending : ~busy \/ a.call # Current}
Remember == late' = late \cup LeftOver'

ObdNext ==
    /\ \/ \E o \in Ops : Refused(o) \/ Begin(o)
       \/ ClientStep
       \/ \E a \in Answers : EcuSays(a)
       \/ CallEnds
       \/ FrameMissed
    /\ Remember

ObdSpec == ObdInit /\ [][ObdNext]_obdVars

(* The task runs, and a tp_transact call comes back (CanSession's          *)
(* CallReturns).                                                           *)
FairObd ==
    /\ ObdSpec
    /\ WF_obdVars(ClientStep /\ Remember)
    /\ WF_obdVars(CallEnds /\ Remember)

-----------------------------------------------------------------------------
Slots == [pid : {DefaultPids[i] : i \in DOMAIN DefaultPids}, present : BOOLEAN,
          call : Nat, from : SUBSET given]
ObdTypeOK ==
    /\ st \in {"idle", "gate", "wait"}
    /\ op \in Ops \cup {Unknown} /\ ops \in Seq(Ops) /\ Len(ops) <= MaxOps
    /\ st # "idle" => at \in DOMAIN Program(op)
    /\ st # "idle" =>
         scan.vin \cup (UNION {scan.dtc[i] : i \in DOMAIN DtcServices}) \subseteq returned
    /\ scan.slots \in Seq(Slots) /\ Len(scan.slots) <= Len(DefaultPids)
    /\ st # "wait" => ~busy

Published == reply.code = "SCAN"

(* Every field of a published scan comes from a response to the request    *)
(* that field stands for: a late response is never shown as the value of   *)
(* another PID or the codes of another DTC service.                        *)
RightlyAttributed ==
    Published /\ ~lossy =>
      /\ \E a \in reply.scan.vin : a.req = Vin
      /\ \A i \in DOMAIN DtcServices : \A a \in reply.scan.dtc[i] :
           a.req = Dtc(DtcServices[i])
      /\ \A i \in DOMAIN reply.scan.slots :
           LET s == reply.scan.slots[i] IN
             s.present => \E a \in s.from : a.req = Live(s.pid)

(* dtc_incomplete tells exactly whether one of the three lists is empty    *)
(* for want of a response: an empty list with the flag down means the      *)
(* vehicle reported no codes.                                              *)
IncompleteTold ==
    Published /\ ~lossy =>
      (reply.scan.incomplete <=> \E i \in DOMAIN DtcServices : reply.scan.dtc[i] = {})

(* While every answer came during its own call, and alone, a published     *)
(* scan holds only answers to the scan's own calls, and a PID marked       *)
(* absent had no usable answer.                                            *)
ScanSources(s) ==
    s.vin \cup (UNION {s.dtc[i] : i \in DOMAIN s.dtc})
          \cup (UNION {s.slots[i].from : i \in DOMAIN s.slots})
GoodAnswerTo(call) == \E a \in given : a.call = call /\ a.body = "good"

PromptScanIsFresh ==
    Published /\ late = {} /\ ~lossy =>
      /\ \A a \in ScanSources(reply.scan) : a.call >= reply.scan.first
      /\ \A i \in DOMAIN reply.scan.slots :
           ~reply.scan.slots[i].present => ~GoodAnswerTo(reply.scan.slots[i].call)

(* Nothing but allowlisted reads is ever transmitted, though a full scan   *)
(* bypasses the dispatcher's check.                                        *)
OnlyAllowlistedSent ==
    \A i \in DOMAIN asked :
        \/ asked[i] \in {Vin, NotSent}
        \/ \E j \in DOMAIN DtcServices : asked[i] = Dtc(DtcServices[j])
        \/ HasPid(asked[i]) /\ asked[i].pid \in Allowlisted

(* Every phone request is replied to.                                      *)
Replied == st # "idle" ~> st = "idle"

(* obd_client.h:60 "present=false means the ECU stayed silent              *)
(* (unsupported)": where a call did return a response, no frame missed, a  *)
(* PID is not recorded as absent after a usable response to its own        *)
(* request.                                                                *)
AbsentMeansSilent ==
    [][ LET s == scan'.slots IN
          Len(s) > Len(scan.slots) /\ outcome.code = "OK" /\ ~lossy
            => s[Len(s)].present \/ ~GoodAnswerTo(Current) ]_obdVars
=============================================================================
