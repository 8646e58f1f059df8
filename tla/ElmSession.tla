----------------------------- MODULE ElmSession -----------------------------
(***************************************************************************)
(* The phone's scan over a commodity adapter: OBDRepository.scan over      *)
(* Elm327Session (android), the adapter of simulator/elm327_sim.py, and    *)
(* the link between them. Commands queue at the adapter ("inbox"), its     *)
(* answers on the link ("outbox"), what was notified in the session's      *)
(* buffer "rx" and "rest", which one session object keeps for all its      *)
(* scans. An answer may be split before its prompt, come after the phone   *)
(* gave up on it, or be lost with the connection.                          *)
(***************************************************************************)
EXTENDS Elm327

CONSTANTS
    Plans,      \* lists of recipes the backend may ask for: seqs of [service, pids]
    MaxScans    \* bound: scans with one session object

VARIABLES
    scan,       \* the running scan, or the last one
    scans,      \* bound counter, and the number of the scan
    connected,
    adapter,    \* the adapter's settings
    inbox,      \* commands it has not taken
    outbox,     \* answers not yet notified, or not to their prompt
    begun,      \* the text of the first of them was notified, its prompt was not
    rx,         \* the session's buffer: for each prompt in it the answers before it
    rest        \* and those after its last prompt

link == << connected, adapter, inbox, outbox, begun >>
vars == << scan, scans, connected, adapter, inbox, outbox, begun, rx, rest >>

ASSUME PlansAssumption ==
    \A plan \in Plans :
        /\ plan.signals \in Seq(Range(plan.signals)) /\ plan.legacy \in Seq(Range(plan.legacy))
        /\ \A s \in Range(plan.signals) : s.pids \in Seq(Range(s.pids))

InitSequence ==
    << << "AT", "Z" >>, << "AT", "E0" >>, << "AT", "L0" >>, << "AT", "S0" >>,
       << "AT", "H1" >>, << "AT", "SP0" >> >>
CodeReads == << << "03" >>, << "07" >>, << "0A" >> >>
VinRead == Len(InitSequence) + 1
LastCodeRead == VinRead + Len(CodeReads)

Commands == InitSequence \o << << "09", "02" >> >> \o CodeReads
            \o [i \in DOMAIN scan.pids |-> << "01", scan.pids[i] >>]
Command == Commands[scan.n]

Status(service) ==
    CASE service = "03" -> "confirmed" [] service = "07" -> "pending" [] service = "0A" -> "permanent"

(* at: idle, send, wait, ask (the backend), close, and how it ended;       *)
(* from: the requests each answer taken so far really answers.             *)
NewScan(behind) ==
    [at |-> "send", n |-> 1, pids |-> << >>, vin |-> << >>, evidence |-> {}, values |-> << >>,
     outcome |-> "none", from |-> << >>, behind |-> behind, timedOut |-> FALSE, refused |-> FALSE,
     lost |-> FALSE]

Prompted == rx # << >>

ElmInit ==
    /\ scan = [NewScan(FALSE) EXCEPT !.at = "idle"]
    /\ scans = 0
    /\ connected = FALSE
    /\ adapter \in {PowerOn(honoursS0) : honoursS0 \in BOOLEAN}
    /\ inbox = << >> /\ outbox = << >> /\ begun = FALSE
    /\ rx = << >> /\ rest = << >>

-----------------------------------------------------------------------------
(* The adapter and the link.                                               *)
AdapterAnswers ==
    LET now == Switched(adapter, Head(inbox).cmd)
    IN  /\ inbox # << >>
        /\ inbox' = Tail(inbox)
        /\ adapter' = now
        /\ outbox' = Append(outbox, [request |-> Head(inbox), adapter |-> now])
        /\ UNCHANGED << scan, scans, connected, begun, rx, rest >>

(* A notification of several parts is several of these steps.              *)
TextNotified ==
    /\ outbox # << >> /\ ~begun
    /\ begun' = TRUE
    /\ rest' = Append(rest, Head(outbox))
    /\ UNCHANGED << scan, scans, connected, adapter, inbox, outbox, rx >>

PromptNotified ==
    /\ begun
    /\ begun' = FALSE
    /\ outbox' = Tail(outbox)
    /\ rx' = Append(rx, rest) /\ rest' = << >>
    /\ UNCHANGED << scan, scans, connected, adapter, inbox >>

Cut == inbox' = << >> /\ outbox' = << >> /\ begun' = FALSE

(* Out of reach, or unplugged.                                             *)
LinkDrops ==
    /\ connected
    /\ connected' = FALSE
    /\ Cut
    /\ scan' = [scan EXCEPT !.lost = @ \/ scan.at # "idle"]
    /\ UNCHANGED << scans, adapter, rx, rest >>

-----------------------------------------------------------------------------
(* The scan.                                                               *)
InFlight == inbox # << >> \/ outbox # << >>

(* Of a connection that was left open the phone's stack makes a new one,   *)
(* or keeps it. The buffer stays as it is.                                 *)
Connect(kept) ==
    /\ scan.at = "idle" /\ scans < MaxScans
    /\ kept => connected
    /\ scans' = scans + 1
    /\ scan' = NewScan(Prompted \/ (kept /\ InFlight))
    /\ connected' = TRUE
    /\ IF kept THEN UNCHANGED << adapter, inbox, outbox, begun >>
       ELSE adapter' = PowerOn(adapter.honoursS0) /\ Cut
    /\ UNCHANGED << rx, rest >>

(* After a failure in connect the connection is left open: it comes before *)
(* the try whose finally disconnects.                                      *)
Failed(s) == [s EXCEPT !.outcome = "failed", !.at = IF s.n < VinRead THEN "idle" ELSE "close"]

Send ==
    /\ scan.at = "send" /\ connected
    /\ inbox' = Append(inbox, [cmd |-> Command, id |-> << scans, scan.n >>])
    /\ scan' = [scan EXCEPT !.at = "wait"]
    /\ UNCHANGED << scans, connected, adapter, outbox, begun, rx, rest >>

SendFails ==
    /\ scan.at = "send" /\ ~connected
    /\ scan' = Failed(scan)
    /\ UNCHANGED << scans, link, rx, rest >>

ThrowsOnPid(cmd, bytes) ==
    cmd[1] = "01" /\ AnswersPid(bytes, cmd[2]) /\ ~Decodable(cmd[2], PidValue(bytes))

ThrowsOnAbsent(cmd, bytes) ==
    CASE cmd[1] = "AT" -> FALSE
      [] cmd[1] = "09" -> ~WellFormedVin(bytes)
      [] cmd[1] = "01" -> ~AnswersPid(bytes, cmd[2]) \/ ~Decodable(cmd[2], PidValue(bytes))
      [] cmd \in ToSet(CodeReads) -> IndexOf(bytes, ResponseSid(cmd[1])) = 0

(* Answers the parsers refuse; that to a PID may also be passed over.      *)
Throws(cmd, bytes) ==
    CASE cmd[1] = "AT" -> FALSE
      [] cmd[1] = "09" -> ~WellFormedVin(bytes)
      [] cmd[1] = "01" -> AnswersPid(bytes, cmd[2]) /\ ~Decodable(cmd[2], PidValue(bytes))
      [] cmd \in ToSet(CodeReads) -> IndexOf(bytes, ResponseSid(cmd[1])) = 0

Learned(s, cmd, bytes) ==
    CASE cmd[1] = "AT" -> s
      [] cmd[1] = "09" -> [s EXCEPT !.vin = VinIn(bytes)]
      [] cmd[1] = "01" ->
             IF AnswersPid(bytes, cmd[2])
             THEN [s EXCEPT !.values = [p \in DOMAIN @ \cup {cmd[2]} |->
                                          IF p = cmd[2] THEN PidValue(bytes) ELSE @[p]]]
             ELSE s
      [] cmd \in ToSet(CodeReads) ->
             LET codes == DtcsIn(bytes, ResponseSid(cmd[1]))
             IN  [s EXCEPT !.evidence = @ \cup {<< c, Status(cmd[1]) >> : c \in ToSet(codes)}]

Published(s) == [s EXCEPT !.outcome = "published", !.at = "close"]

OnwardAskingEarly(s) ==
    IF s.n = VinRead + 1 THEN [s EXCEPT !.at = "ask"]
    ELSE IF s.n = Len(Commands) THEN Published(s)
    ELSE [s EXCEPT !.n = @ + 1, !.at = "send"]

Onward(s) ==
    IF s.n = LastCodeRead THEN [s EXCEPT !.at = "ask"]
    ELSE IF s.n = Len(Commands) THEN Published(s)
    ELSE [s EXCEPT !.n = @ + 1, !.at = "send"]

(* awaitPrompt returns all text before the first prompt. (The singletons   *)
(* let TLC compute a value once.)                                          *)
TextOf(answers) ==
    FlattenSeq([i \in DOMAIN answers |-> Answer(answers[i].request.cmd, answers[i].adapter)])

TakeAnswer ==
    /\ scan.at = "wait" /\ Prompted
    /\ \E answers \in {Head(rx)} : \E text \in {TextOf(answers)} : \E bytes \in {Sanitized(text)} :
          LET ids == [i \in DOMAIN answers |-> answers[i].request.id]
              s   == [scan EXCEPT !.from = Append(@, ids)]
          IN  scan' = IF Throws(Command, bytes) THEN Failed(s)
                      ELSE Onward(Learned(s, Command, bytes))
    /\ rx' = Tail(rx)
    /\ UNCHANGED << scans, link, rest >>

TimeoutSilent ==
    /\ scan.at = "wait" /\ rx = << >> /\ rest = << >>
    /\ scan' = Failed([scan EXCEPT !.timedOut = TRUE])
    /\ UNCHANGED << scans, link, rx, rest >>

Timeout ==
    /\ scan.at = "wait" /\ ~Prompted
    /\ scan' = Failed([scan EXCEPT !.timedOut = TRUE])
    /\ UNCHANGED << scans, link, rx, rest >>

(* Plain PIDs of the recipes, each once, in order.                         *)
PidsForSignals(signals) ==
    LET all == FlattenSeq([i \in DOMAIN signals |->
                  IF signals[i].service = "01" THEN signals[i].pids ELSE << >>])
        new == {i \in DOMAIN all : \A j \in 1 .. i - 1 : all[j] # all[i]}
    IN  [k \in 1 .. Cardinality(new) |->
            all[CHOOSE i \in new : Cardinality({j \in new : j < i}) = k - 1]]

(* Without a plain PID among the recipes the backend's legacy list counts. *)
PidsToRead(plan) ==
    LET pids == PidsForSignals(plan.signals) IN IF pids = << >> THEN plan.legacy ELSE pids

Planned(plan) ==
    LET s == [scan EXCEPT !.pids = PidsToRead(plan)]
    IN  /\ scan.at = "ask"
        /\ scan' = IF s.pids = << >> THEN Published(s) ELSE [s EXCEPT !.n = @ + 1, !.at = "send"]
        /\ UNCHANGED << scans, link, rx, rest >>

BackendFails ==
    /\ scan.at = "ask"
    /\ scan' = Failed([scan EXCEPT !.refused = TRUE])
    /\ UNCHANGED << scans, link, rx, rest >>

(* What has not been notified by now never is.                             *)
Disconnect ==
    /\ scan.at = "close"
    /\ scan' = [scan EXCEPT !.at = "idle"]
    /\ connected' = FALSE
    /\ Cut
    /\ UNCHANGED << scans, adapter, rx, rest >>

Phone ==
    \/ Send \/ SendFails \/ TakeAnswer \/ Timeout \/ BackendFails \/ Disconnect
    \/ \E plan \in Plans : Planned(plan)

ElmNext ==
    \/ Phone \/ AdapterAnswers \/ TextNotified \/ PromptNotified \/ LinkDrops
    \/ \E kept \in BOOLEAN : Connect(kept)

(* The phone's coroutine runs on and its clock goes on; nothing is assumed *)
(* of the adapter.                                                         *)
ElmSpec == ElmInit /\ [][ElmNext]_vars /\ WF_vars(Phone)

-----------------------------------------------------------------------------
(* What the session relies on. Whatever the settings, the adapter's        *)
(* answers to the settings hold nothing a reader takes for its own.        *)
AdapterState ==
    {a \in [echo : BOOLEAN, headers : BOOLEAN, spaces : BOOLEAN, honoursS0 : BOOLEAN] :
        a.spaces \/ a.honoursS0}

Ready(honoursS0) ==
    [echo |-> FALSE, headers |-> TRUE, spaces |-> ~honoursS0, honoursS0 |-> honoursS0]

TalkIsNoData ==
    \A i \in DOMAIN InitSequence, state \in AdapterState :
        LET bytes == Sanitized(Answer(InitSequence[i], state))
        IN  /\ ~WellFormedVin(bytes)
            /\ \A s \in {"03", "07", "0A"} : IndexOf(bytes, ResponseSid(s)) = 0

(* Set up as the session does it, an adapter that leaves the spaces in is  *)
(* read for what it says about the vehicle; one that leaves them out is    *)
(* not even read for a VIN.                                                *)
Reading(cmd) == Sanitized(Answer(cmd, Ready(FALSE)))

AnswersAreRead ==
    /\ ~WellFormedVin(Sanitized(Answer(<< "09", "02" >>, Ready(TRUE))))
    /\ LET bytes == Reading(<< "09", "02" >>) IN WellFormedVin(bytes) /\ VinIn(bytes) = Vehicle.vin
    /\ \A s \in {"03", "07", "0A"} :
          LET bytes == Reading(<< s >>)
          IN  /\ IndexOf(bytes, ResponseSid(s)) # 0
              /\ ToSet(DtcsIn(bytes, ResponseSid(s))) = ToSet(Stored(s))
    /\ \A plan \in Plans : \A pid \in ToSet(PidsToRead(plan)) :
          LET bytes == Reading(<< "01", pid >>)
          IN  IF pid \in Supported THEN AnswersPid(bytes, pid) /\ PidValue(bytes) = PidBytes(pid)
              ELSE ~AnswersPid(bytes, pid)

(* All that a finished scan reports was said in answer to the request it   *)
(* is reported for, of this very scan: an answer that came after its time  *)
(* makes scans fail, but is taken for no other's. Of one session object    *)
(* the first ten scans: each can leave one answer more behind, and when as *)
(* many as the commands up to the last codes are left, a scan can take all *)
(* of them for its own (Elm327Session.transact, rx is never emptied).      *)
PublishedInSync ==
    scan.outcome = "published" /\ scans <= LastCodeRead =>
        /\ Len(scan.from) = Len(Commands)
        /\ \A n \in VinRead .. Len(Commands) : scan.from[n] = << << scans, n >> >>

(* A finished scan tells the truth about the vehicle: its VIN, every code  *)
(* with its status and no other, and the value of every PID asked for that *)
(* the vehicle has; so a PID is missing only when the vehicle does not     *)
(* have it ("absent from the map ... test not run", android/elm/README.md).*)
ScanIsTrue ==
    scan.outcome = "published" /\ scans <= LastCodeRead =>
        /\ scan.vin = Vehicle.vin
        /\ scan.evidence = UNION {{<< c, Status(s[1]) >> : c \in ToSet(Stored(s[1]))} : s \in ToSet(CodeReads)}
        /\ scan.values = [p \in ToSet(scan.pids) \cap Supported |-> PidBytes(p)]

(* An answer that did not come in time, in this scan or left over from an  *)
(* earlier one, an adapter or a backend that cannot be reached, or a PID   *)
(* the vehicle has and the phone has no formula for.                       *)
Excused ==
    \/ scan.timedOut \/ scan.behind \/ scan.refused \/ scan.lost
    \/ \E p \in ToSet(scan.pids) \cap Supported : ~Decodable(p, PidBytes(p))

(* A scan fails only for one of these reasons, or at the VIN, because the  *)
(* adapter left out the spaces as the session told it to: of an answer     *)
(* without spaces sanitize (Elm327Protocol.kt:50-69) keeps nothing.        *)
FailsForAReason ==
    scan.outcome = "failed" => Excused \/ (adapter.honoursS0 /\ scan.n = VinRead)

(* Elm327Protocol.kt:18: "spaces off in ECU data (we re-insert them when   *)
(* parsing)", so that the spaces are no reason for a scan to fail. False:  *)
(* nothing re-inserts them.                                                *)
SpacesAreReinserted == scan.outcome = "failed" => Excused

(* Every scan comes to an end, whatever the adapter does or stops doing.   *)
ScanEnds == (scan.at # "idle") ~> (scan.at = "idle")
=============================================================================
