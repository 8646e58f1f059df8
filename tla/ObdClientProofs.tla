-------------------------- MODULE ObdClientProofs ---------------------------
(***************************************************************************)
(* Theorems about the OBD client and its scan, for every list of default   *)
(* PIDs, every allowlist, any vehicle and any number of requests, of late  *)
(* answers and of missed frames.                                           *)
(***************************************************************************)
EXTENDS ObdClient, Lists

(* What may be transmitted: see OnlyAllowlistedSent.                       *)
MaySend(r) ==
    \/ r \in {Vin, NotSent}
    \/ \E j \in DOMAIN DtcServices : r = Dtc(DtcServices[j])
    \/ HasPid(r) /\ r.pid \in Allowlisted

(* The calls. While no answer is left over, each answer is taken by the    *)
(* call it answers.                                                        *)
CallsInv ==
    /\ IsList(asked) /\ \A i \in DOMAIN asked : MaySend(asked[i])
    /\ busy \in BOOLEAN /\ lossy \in BOOLEAN
    /\ returned \subseteq given
    /\ \A a \in given : a \in Answers /\ a.call \in 1 .. Current /\ a.req = asked[a.call]
    /\ outcome.code = "OK" => \E a \in returned : outcome = Ok(a)
    /\ outcome.code = "GARBLED" => lossy
    /\ outcome.code # "FORBIDDEN"

InTime == late = {} /\ ~lossy

InTimeInv ==
    InTime =>
      /\ \A a \in Pending : busy /\ a.call = Current
      /\ busy => \A a \in returned : a.call # Current
      /\ ~busy => \A a \in returned : a.call = Current => outcome = Ok(a)
      /\ outcome.code = "OK" => ~busy /\ \A a \in outcome.answer : a.call = Current

(* Where the client is.                                                    *)
IsScan(s) ==
    /\ s = [vin |-> s.vin, dtc |-> s.dtc, incomplete |-> s.incomplete,
             slots |-> s.slots, first |-> s.first]
    /\ s.dtc = [i \in DOMAIN DtcServices |-> s.dtc[i]]

PlaceInv ==
    /\ st \in {"idle", "gate", "wait"}
    /\ op \in Ops \cup {Unknown} /\ ops \in Seq(Ops) /\ Len(ops) <= MaxOps
    /\ st # "idle" => op \in Ops /\ Dispatched(op) /\ at \in DOMAIN Program(op)
    /\ st # "wait" => ~busy
    /\ st = "wait" => /\ Current # 0
                      /\ \/ asked[Current] = Request
                         \/ ~busy /\ outcome = Error("TIMEOUT")
    /\ IsScan(scan) /\ scan.slots \in Seq(Slots) /\ Len(scan.slots) <= Len(DefaultPids)
    /\ st # "idle" => reply = NoReply

(* What a scan has collected before read n of its program.                 *)
Collected(s, n) ==
    /\ s.vin \subseteq returned
    /\ \A i \in DOMAIN DtcServices : s.dtc[i] \subseteq returned
    /\ n > 4 => Len(s.slots) <= n - 5
    /\ n <= 4 => s.slots = << >>

(* Its fields come from answers to what they stand for, and empty lists    *)
(* are accounted for.                                                      *)
Attributed(s, n) ==
    /\ \A a \in s.vin : a.req = Vin
    /\ n > 1 => s.vin # {}
    /\ \A i \in DOMAIN DtcServices : \A a \in s.dtc[i] : a.req = Dtc(DtcServices[i])
    /\ \A i \in DOMAIN s.slots :
         s.slots[i].present => \E a \in s.slots[i].from : a.req = Live(s.slots[i].pid)
    /\ s.incomplete \in BOOLEAN
    /\ s.incomplete <=> \E i \in DOMAIN DtcServices : i + 1 < n /\ s.dtc[i] = {}
    /\ \A i \in DOMAIN DtcServices : i + 1 >= n => s.dtc[i] = {}

(* Its answers are to its own calls, and what is absent was not answered.  *)
Timely(s) ==
    /\ s.first \in Nat
    /\ \A a \in s.vin : a.call >= s.first
    /\ \A i \in DOMAIN DtcServices : \A a \in s.dtc[i] : a.call >= s.first
    /\ \A i \in DOMAIN s.slots :
         /\ \A a \in s.slots[i].from : a.call >= s.first
         /\ s.slots[i].call \in 1 .. Current
         /\ st = "wait" => s.slots[i].call # Current \/ ~busy
         /\ ~s.slots[i].present => ~GoodAnswerTo(s.slots[i].call)

ScanInv(s, n) ==
    /\ Collected(s, n)
    /\ ~lossy => Attributed(s, n)
    /\ InTime => Timely(s)

ObdInv ==
    /\ CallsInv /\ InTimeInv /\ PlaceInv
    /\ st # "idle" => /\ ScanInv(scan, at)
                      /\ scan.first \in Nat /\ scan.first <= Current + 1
                      /\ st = "wait" => scan.first <= Current
    /\ Published => /\ ScanInv(reply.scan, Len(ScanProgram) + 1)
                    /\ IsScan(reply.scan) /\ reply.scan.slots \in Seq(Slots)

-----------------------------------------------------------------------------
(* The programs.                                                           *)
LEMMA DtcFacts == DOMAIN DtcServices = 1 .. 3 /\ Len(DtcServices) = 3
  BY DEF DtcServices

LEMMA PidFacts ==
    /\ Len(DefaultPids) \in Nat /\ DOMAIN DefaultPids = 1 .. Len(DefaultPids)
  BY ObdAssumption, LenProperties

LEMMA ScanProgramIs ==
    /\ DOMAIN ScanProgram = 1 .. Len(ScanProgram) /\ Len(ScanProgram) = Len(DefaultPids) + 4
    /\ ScanProgram[1] = Vin
    /\ \A i \in 1 .. 3 : ScanProgram[i + 1] = Dtc(DtcServices[i])
    /\ \A j \in 1 .. Len(DefaultPids) : ScanProgram[j + 4] = Live(DefaultPids[j])
  <1> DEFINE n == Len(DefaultPids)
             dtcs == [i \in 1 .. 3 |-> Dtc(DtcServices[i])]
             lives == [j \in 1 .. n |-> Live(DefaultPids[j])]
             R == {Vin} \cup {dtcs[i] : i \in 1 .. 3} \cup {lives[j] : j \in 1 .. n}
  <1>1. n \in Nat /\ DOMAIN DefaultPids = 1 .. n /\ DOMAIN DtcServices = 1 .. 3
    BY PidFacts, DtcFacts
  <1>2. ScanProgram = << Vin >> \o dtcs \o lives
    BY <1>1 DEF ScanProgram
  <1>3. /\ << Vin >> \in Seq(R) /\ Len(<< Vin >>) = 1 /\ << Vin >>[1] = Vin
    OBVIOUS
  <1>4. dtcs \in Seq(R) /\ Len(dtcs) = 3
    OBVIOUS
  <1>5. lives \in Seq(R) /\ Len(lives) = n
    BY <1>1
  <1> HIDE DEF R, n
  <1> HIDE DEF dtcs, lives
  <1> DEFINE one == << Vin >>
             front == one \o dtcs
  <1>6. front \in Seq(R) /\ IsJoined(front, one, dtcs)
    <2> HIDE DEF one
    <2>1. one \in Seq(R)
      BY <1>3 DEF one
    <2> QED BY <1>4, <2>1, Joined, Zenon
  <1> HIDE DEF front
  <1> DEFINE prog == front \o lives
  <1>7. IsJoined(prog, front, lives)
    BY <1>5, <1>6, Joined, Zenon
  <1>8. ScanProgram = prog
    BY <1>2 DEF front
  <1> HIDE DEF prog, one
  <1>9. Len(one) = 1 /\ one[1] = Vin
    BY <1>3 DEF one
  <1>10. /\ Len(front) = 4 /\ front[1] = Vin
         /\ \A i \in 1 .. 3 : front[i + 1] = dtcs[i]
    BY <1>4, <1>6, <1>9 DEF IsJoined
  <1>11. /\ Len(prog) = n + 4 /\ DOMAIN prog = 1 .. n + 4 /\ prog[1] = Vin
         /\ \A i \in 1 .. 3 : prog[i + 1] = dtcs[i]
         /\ \A j \in 1 .. n : prog[j + 4] = lives[j]
    BY <1>1, <1>5, <1>7, <1>10 DEF IsJoined
  <1> QED
    BY <1>8, <1>11 DEF dtcs, lives, n

(* The read at each place of a program.                                    *)
LEMMA RequestIs ==
    ASSUME op \in Ops, Dispatched(op), at \in DOMAIN Program(op)
    PROVE  /\ op = Scan =>
                 /\ at \in 1 .. Len(DefaultPids) + 4
                 /\ at = 1 => Request = Vin
                 /\ at \in 2 .. 4 => at - 1 \in DOMAIN DtcServices /\ Request = Dtc(DtcServices[at - 1])
                 /\ at > 4 => at - 4 \in DOMAIN DefaultPids /\ Request = Live(DefaultPids[at - 4])
           /\ op # Scan => at = 1 /\ Request = op.req
           /\ Request = Req(Request.svc, Request.pid)
           /\ \/ Request = Vin \/ HasPid(Request)
              \/ \E i \in DOMAIN DtcServices : Request = Dtc(DtcServices[i])
  <1>1. CASE op = Scan
    <2>1. at \in 1 .. Len(DefaultPids) + 4 /\ Request = ScanProgram[at]
      BY <1>1, ScanProgramIs DEF Program, Request
    <2>2. at = 1 => Request = Vin
      BY <2>1, ScanProgramIs
    <2>3. ASSUME at \in 2 .. 4
          PROVE  at - 1 \in DOMAIN DtcServices /\ Request = Dtc(DtcServices[at - 1])
      <3>1. at - 1 \in 1 .. 3 /\ (at - 1) + 1 = at
        BY <2>3
      <3> QED BY <2>1, <3>1, ScanProgramIs, DtcFacts
    <2>4. ASSUME at > 4
          PROVE  at - 4 \in DOMAIN DefaultPids /\ Request = Live(DefaultPids[at - 4])
      <3>1. at - 4 \in 1 .. Len(DefaultPids) /\ (at - 4) + 4 = at
        BY <2>1, <2>4, PidFacts
      <3> QED BY <2>1, <3>1, ScanProgramIs, PidFacts
    <2>5. at = 1 \/ at \in 2 .. 4 \/ at > 4
      BY <2>1, PidFacts
    <2>6. /\ Request = Req(Request.svc, Request.pid)
          /\ \/ Request = Vin \/ HasPid(Request)
             \/ \E i \in DOMAIN DtcServices : Request = Dtc(DtcServices[i])
      BY <2>2, <2>3, <2>4, <2>5 DEF Vin, Dtc, Live, Req, HasPid
    <2> QED BY <1>1, <2>1, <2>2, <2>3, <2>4, <2>6
  <1>2. CASE op # Scan
    <2>1. Program(op) = << op.req >> /\ at = 1 /\ Request = op.req
      BY <1>2 DEF Program, Request
    <2>2. op \in Ops \ {Scan, Unknown}
      BY <1>2 DEF Dispatched
    <2>3. /\ op = Read(Req(op.req.svc, op.req.pid))
          /\ \/ op.req = Vin \/ HasPid(op.req)
             \/ \E i \in DOMAIN DtcServices : op.req = Dtc(DtcServices[i])
      BY <2>2, ObdAssumption
    <2>4. op.req = Req(op.req.svc, op.req.pid)
      BY <2>3 DEF Read
    <2> QED BY <1>2, <2>1, <2>3, <2>4
  <1> QED
    BY <1>1, <1>2

-----------------------------------------------------------------------------
(* What the vehicle and the end of a call do: answers and faults are only  *)
(* added, the client stays where it is.                                    *)
Meanwhile ==
    /\ UNCHANGED << clientVars, asked >>
    /\ given \subseteq given' /\ returned \subseteq returned'
    /\ busy' => busy
    /\ ~busy => outcome' = outcome
    /\ lossy => lossy'
    /\ InTime' => /\ InTime
                  /\ \A a \in given' \ given : busy' /\ a.call = Current

LEMMA CurrentIs ==
    ASSUME CallsInv
    PROVE  Current \in Nat /\ DOMAIN asked = 1 .. Current
  BY LenProperties DEF CallsInv, IsList, Current

LEMMA Typed ==
    ASSUME NEW S, NEW T, S \subseteq T, NEW s \in Seq(S)
    PROVE  s \in Seq(T)
  OBVIOUS

LEMMA SlotsGrow ==
    ASSUME given \subseteq given'
    PROVE  Slots \subseteq Slots'
  BY DEF Slots

(* A scan's record stays what it is.                                       *)
LEMMA ScanStays ==
    ASSUME ObdInv, Meanwhile, NEW s, NEW n, ScanInv(s, n)
    PROVE  ScanInv(s, n)'
  <1>1. Collected(s, n)'
    BY DEF ScanInv, Collected, Meanwhile
  <1>2. ~lossy' => Attributed(s, n)'
    BY DEF ScanInv, Attributed, Meanwhile
  <1>3. ASSUME InTime' PROVE Timely(s)'
    <2>1. InTime /\ Timely(s) /\ Current' = Current /\ st' = st /\ (busy' => busy)
          /\ \A a \in given' \ given : busy' /\ a.call = Current
      BY <1>3 DEF ScanInv, Meanwhile, Current, clientVars
    <2>2. st # "wait" => ~busy
      BY DEF ObdInv, PlaceInv
    <2>3. \A i \in DOMAIN s.slots :
            /\ st' = "wait" => s.slots[i].call # Current' \/ ~busy'
            /\ ~s.slots[i].present => ~GoodAnswerTo(s.slots[i].call)'
      BY <2>1, <2>2 DEF Timely, GoodAnswerTo
    <2> QED
      BY <2>1, <2>3 DEF Timely
  <1> QED
    BY <1>1, <1>2, <1>3 DEF ScanInv

LEMMA MeanwhileKeeps ==
    ASSUME ObdInv, Meanwhile, CallsInv', InTimeInv'
    PROVE  ObdInv'
  <1>1. /\ st' = st /\ op' = op /\ at' = at /\ scan' = scan /\ reply' = reply /\ ops' = ops
        /\ Current' = Current /\ asked' = asked
    BY DEF Meanwhile, clientVars, Current
  <1>2. Request' = Request /\ Program(op)' = Program(op) /\ Dispatched(op)' = Dispatched(op)
    BY <1>1 DEF Request, Program, Dispatched
  <1>3. ASSUME NEW s \in Seq(Slots) PROVE s \in Seq(Slots')
    <2>1. Slots \subseteq Slots'
      BY SlotsGrow DEF Meanwhile
    <2> QED BY <2>1, Typed
  <1>4. PlaceInv'
    <2>1. PlaceInv /\ CallsInv
      BY DEF ObdInv
    <2>2. st # "wait" => ~busy'
      BY <2>1 DEF PlaceInv, Meanwhile
    <2>3. st = "wait" => /\ Current # 0
                         /\ \/ asked[Current] = Request
                            \/ ~busy' /\ outcome' = Error("TIMEOUT")
      BY <2>1 DEF PlaceInv, Meanwhile
    <2>4. IsScan(scan)' /\ scan.slots \in Seq(Slots')
      BY <1>1, <1>3, <2>1 DEF PlaceInv, IsScan
    <2> QED
      BY <1>1, <1>2, <2>1, <2>2, <2>3, <2>4 DEF PlaceInv, Error, NoReply
  <1>5. st # "idle" => ScanInv(scan, at)'
    <2>1. ASSUME st # "idle" PROVE ScanInv(scan, at)'
      <3> PICK s, n : s = scan /\ n = at
        OBVIOUS
      <3>1. ScanInv(s, n)
        BY <2>1 DEF ObdInv
      <3>2. ScanInv(s, n)'
        BY <3>1, ScanStays
      <3> QED BY <1>1, <3>2
    <2> QED BY <2>1
  <1>6. Published => ScanInv(reply.scan, Len(ScanProgram) + 1)'
    <2>1. ASSUME Published PROVE ScanInv(reply.scan, Len(ScanProgram) + 1)'
      <3> PICK s, n : s = reply.scan /\ n = Len(ScanProgram) + 1
        OBVIOUS
      <3>1. ScanInv(s, n)
        BY <2>1 DEF ObdInv
      <3>2. ScanInv(s, n)'
        BY <3>1, ScanStays
      <3> QED BY <1>1, <3>2
    <2> QED BY <2>1
  <1>7. Published => IsScan(reply.scan)' /\ reply.scan.slots \in Seq(Slots')
    BY <1>1, <1>3 DEF ObdInv, IsScan
  <1> QED
    BY <1>1, <1>4, <1>5, <1>6, <1>7 DEF ObdInv, Published

(* Nothing is left over: what is pending answers the call in progress.     *)
LEMMA Remembered ==
    ASSUME Remember, late' = {}
    PROVE  late = {} /\ \A a \in Pending' : busy' /\ a.call = Current'
  BY DEF Remember, LeftOver

LEMMA SayStep ==
    ASSUME ObdInv, NEW a \in Answers, EcuSays(a), Remember
    PROVE  ObdInv'
  <1>1. /\ a.call \in DOMAIN asked /\ a.req = asked[a.call] /\ a \notin given
        /\ given' = given \cup {a}
        /\ UNCHANGED << clientVars, asked, busy, returned, outcome, lossy >>
    BY DEF EcuSays, Say, Fresh
  <1>2. CallsInv /\ InTimeInv /\ Current' = Current
    BY <1>1 DEF ObdInv, Current
  <1>3. CallsInv'
    BY <1>1, <1>2, CurrentIs DEF CallsInv
  <1>4. InTime' => InTime /\ \A b \in Pending' : busy' /\ b.call = Current'
    BY <1>1, Remembered DEF InTime
  <1>5. InTimeInv'
    BY <1>1, <1>2, <1>4 DEF InTimeInv
  <1>6. a \in Pending'
    BY <1>1, <1>2 DEF Pending, CallsInv
  <1>7. Meanwhile
    BY <1>1, <1>2, <1>4, <1>6 DEF Meanwhile
  <1> QED
    BY <1>3, <1>5, <1>7, MeanwhileKeeps

LEMMA EndStep ==
    ASSUME ObdInv, CallEnds, Remember
    PROVE  ObdInv'
  <1>1. /\ busy /\ ~busy' /\ busy' \in BOOLEAN /\ UNCHANGED << clientVars, asked, given, lossy >>
        /\ \/ outcome' \in {Error("TIMEOUT"), Error("PROTOCOL")} /\ returned' = returned
           \/ \E a \in Pending : outcome' = Ok(a) /\ returned' = returned \cup {a}
           \/ /\ lossy /\ outcome' = Error("GARBLED")
              /\ \E gone \in SUBSET Pending : returned' = returned \cup gone
    BY DEF CallEnds, CallTimesOut, GiveUp, Return, Refuse, Garble, Ends
  <1>2. CallsInv /\ InTimeInv /\ Current' = Current
    BY <1>1 DEF ObdInv, Current
  <1>3. returned \subseteq returned' /\ returned' \subseteq given
    BY <1>1, <1>2 DEF CallsInv, Pending
  <1>4. outcome'.code = "OK" => \E a \in Pending : outcome' = Ok(a) /\ returned' = returned \cup {a}
    BY <1>1 DEF Error
  <1>5. (outcome'.code = "GARBLED" => lossy) /\ outcome'.code # "FORBIDDEN"
    BY <1>1 DEF Error, Ok
  <1>6. CallsInv'
    BY <1>1, <1>2, <1>3, <1>4, <1>5 DEF CallsInv
  <1>7. InTime' => InTime /\ Pending' = {}
    BY <1>1, Remembered DEF InTime
  <1>8. ASSUME InTime'
        PROVE  /\ \A a \in returned' : a.call = Current => outcome' = Ok(a)
               /\ outcome'.code = "OK" => \A a \in outcome'.answer : a.call = Current
    <2>1. InTime /\ ~lossy
      BY <1>1, <1>8, <1>7 DEF InTime
    <2>2. \A a \in returned : a.call # Current
      BY <1>1, <1>2, <2>1 DEF InTimeInv
    <2>3. \A a \in Pending : a.call = Current
      BY <1>2, <2>1 DEF InTimeInv
    <2> QED BY <1>1, <1>4, <2>1, <2>2, <2>3 DEF Ok
  <1>9. InTimeInv'
    BY <1>1, <1>2, <1>7, <1>8 DEF InTimeInv
  <1>10. Meanwhile
    BY <1>1, <1>3, <1>7 DEF Meanwhile
  <1> QED
    BY <1>6, <1>9, <1>10, MeanwhileKeeps

LEMMA MissStep ==
    ASSUME ObdInv, FrameMissed, Remember
    PROVE  ObdInv'
  <1>1. /\ lossy' = TRUE /\ UNCHANGED << clientVars, asked, busy, returned, outcome >>
        /\ \/ given' = given
           \/ \E a \in Answers : /\ a.call \in DOMAIN asked /\ a.req = asked[a.call]
                                 /\ given' = given \cup {a}
    BY DEF FrameMissed, Miss, Fresh
  <1>2. CallsInv /\ Current' = Current
    BY <1>1 DEF ObdInv, Current
  <1>3. CallsInv'
    BY <1>1, <1>2, CurrentIs DEF CallsInv
  <1>4. ~InTime'
    BY <1>1 DEF InTime
  <1>5. InTimeInv' /\ Meanwhile
    BY <1>1, <1>4 DEF InTimeInv, Meanwhile
  <1> QED
    BY <1>3, <1>5, MeanwhileKeeps

-----------------------------------------------------------------------------
(* What a read's verdict says of the answers.                              *)
VerdictOk(v) ==
    /\ v.from \subseteq returned
    /\ v.rc = "FORBIDDEN" => HasPid(Request)
    /\ v.rc # "FORBIDDEN" => st = "wait"
    /\ v.rc = "OK" /\ ~lossy => \E a \in returned : v.from = {a} /\ a.req = Request
    /\ InTime => /\ \A a \in v.from : a.call = Current
                 /\ v.rc \notin {"OK", "FORBIDDEN"} => ~GoodAnswerTo(Current)

LEMMA GateVerdict ==
    ASSUME Gated
    PROVE  VerdictOk(Verdict("FORBIDDEN", {}))
  BY DEF VerdictOk, Verdict, Gated

LEMMA DecodedIs ==
    ASSUME NEW r, NEW from
    PROVE  /\ Decoded(r, from).from = from
           /\ Decoded(r, from).rc # "OK" => Decoded(r, from).rc = "FORBIDDEN" /\ HasPid(r)
  BY DEF Decoded, Verdict

LEMMA CallVerdict ==
    ASSUME ObdInv, st = "wait", ~busy, NEW v \in Verdicts(Request)
    PROVE  VerdictOk(v)
  <1>1. CallsInv /\ InTimeInv /\ PlaceInv /\ Current # 0
    BY DEF ObdInv, PlaceInv
  <1>2. Current \in Nat /\ DOMAIN asked = 1 .. Current /\ Current \in DOMAIN asked
    BY <1>1, CurrentIs
  <1>3. CASE outcome.code = "GARBLED"
    <2>1. lossy /\ ~InTime
      BY <1>1, <1>3 DEF CallsInv, InTime
    <2>2. v \in {Verdict("PROTOCOL", {}), Decoded(Request, {})}
      BY <1>3 DEF Verdicts
    <2>3. v.from = {} /\ (v.rc = "FORBIDDEN" => HasPid(Request))
      BY <2>2, DecodedIs DEF Verdict
    <2> QED BY <2>1, <2>3 DEF VerdictOk
  <1>4. CASE outcome.code = "OK"
    <2> PICK a \in returned : outcome = Ok(a)
      BY <1>1, <1>4 DEF CallsInv
    <2>1. outcome.answer = {a} /\ a \in Answers /\ a.req = asked[a.call] /\ a.call \in 1 .. Current
      BY <1>1 DEF Ok, CallsInv
    <2>2. v = IF Echoes(a, Request) /\ a.body = "good"
              THEN Decoded(Request, {a}) ELSE Verdict("PROTOCOL", {})
      BY <1>4, <2>1 DEF Verdicts
    <2>3. asked[Current] = Request
      BY <1>1, <1>4 DEF PlaceInv, Error
    <2>4. a.req = Req(a.req.svc, a.req.pid) /\ Request = Req(Request.svc, Request.pid)
      BY <1>1, <2>1, ObdAssumption, RequestIs DEF PlaceInv
    <2>5. Echoes(a, Request) => a.req = Request
      BY <2>4 DEF Echoes
    <2>6. CASE Echoes(a, Request) /\ a.body = "good"
      <3>1. v = Decoded(Request, {a})
        BY <2>2, <2>6
      <3>2. v.from = {a} /\ (v.rc # "OK" => v.rc = "FORBIDDEN" /\ HasPid(Request))
        BY <3>1, DecodedIs
      <3>3. InTime => a.call = Current
        BY <1>1, <1>4, <2>1 DEF InTimeInv
      <3> QED BY <2>5, <2>6, <3>2, <3>3 DEF VerdictOk
    <2>7. CASE ~(Echoes(a, Request) /\ a.body = "good")
      <3>1. v.from = {} /\ v.rc = "PROTOCOL"
        BY <2>2, <2>7 DEF Verdict
      <3>2. ASSUME InTime PROVE ~GoodAnswerTo(Current)
        <4>1. SUFFICES ASSUME NEW b \in given, b.call = Current, b.body = "good" PROVE FALSE
          BY DEF GoodAnswerTo
        <4>2. b \in returned
          BY <1>1, <3>2 DEF InTimeInv, Pending
        <4>3. outcome = Ok(b)
          BY <1>1, <3>2, <4>1, <4>2 DEF InTimeInv
        <4>4. a = b
          BY <4>3 DEF Ok
        <4>5. a.req = Request
          BY <2>1, <2>3, <4>1, <4>4
        <4> QED BY <2>7, <4>1, <4>4, <4>5 DEF Echoes
      <3> QED BY <3>1, <3>2 DEF VerdictOk
    <2> QED BY <2>6, <2>7
  <1>5. CASE outcome.code \notin {"OK", "GARBLED"}
    <2>1. v = Verdict(outcome.code, {})
      BY <1>5 DEF Verdicts
    <2>2. v.from = {} /\ v.rc = outcome.code
      BY <2>1 DEF Verdict
    <2>3. ASSUME InTime PROVE ~GoodAnswerTo(Current)
      <3>1. SUFFICES ASSUME NEW b \in given, b.call = Current PROVE FALSE
        BY DEF GoodAnswerTo
      <3>2. b \in returned
        BY <1>1, <2>3 DEF InTimeInv, Pending
      <3>3. outcome = Ok(b)
        BY <1>1, <2>3, <3>1, <3>2 DEF InTimeInv
      <3> QED BY <1>5, <3>3 DEF Ok
    <2>4. outcome.code # "FORBIDDEN"
      BY <1>1 DEF CallsInv
    <2> QED BY <1>5, <2>2, <2>3, <2>4 DEF VerdictOk
  <1> QED
    BY <1>3, <1>4, <1>5

-----------------------------------------------------------------------------
(* The scan's record after a read.                                         *)
IsSlot(s, v) ==
    s = [pid |-> DefaultPids[at - 4], present |-> v.rc = "OK",
         call |-> Current, from |-> v.from]

IsRecord(r, v) ==
    /\ IsScan(r) /\ r.first = scan.first
    /\ r.vin = IF at = 1 THEN v.from ELSE scan.vin
    /\ \A i \in DOMAIN DtcServices :
         r.dtc[i] = IF i + 1 = at /\ v.rc = "OK" THEN v.from ELSE scan.dtc[i]
    /\ IF at \in 2 .. 4 /\ v.rc # "OK" THEN r.incomplete = TRUE
                                       ELSE r.incomplete = scan.incomplete
    /\ at <= 4 \/ v.rc = "FORBIDDEN" => r.slots = scan.slots
    /\ at > 4 /\ v.rc # "FORBIDDEN" =>
         \E s : IsSlot(s, v) /\ r.slots = Append(scan.slots, s)

(* A step of the scan's program that has a verdict.                        *)
Scanning(v) ==
    /\ st # "idle" /\ op = Scan
    /\ VerdictOk(v)
    /\ at = 1 => v.rc = "OK"

LEMMA RecordIs ==
    ASSUME ObdInv, NEW v, Scanning(v)
    PROVE  IsRecord(Record(v), v)
  <1>1. /\ at \in 1 .. Len(DefaultPids) + 4 /\ DOMAIN DtcServices = 1 .. 3
        /\ Len(DefaultPids) \in Nat /\ DOMAIN DefaultPids = 1 .. Len(DefaultPids)
        /\ IsScan(scan)
    BY RequestIs, DtcFacts, PidFacts DEF ObdInv, PlaceInv, Scanning
  <1>2. /\ Len(DtcServices) = 3 /\ at \in Nat
        /\ (at - 1 \in 1 .. 3) <=> (at \in 2 .. 4)
        /\ (at - 1 - 3 \in DOMAIN DefaultPids) <=> (at > 4) /\ at - 1 - 3 = at - 4
    BY <1>1, DtcFacts
  <1> PICK vin, dtc, incomplete, slots, first :
           /\ scan = [vin |-> vin, dtc |-> dtc, incomplete |-> incomplete,
                      slots |-> slots, first |-> first]
           /\ dtc = [i \in 1 .. 3 |-> dtc[i]]
    BY <1>1 DEF IsScan
  <1> PICK r : r = Record(v)
    OBVIOUS
  <1>3. DOMAIN scan.dtc = 1 .. 3
    OBVIOUS
  <1>4. ASSUME at = 1 PROVE IsRecord(r, v)
    <2>1. at - 1 \notin DOMAIN DtcServices /\ at - 1 - Len(DtcServices) \notin DOMAIN DefaultPids
      BY <1>1, <1>2, <1>4
    <2>2. r = [scan EXCEPT !.vin = v.from]
      BY <1>4, <2>1 DEF Record
    <2>3. r = [vin |-> v.from, dtc |-> dtc, incomplete |-> incomplete,
               slots |-> slots, first |-> first]
      BY <2>2
    <2> QED BY <1>1, <1>4, <2>3 DEF IsRecord, IsScan
  <1>5. ASSUME at \in 2 .. 4
        PROVE  /\ at # 1 /\ at - 1 \in DOMAIN DtcServices
               /\ at - 1 - Len(DtcServices) \notin DOMAIN DefaultPids
    BY <1>1, <1>2, <1>5
  <1>6. ASSUME at \in 2 .. 4, v.rc = "OK" PROVE IsRecord(r, v)
    <2> PICK d : d = [dtc EXCEPT ![at - 1] = v.from]
      OBVIOUS
    <2>1. r = [scan EXCEPT !.dtc[at - 1] = v.from]
      BY <1>5, <1>6 DEF Record
    <2>2. r = [vin |-> vin, dtc |-> d, incomplete |-> incomplete,
               slots |-> slots, first |-> first]
      BY <2>1
    <2>3. d = [i \in 1 .. 3 |-> d[i]]
      OBVIOUS
    <2>4. \A i \in 1 .. 3 : d[i] = IF i = at - 1 THEN v.from ELSE dtc[i]
      BY <1>1, <1>6
    <2>5. \A i \in 1 .. 3 : i = at - 1 <=> i + 1 = at
      BY <1>1
    <2>6. at # 1 /\ ~(at > 4)
      BY <1>1, <1>6
    <2>7. IsScan(r)
      <3>1. d = [i \in DOMAIN DtcServices |-> d[i]]
        BY <1>1, <2>3
      <3>2. r = [vin |-> r.vin, dtc |-> r.dtc, incomplete |-> r.incomplete,
                 slots |-> r.slots, first |-> r.first]
        BY <2>2
      <3>3. r.dtc = d
        BY <2>2
      <3> QED BY <3>1, <3>2, <3>3, Zenon DEF IsScan
    <2> QED BY <1>1, <1>6, <2>2, <2>4, <2>5, <2>6, <2>7 DEF IsRecord
  <1>7. ASSUME at \in 2 .. 4, v.rc # "OK" PROVE IsRecord(r, v)
    <2>1. r = [scan EXCEPT !.incomplete = TRUE]
      BY <1>5, <1>7 DEF Record
    <2>2. r = [vin |-> vin, dtc |-> dtc, incomplete |-> TRUE,
               slots |-> slots, first |-> first]
      BY <2>1
    <2>3. at # 1 /\ ~(at > 4) /\ r.incomplete = TRUE
      BY <1>1, <1>7, <2>2
    <2>4. IsScan(r) /\ \A i \in 1 .. 3 : r.dtc[i] = scan.dtc[i]
      BY <1>1, <2>2 DEF IsScan
    <2>5. r.first = scan.first /\ r.vin = scan.vin /\ r.slots = scan.slots
      BY <2>2
    <2> QED BY <1>1, <1>7, <2>3, <2>4, <2>5 DEF IsRecord
  <1>8. ASSUME at > 4 PROVE /\ at # 1 /\ at - 1 \notin DOMAIN DtcServices
                            /\ at - 1 - Len(DtcServices) \in DOMAIN DefaultPids
                            /\ at - 1 - Len(DtcServices) = at - 4
    BY <1>1, <1>2, <1>8
  <1>9. ASSUME at > 4, v.rc = "FORBIDDEN" PROVE IsRecord(r, v)
    <2>1. r = scan
      BY <1>8, <1>9 DEF Record
    <2>2. at \notin 2 .. 4 /\ at # 1 /\ \A i \in 1 .. 3 : i + 1 # at
      BY <1>1, <1>9
    <2> QED BY <1>1, <1>9, <2>1, <2>2 DEF IsRecord, IsScan
  <1>10. ASSUME at > 4, v.rc # "FORBIDDEN" PROVE IsRecord(r, v)
    <2> PICK s : IsSlot(s, v)
      BY DEF IsSlot
    <2> PICK more : more = Append(slots, s)
      OBVIOUS
    <2>1. r = [scan EXCEPT !.slots = Append(@, s)]
      BY <1>8, <1>10 DEF Record, IsSlot
    <2>2. r = [vin |-> vin, dtc |-> dtc, incomplete |-> incomplete,
               slots |-> more, first |-> first]
      BY <2>1
    <2>3. at \notin 2 .. 4 /\ at # 1 /\ \A i \in 1 .. 3 : i + 1 # at
      BY <1>1, <1>10
    <2> QED BY <1>1, <1>10, <2>2, <2>3 DEF IsRecord, IsScan
  <1> QED
    BY <1>1, <1>4, <1>6, <1>7, <1>9, <1>10

(* The slots of the record.                                                *)
LEMMA SlotAdded ==
    ASSUME NEW S, NEW s \in Seq(S), NEW e \in S
    PROVE  /\ Append(s, e) \in Seq(S) /\ Len(s) \in Nat /\ Len(Append(s, e)) = Len(s) + 1
           /\ DOMAIN s = 1 .. Len(s) /\ DOMAIN Append(s, e) = 1 .. Len(s) + 1
           /\ \A i \in 1 .. Len(s) : Append(s, e)[i] = s[i]
           /\ Append(s, e)[Len(s) + 1] = e
  <1>1. Append(s, e) \in Seq(S) /\ Len(s) \in Nat
    BY AppendProperties, LenProperties
  <1>2. DOMAIN Append(s, e) = 1 .. Len(Append(s, e)) /\ DOMAIN s = 1 .. Len(s)
    BY <1>1, LenProperties
  <1> QED
    BY <1>1, <1>2, AppendProperties

LEMMA SlotsAfter ==
    ASSUME ObdInv, NEW v, Scanning(v), NEW r, IsRecord(r, v)
    PROVE  /\ r.slots \in Seq(Slots) /\ Len(scan.slots) \in Nat
           /\ DOMAIN scan.slots = 1 .. Len(scan.slots)
           /\ at > 4 /\ v.rc # "FORBIDDEN" =>
                /\ Len(r.slots) = Len(scan.slots) + 1
                /\ DOMAIN r.slots = 1 .. Len(scan.slots) + 1
                /\ \A i \in 1 .. Len(scan.slots) : r.slots[i] = scan.slots[i]
                /\ IsSlot(r.slots[Len(scan.slots) + 1], v)
  <1>1. scan.slots \in Seq(Slots)
    BY DEF ObdInv, PlaceInv
  <1>2. Len(scan.slots) \in Nat /\ DOMAIN scan.slots = 1 .. Len(scan.slots)
    BY <1>1, LenProperties
  <1>3. CASE at <= 4 \/ v.rc = "FORBIDDEN"
    <2>1. at \in Nat
      BY RequestIs, PidFacts DEF ObdInv, PlaceInv, Scanning
    <2> QED BY <1>1, <1>2, <1>3, <2>1 DEF IsRecord
  <1>4. CASE at > 4 /\ v.rc # "FORBIDDEN"
    <2> PICK s : IsSlot(s, v) /\ r.slots = Append(scan.slots, s)
      BY <1>4 DEF IsRecord
    <2>1. at - 4 \in DOMAIN DefaultPids
      BY <1>4, RequestIs DEF ObdInv, PlaceInv, Scanning
    <2>2. Current \in Nat
      BY CurrentIs DEF ObdInv
    <2>3. v.from \subseteq given
      BY DEF ObdInv, CallsInv, Scanning, VerdictOk
    <2>4. s \in Slots
      BY <2>1, <2>2, <2>3 DEF IsSlot, Slots
    <2> QED BY <1>1, <1>2, <1>4, <2>4, SlotAdded
  <1>5. at \in Nat
    BY RequestIs, PidFacts DEF ObdInv, PlaceInv, Scanning
  <1> QED
    BY <1>3, <1>4, <1>5

(* A read adds to the scan what the invariant asks for.                    *)
LEMMA RecordStep ==
    ASSUME ObdInv, ~busy, NEW v, Scanning(v), NEW r, IsRecord(r, v)
    PROVE  /\ ScanInv(r, at + 1)
           /\ r.slots \in Seq(Slots) /\ Len(r.slots) <= Len(DefaultPids)
  <1>1. /\ CallsInv /\ VerdictOk(v) /\ ScanInv(scan, at)
        /\ at \in Nat /\ at >= 1 /\ at <= Len(DefaultPids) + 4 /\ Len(DefaultPids) \in Nat
        /\ DOMAIN DtcServices = 1 .. 3 /\ (at = 1 => v.rc = "OK")
        /\ Current \in Nat
    BY RequestIs, PidFacts, DtcFacts, CurrentIs DEF ObdInv, PlaceInv, Scanning
  <1>2. /\ at = 1 => Request = Vin
        /\ at \in 2 .. 4 => Request = Dtc(DtcServices[at - 1])
        /\ at > 4 => Request = Live(DefaultPids[at - 4])
    BY RequestIs DEF ObdInv, PlaceInv, Scanning
  <1> PICK m : m = Len(scan.slots)
    OBVIOUS
  <1>3. /\ r.slots \in Seq(Slots) /\ m \in Nat /\ DOMAIN scan.slots = 1 .. m
        /\ at <= 4 \/ v.rc = "FORBIDDEN" => r.slots = scan.slots
        /\ at > 4 /\ v.rc # "FORBIDDEN" =>
             /\ Len(r.slots) = m + 1 /\ DOMAIN r.slots = 1 .. m + 1
             /\ \A i \in 1 .. m : r.slots[i] = scan.slots[i]
             /\ IsSlot(r.slots[m + 1], v)
    <2>1. at <= 4 \/ v.rc = "FORBIDDEN" => r.slots = scan.slots
      BY DEF IsRecord
    <2> QED BY <2>1, SlotsAfter
  <1>4. /\ at > 4 => m <= at - 5
        /\ at <= 4 => scan.slots = << >> /\ m = 0
        /\ m <= Len(DefaultPids)
    BY <1>1, EmptyList DEF ScanInv, Collected, ObdInv, PlaceInv
  <1>5. /\ at + 1 > 4 => Len(r.slots) <= at + 1 - 5
        /\ at + 1 <= 4 => r.slots = << >>
        /\ Len(r.slots) <= Len(DefaultPids)
    BY <1>1, <1>3, <1>4
  <1>6. Collected(r, at + 1)
    <2>1. r.vin \subseteq returned
      BY <1>1 DEF IsRecord, ScanInv, Collected, VerdictOk
    <2>2. ASSUME NEW i \in DOMAIN DtcServices PROVE r.dtc[i] \subseteq returned
      BY <1>1 DEF IsRecord, ScanInv, Collected, VerdictOk
    <2> QED BY <1>1, <1>5, <2>1, <2>2 DEF Collected
  <1>7. ASSUME ~lossy PROVE Attributed(r, at + 1)
    <2>1. Attributed(scan, at)
      BY <1>1, <1>7 DEF ScanInv
    <2>2. v.rc = "OK" => v.from # {} /\ \A a \in v.from : a.req = Request
      BY <1>1, <1>7 DEF VerdictOk
    <2>3. (\A a \in r.vin : a.req = Vin) /\ (at + 1 > 1 => r.vin # {})
      <3>1. CASE at = 1
        BY <1>1, <1>2, <2>2, <3>1 DEF IsRecord
      <3>2. CASE at # 1
        BY <1>1, <2>1, <3>2 DEF IsRecord, Attributed
      <3> QED BY <3>1, <3>2
    <2>4. ASSUME NEW i \in DOMAIN DtcServices PROVE \A a \in r.dtc[i] : a.req = Dtc(DtcServices[i])
      <3>1. CASE i + 1 = at /\ v.rc = "OK"
        <4>1. at \in 2 .. 4 /\ at - 1 = i
          BY <1>1, <3>1
        <4> QED BY <1>2, <2>2, <3>1, <4>1 DEF IsRecord
      <3>2. CASE ~(i + 1 = at /\ v.rc = "OK")
        BY <2>1, <3>2 DEF IsRecord, Attributed
      <3> QED BY <3>1, <3>2
    <2>5. ASSUME NEW i \in DOMAIN r.slots, r.slots[i].present
          PROVE  \E a \in r.slots[i].from : a.req = Live(r.slots[i].pid)
      <3>1. CASE i \in DOMAIN scan.slots /\ r.slots[i] = scan.slots[i]
        BY <2>1, <2>5, <3>1 DEF Attributed
      <3>2. CASE at > 4 /\ v.rc # "FORBIDDEN" /\ i = m + 1
        <4>1. IsSlot(r.slots[i], v)
          BY <1>3, <3>2
        <4>2. /\ r.slots[i].present = (v.rc = "OK") /\ r.slots[i].from = v.from
              /\ r.slots[i].pid = DefaultPids[at - 4]
          BY <4>1 DEF IsSlot
        <4>3. v.rc = "OK"
          BY <2>5, <4>2, Zenon
        <4>4. \A a \in v.from : a.req = Live(r.slots[i].pid)
          BY <1>2, <2>2, <3>2, <4>2, <4>3
        <4> QED BY <2>2, <4>2, <4>3, <4>4
      <3>3. \/ i \in DOMAIN scan.slots /\ r.slots[i] = scan.slots[i]
            \/ at > 4 /\ v.rc # "FORBIDDEN" /\ i = m + 1
        BY <1>1, <1>3, <2>5
      <3> QED BY <3>1, <3>2, <3>3
    <2>6. /\ r.incomplete \in BOOLEAN
          /\ r.incomplete <=> \E i \in DOMAIN DtcServices : i + 1 < at + 1 /\ r.dtc[i] = {}
          /\ \A i \in DOMAIN DtcServices : i + 1 >= at + 1 => r.dtc[i] = {}
      <3>1. \A i \in 1 .. 3 : i + 1 = at => r.dtc[i] = IF v.rc = "OK" THEN v.from ELSE {}
        <4>1. \A i \in 1 .. 3 : i + 1 = at => scan.dtc[i] = {}
          BY <1>1, <2>1 DEF Attributed
        <4>2. \A i \in 1 .. 3 : r.dtc[i] = IF i + 1 = at /\ v.rc = "OK" THEN v.from ELSE scan.dtc[i]
          BY <1>1 DEF IsRecord
        <4> QED BY <4>1, <4>2
      <3>2. \A i \in 1 .. 3 : i + 1 # at => r.dtc[i] = scan.dtc[i]
        BY <1>1 DEF IsRecord
      <3>3. \A i \in 1 .. 3 : i + 1 >= at + 1 => r.dtc[i] = {}
        BY <1>1, <2>1, <3>2 DEF Attributed
      <3>4. \A i \in 1 .. 3 : i + 1 < at + 1 <=> i + 1 < at \/ i + 1 = at
        BY <1>1
      <3>5. CASE at \in 2 .. 4 /\ v.rc # "OK"
        <4>1. at - 1 \in 1 .. 3 /\ (at - 1) + 1 = at
          BY <1>1, <3>5
        <4>2. r.incomplete = TRUE /\ r.dtc[at - 1] = {}
          BY <3>1, <3>5, <4>1 DEF IsRecord
        <4> QED BY <1>1, <3>3, <3>4, <4>1, <4>2
      <3>6. CASE ~(at \in 2 .. 4 /\ v.rc # "OK")
        <4>1. r.incomplete = scan.incomplete
          BY <3>6 DEF IsRecord
        <4>2. \A i \in 1 .. 3 : i + 1 = at => r.dtc[i] # {}
          BY <1>1, <2>2, <3>1, <3>6
        <4>3. (\E i \in 1 .. 3 : i + 1 < at + 1 /\ r.dtc[i] = {})
                <=> (\E i \in 1 .. 3 : i + 1 < at /\ scan.dtc[i] = {})
          BY <1>1, <3>2, <3>4, <4>2
        <4> QED BY <1>1, <2>1, <3>3, <4>1, <4>3 DEF Attributed
      <3> QED BY <3>5, <3>6
    <2> QED BY <2>3, <2>4, <2>5, <2>6 DEF Attributed
  <1>8. ASSUME InTime PROVE Timely(r)
    <2>1. Timely(scan) /\ r.first = scan.first
      BY <1>1, <1>8 DEF ScanInv, IsRecord
    <2>2. /\ v.rc # "FORBIDDEN" => scan.first <= Current
          /\ v.rc # "FORBIDDEN" => Current # 0
          /\ \A a \in v.from : a.call = Current
      BY <1>1, <1>8 DEF ObdInv, PlaceInv, VerdictOk
    <2>3. \A a \in r.vin : a.call >= r.first
      BY <1>1, <2>1, <2>2 DEF IsRecord, Timely
    <2>4. \A i \in DOMAIN DtcServices : \A a \in r.dtc[i] : a.call >= r.first
      BY <1>1, <2>1, <2>2 DEF IsRecord, Timely
    <2>5. ASSUME NEW i \in DOMAIN r.slots
          PROVE  /\ \A a \in r.slots[i].from : a.call >= r.first
                 /\ r.slots[i].call \in 1 .. Current
                 /\ ~r.slots[i].present => ~GoodAnswerTo(r.slots[i].call)
      <3>1. CASE i \in DOMAIN scan.slots /\ r.slots[i] = scan.slots[i]
        BY <2>1, <3>1 DEF Timely
      <3>2. CASE at > 4 /\ v.rc # "FORBIDDEN" /\ i = m + 1
        <4>1. IsSlot(r.slots[i], v)
          BY <1>3, <3>2
        <4>2. /\ r.slots[i].present = (v.rc = "OK") /\ r.slots[i].from = v.from
              /\ r.slots[i].call = Current
          BY <4>1 DEF IsSlot
        <4>3. v.rc # "OK" => ~GoodAnswerTo(Current)
          BY <1>1, <1>8, <3>2 DEF VerdictOk
        <4>4. ~r.slots[i].present => ~GoodAnswerTo(r.slots[i].call)
          BY <4>2, <4>3, Zenon
        <4>5. /\ \A a \in r.slots[i].from : a.call >= r.first
              /\ r.slots[i].call \in 1 .. Current
          BY <1>1, <2>1, <2>2, <3>2, <4>2
        <4> QED BY <4>4, <4>5
      <3>3. \/ i \in DOMAIN scan.slots /\ r.slots[i] = scan.slots[i]
            \/ at > 4 /\ v.rc # "FORBIDDEN" /\ i = m + 1
        BY <1>1, <1>3, <2>5
      <3> QED BY <3>1, <3>2, <3>3
    <2> QED BY <2>1, <2>3, <2>4, <2>5 DEF Timely
  <1> QED
    BY <1>3, <1>5, <1>6, <1>7, <1>8 DEF ScanInv

-----------------------------------------------------------------------------
(* The client's steps: first those that make no call.                      *)
LEMMA CallsKept ==
    ASSUME ObdInv, UNCHANGED serviceVars, Remember
    PROVE  CallsInv' /\ InTimeInv' /\ (InTime' => InTime) /\ Current' = Current
  <1>1. CallsInv' /\ Current' = Current
    BY DEF ObdInv, CallsInv, serviceVars, Current
  <1>2. InTime' => InTime
    BY Remembered DEF InTime, serviceVars
  <1>3. InTimeInv'
    BY <1>2 DEF ObdInv, InTimeInv, serviceVars, Pending, Current
  <1> QED
    BY <1>1, <1>2, <1>3

LEMMA ScanQuiet ==
    ASSUME UNCHANGED serviceVars, InTime' => InTime, ~busy, NEW s, NEW n, ScanInv(s, n)
    PROVE  ScanInv(s, n)'
  <1>1. Collected(s, n)' /\ (~lossy' => Attributed(s, n)')
    BY DEF ScanInv, Collected, Attributed, serviceVars
  <1>2. InTime' => Timely(s)'
    BY DEF ScanInv, Timely, GoodAnswerTo, Current, serviceVars
  <1> QED
    BY <1>1, <1>2 DEF ScanInv

LEMMA ReadStep ==
    ASSUME ObdInv, ~busy, st # "idle", NEW v, VerdictOk(v), ReadReturns(v), Remember
    PROVE  ObdInv'
  <1>1. UNCHANGED << serviceVars, op, ops >> /\ given' = given /\ busy' = busy /\ PlaceInv
    BY DEF ReadReturns, serviceVars, ObdInv
  <1>2. CallsInv' /\ InTimeInv' /\ (InTime' => InTime) /\ Current' = Current
    BY <1>1, CallsKept
  <1>3. /\ op \in Ops /\ Dispatched(op) /\ at \in DOMAIN Program(op) /\ reply = NoReply
        /\ Slots' = Slots
    BY <1>1 DEF PlaceInv, Slots
  <1>4. CASE SingleRead(v) \/ ScanAborts(v)
    <2>1. st' = "idle" /\ UNCHANGED << at, scan >> /\ reply'.code # "SCAN"
      BY <1>4 DEF SingleRead, ScanAborts, ReplyTo
    <2>2. PlaceInv'
      BY <1>1, <1>3, <2>1 DEF PlaceInv, IsScan
    <2> QED BY <1>2, <2>1, <2>2 DEF ObdInv, Published
  <1>5. CASE ScanContinues(v)
    <2> PICK r, n : r = Record(v) /\ n = at + 1
      OBVIOUS
    <2>1. /\ op = Scan /\ (at = 1 => v.rc = "OK") /\ scan' = r
          /\ IF at < Len(ScanProgram)
             THEN at' = n /\ st' = "gate" /\ UNCHANGED reply
             ELSE st' = "idle" /\ reply' = [code |-> "SCAN", scan |-> r] /\ UNCHANGED at
      BY <1>5 DEF ScanContinues
    <2>2. Scanning(v)
      BY <2>1 DEF Scanning
    <2>3. IsRecord(r, v)
      BY <2>2, RecordIs
    <2>4. /\ ScanInv(r, n) /\ r.slots \in Seq(Slots) /\ Len(r.slots) <= Len(DefaultPids)
          /\ IsScan(r) /\ r.first = scan.first
      BY <2>2, <2>3, RecordStep DEF IsRecord
    <2>5. ScanInv(r, n)'
      BY <1>1, <1>2, <2>4, ScanQuiet
    <2>6. /\ at \in 1 .. Len(ScanProgram) /\ DOMAIN ScanProgram = 1 .. Len(ScanProgram)
          /\ Len(ScanProgram) \in Nat /\ Program(op) = ScanProgram
      BY <1>3, <2>1, ScanProgramIs, PidFacts DEF Program
    <2>7. IsScan(scan') /\ scan'.slots \in Seq(Slots') /\ Len(scan'.slots) <= Len(DefaultPids)
      BY <1>3, <2>1, <2>4
    <2>8. CASE at < Len(ScanProgram)
      <3>1. at' = n /\ st' = "gate" /\ reply' = reply /\ n \in DOMAIN ScanProgram
        BY <2>1, <2>6, <2>8
      <3>2. Program(op') = ScanProgram
        BY <1>1, <2>6
      <3>3. PlaceInv'
        BY <1>1, <1>3, <2>7, <3>1, <3>2 DEF PlaceInv, IsScan, Dispatched
      <3>4. ScanInv(scan, at)' /\ scan'.first = scan.first
        BY <2>1, <2>4, <2>5, <3>1
      <3> QED BY <1>2, <1>3, <3>1, <3>3, <3>4 DEF ObdInv, Published, NoReply
    <2>9. CASE ~(at < Len(ScanProgram))
      <3>1. st' = "idle" /\ reply' = [code |-> "SCAN", scan |-> r] /\ n = Len(ScanProgram) + 1
        BY <2>1, <2>6, <2>9
      <3>2. PlaceInv'
        BY <1>1, <2>7, <3>1 DEF PlaceInv, IsScan
      <3>3. ScanInv(reply.scan, Len(ScanProgram) + 1)'
        BY <2>5, <3>1
      <3>4. IsScan(reply'.scan) /\ reply'.scan.slots \in Seq(Slots')
        BY <2>1, <2>7, <3>1
      <3> QED BY <1>2, <3>1, <3>2, <3>3, <3>4 DEF ObdInv
    <2> QED BY <2>8, <2>9
  <1> QED
    BY <1>4, <1>5 DEF ReadReturns

LEMMA RefusedStep ==
    ASSUME ObdInv, NEW o \in Ops, Refused(o), Remember
    PROVE  ObdInv'
  <1>1. /\ st = "idle" /\ Len(ops) < MaxOps /\ ops' = Append(ops, o) /\ op' = o
        /\ UNCHANGED << serviceVars, st, at, scan >> /\ reply'.code # "SCAN"
    BY DEF Refused, Within
  <1>2. given' = given /\ busy' = busy /\ Slots' = Slots /\ PlaceInv
    BY <1>1 DEF ObdInv, serviceVars, Slots
  <1>3. CallsInv' /\ InTimeInv'
    BY <1>1, CallsKept
  <1>4. ops' \in Seq(Ops) /\ Len(ops') <= MaxOps
    BY <1>1, <1>2, SlotAdded, ObdAssumption DEF PlaceInv
  <1>5. PlaceInv'
    BY <1>1, <1>2, <1>4 DEF PlaceInv, IsScan
  <1> QED
    BY <1>1, <1>3, <1>5 DEF ObdInv, Published

LEMMA BeginStep ==
    ASSUME ObdInv, NEW o \in Ops, Begin(o), Remember
    PROVE  ObdInv'
  <1> PICK s : s = EmptyScan
    OBVIOUS
  <1>1. /\ st = "idle" /\ Len(ops) < MaxOps /\ ops' = Append(ops, o) /\ op' = o /\ Dispatched(o)
        /\ at' = 1 /\ st' = "gate" /\ scan' = s /\ reply' = NoReply
        /\ UNCHANGED serviceVars
    BY DEF Begin, Within
  <1>2. given' = given /\ busy' = busy /\ Slots' = Slots /\ PlaceInv /\ ~busy
    BY <1>1 DEF ObdInv, serviceVars, Slots, PlaceInv
  <1>3. CallsInv' /\ InTimeInv' /\ (InTime' => InTime) /\ Current' = Current /\ Current \in Nat
    BY <1>1, CallsKept, CurrentIs DEF ObdInv
  <1>4. ops' \in Seq(Ops) /\ Len(ops') <= MaxOps
    BY <1>1, <1>2, SlotAdded, ObdAssumption DEF PlaceInv
  <1>5. /\ IsScan(s) /\ s.vin = {} /\ s.incomplete = FALSE /\ s.slots = << >>
        /\ s.first = Current + 1 /\ \A i \in DOMAIN DtcServices : s.dtc[i] = {}
    BY DEF EmptyScan, IsScan
  <1>6. ScanInv(s, 1)
    <2>1. Collected(s, 1)
      BY <1>5 DEF Collected
    <2>2. Attributed(s, 1)
      <3>1. /\ \A a \in s.vin : a.req = Vin
            /\ \A i \in DOMAIN DtcServices : \A a \in s.dtc[i] : a.req = Dtc(DtcServices[i])
            /\ DOMAIN s.slots = {}
        BY <1>5
      <3>2. s.incomplete \in BOOLEAN /\ ~s.incomplete
        BY <1>5, Zenon
      <3>3. ~\E i \in DOMAIN DtcServices : i + 1 < 1 /\ s.dtc[i] = {}
        BY DtcFacts
      <3> QED BY <1>5, <3>1, <3>2, <3>3 DEF Attributed
    <2>3. Timely(s)
      BY <1>3, <1>5 DEF Timely
    <2> QED BY <2>1, <2>2, <2>3 DEF ScanInv
  <1>7. ScanInv(s, 1)'
    BY <1>1, <1>2, <1>3, <1>6, ScanQuiet
  <1>8. 1 \in DOMAIN Program(o)
    <2>1. DOMAIN ScanProgram = 1 .. Len(DefaultPids) + 4
      BY ScanProgramIs
    <2> QED BY <2>1, PidFacts DEF Program
  <1>9. s.slots \in Seq(Slots') /\ Len(s.slots) <= Len(DefaultPids)
    BY <1>5, PidFacts
  <1>10. PlaceInv'
    BY <1>1, <1>2, <1>4, <1>5, <1>8, <1>9 DEF PlaceInv, IsScan, Dispatched
  <1> QED
    BY <1>1, <1>3, <1>5, <1>7, <1>10 DEF ObdInv, Published, NoReply

(* A call is made, or its request cannot be transmitted.                   *)
LEMMA TransmitStep ==
    ASSUME ObdInv, Transmit, Remember
    PROVE  ObdInv'
  <1> PICK r, c, s, n : /\ c = Current /\ s = scan /\ n = at
                        /\ \/ Ask(Request) /\ r = Request
                           \/ AskFails /\ r = NotSent
    BY DEF Transmit
  <1>1. /\ st = "gate" /\ ~Gated /\ st' = "wait" /\ asked' = Append(asked, r)
        /\ UNCHANGED << op, at, scan, reply, ops, given, returned, lossy >>
        /\ \/ r = Request /\ busy' = TRUE /\ outcome' = Error("NONE")
           \/ busy' = busy /\ outcome' = Error("TIMEOUT")
    BY DEF Transmit, Ask, AskFails
  <1>2. /\ CallsInv /\ InTimeInv /\ PlaceInv /\ ~busy /\ c \in Nat
        /\ op \in Ops /\ Dispatched(op) /\ at \in DOMAIN Program(op) /\ reply = NoReply
        /\ ScanInv(s, n) /\ s.first \in Nat /\ s.first <= c + 1
    BY <1>1, CurrentIs DEF ObdInv, PlaceInv
  <1>3. /\ IsList(asked') /\ Current' = c + 1 /\ DOMAIN asked' = 1 .. c + 1
        /\ \A i \in 1 .. c : asked'[i] = asked[i]
        /\ asked'[c + 1] = r
    <2>1. IsAppended(asked', asked, r)
      BY <1>1, <1>2, Listed, Zenon DEF CallsInv
    <2> QED BY <2>1 DEF IsAppended, Current
  <1>4. MaySend(r)
    <2>1. CASE r = NotSent
      BY <2>1 DEF MaySend
    <2>2. CASE r = Request
      BY <1>1, <1>2, <2>2, RequestIs DEF MaySend, Gated
    <2> QED BY <2>1, <2>2
  <1>5. CallsInv'
    <2>1. \A i \in DOMAIN asked' : MaySend(asked'[i])
      BY <1>2, <1>3, <1>4, CurrentIs DEF CallsInv
    <2>2. \A a \in given : a \in Answers /\ a.call \in 1 .. c + 1 /\ a.req = asked'[a.call]
      BY <1>2, <1>3 DEF CallsInv
    <2>3. outcome'.code \notin {"OK", "GARBLED", "FORBIDDEN"}
      BY <1>1 DEF Error
    <2>4. busy' \in BOOLEAN
      BY <1>1, <1>2 DEF CallsInv
    <2> QED BY <1>1, <1>2, <1>3, <2>1, <2>2, <2>3, <2>4 DEF CallsInv
  <1>6. InTime' => InTime
    BY <1>1, Remembered DEF InTime
  <1>7. InTimeInv'
    <2>1. ASSUME InTime' PROVE Pending' = {}
      BY <1>1, <1>2, <1>6, <2>1 DEF InTimeInv, Pending
    <2>2. \A a \in returned' : a.call # Current'
      <3>1. \A a \in returned : a.call \in 1 .. c
        BY <1>2 DEF CallsInv
      <3> QED BY <1>1, <1>2, <1>3, <3>1
    <2>3. outcome'.code # "OK"
      BY <1>1 DEF Error
    <2> QED BY <2>1, <2>2, <2>3 DEF InTimeInv
  <1>8. Request' = Request /\ Program(op') = Program(op) /\ Slots' = Slots
    BY <1>1 DEF Request, Slots
  <1>9. PlaceInv'
    <2>1. /\ Current' # 0
          /\ \/ asked'[Current'] = Request'
             \/ ~busy' /\ outcome' = Error("TIMEOUT")
      BY <1>1, <1>2, <1>3, <1>8
    <2> QED BY <1>1, <1>2, <1>8, <2>1 DEF PlaceInv, IsScan, Dispatched
  <1>10. ScanInv(s, n)'
    <2>1. Collected(s, n)' /\ (~lossy' => Attributed(s, n)')
      BY <1>1, <1>2 DEF ScanInv, Collected, Attributed
    <2>2. InTime' => Timely(s)'
      <3>1. SUFFICES ASSUME Timely(s) PROVE Timely(s)'
        BY <1>2, <1>6 DEF ScanInv
      <3>2. \A call : GoodAnswerTo(call)' <=> GoodAnswerTo(call)
        BY <1>1 DEF GoodAnswerTo
      <3>3. \A call \in 1 .. c : call \in 1 .. Current' /\ call # Current'
        BY <1>2, <1>3
      <3> QED BY <3>1, <3>2, <3>3 DEF Timely
    <2> QED BY <2>1, <2>2 DEF ScanInv
  <1>11. /\ ScanInv(scan, at)' /\ scan'.first \in Nat
         /\ scan'.first <= Current' /\ scan'.first <= Current' + 1
    BY <1>1, <1>2, <1>3, <1>10
  <1> QED
    BY <1>1, <1>2, <1>3, <1>5, <1>7, <1>9, <1>11 DEF ObdInv, Published, NoReply

-----------------------------------------------------------------------------
LEMMA ObdInit_ObdInv ==
    ASSUME ObdInit
    PROVE  ObdInv
  <1>1. /\ asked = << >> /\ busy = FALSE /\ given = {} /\ returned = {}
        /\ outcome = Error("NONE") /\ lossy = FALSE
        /\ st = "idle" /\ op = Unknown /\ scan = OnTheStack /\ reply = NoReply /\ ops = << >>
    BY DEF ObdInit, ServiceInit
  <1>2. CallsInv /\ InTimeInv
    <2>1. IsList(asked) /\ DOMAIN asked = {}
      BY <1>1, EmptyList
    <2> QED BY <1>1, <2>1 DEF CallsInv, InTimeInv, Error, Pending
  <1>3. IsScan(scan) /\ scan.slots = << >>
    BY <1>1 DEF OnTheStack, EmptyScan, IsScan
  <1>4. PlaceInv
    BY <1>1, <1>3, PidFacts, ObdAssumption DEF PlaceInv
  <1> QED
    BY <1>1, <1>2, <1>4 DEF ObdInv, Published, NoReply

LEMMA ObdNext_ObdInv ==
    ASSUME ObdInv, [ObdNext]_obdVars
    PROVE  ObdInv'
  <1>1. CASE ObdNext
    <2>1. Remember
      BY <1>1 DEF ObdNext
    <2>2. ASSUME NEW o \in Ops, Refused(o) PROVE ObdInv'
      BY <2>1, <2>2, RefusedStep
    <2>3. ASSUME NEW o \in Ops, Begin(o) PROVE ObdInv'
      BY <2>1, <2>3, BeginStep
    <2>4. CASE Transmit
      BY <2>1, <2>4, TransmitStep
    <2>5. CASE GateRefuses
      <3> PICK v : v = Verdict("FORBIDDEN", {})
        OBVIOUS
      <3>1. st # "idle" /\ ~busy /\ VerdictOk(v) /\ ReadReturns(v)
        BY <2>5, GateVerdict DEF GateRefuses, ObdInv, PlaceInv
      <3> QED BY <2>1, <3>1, ReadStep
    <2>6. CASE CallReturned
      <3> PICK v \in Verdicts(Request) : ReadReturns(v)
        BY <2>6 DEF CallReturned
      <3>1. st # "idle" /\ ~busy /\ VerdictOk(v)
        BY <2>6, CallVerdict DEF CallReturned
      <3> QED BY <2>1, <3>1, ReadStep
    <2>7. ASSUME NEW a \in Answers, EcuSays(a) PROVE ObdInv'
      BY <2>1, <2>7, SayStep
    <2>8. CASE CallEnds
      BY <2>1, <2>8, EndStep
    <2>9. CASE FrameMissed
      BY <2>1, <2>9, MissStep
    <2> QED
      BY <1>1, <2>2, <2>3, <2>4, <2>5, <2>6, <2>7, <2>8, <2>9 DEF ObdNext, ClientStep
  <1>2. CASE UNCHANGED obdVars
    <2>1. /\ UNCHANGED << asked, busy, given, returned, outcome, lossy, late >>
          /\ UNCHANGED << st, op, at, scan, reply, ops >>
      BY <1>2 DEF obdVars, serviceVars, clientVars
    <2>2. /\ Current' = Current /\ InTime' = InTime /\ Pending' = Pending
          /\ Request' = Request /\ Slots' = Slots /\ Published' = Published
      BY <2>1 DEF Current, InTime, Pending, Request, Slots, Published
    <2>3. CallsInv' /\ InTimeInv'
      BY <2>1, <2>2 DEF ObdInv, CallsInv, InTimeInv
    <2>4. PlaceInv'
      BY <2>1, <2>2 DEF ObdInv, PlaceInv, IsScan, Program, Dispatched
    <2>5. ASSUME NEW s, NEW n, ScanInv(s, n) PROVE ScanInv(s, n)'
      BY <2>1, <2>2, <2>5 DEF ScanInv, Collected, Attributed, Timely, GoodAnswerTo
    <2> PICK s, r, n, k : s = scan /\ n = at /\ r = reply.scan /\ k = Len(ScanProgram) + 1
      OBVIOUS
    <2>6. /\ st # "idle" => ScanInv(s, n) /\ s.first \in Nat /\ s.first <= Current + 1
          /\ st = "wait" => s.first <= Current
          /\ Published => ScanInv(r, k) /\ IsScan(r) /\ r.slots \in Seq(Slots)
      BY DEF ObdInv, PlaceInv
    <2>7. /\ st # "idle" => ScanInv(s, n)' /\ s.first \in Nat /\ s.first <= Current' + 1
          /\ st = "wait" => s.first <= Current'
          /\ Published => ScanInv(r, k)' /\ IsScan(r) /\ r.slots \in Seq(Slots')
      BY <2>2, <2>5, <2>6
    <2>8. s = scan' /\ n = at' /\ r = reply'.scan
      BY <2>1
    <2> QED BY <2>1, <2>2, <2>3, <2>4, <2>7, <2>8 DEF ObdInv
  <1> QED
    BY <1>1, <1>2

LEMMA ObdSafety == ObdSpec => []ObdInv
  <1> QED BY ObdInit_ObdInv, ObdNext_ObdInv, PTL DEF ObdSpec

(* The client and its scan record keep their shape, one request is served  *)
(* at a time, and a scan only shows answers some call returned.            *)
THEOREM ClientWellFormed == ObdSpec => []ObdTypeOK
  <1>1. ASSUME ObdInv PROVE ObdTypeOK
    <2>1. PlaceInv /\ (st # "idle" => ScanInv(scan, at))
      BY <1>1 DEF ObdInv
    <2>2. st # "idle" =>
            scan.vin \cup (UNION {scan.dtc[i] : i \in DOMAIN DtcServices}) \subseteq returned
      BY <2>1 DEF ScanInv, Collected
    <2> QED BY <2>1, <2>2 DEF PlaceInv, ObdTypeOK
  <1> QED
    BY <1>1, ObdSafety, PTL

(* Only the VIN, the DTC services and allowlisted PIDs are ever requested  *)
(* from the vehicle, though full_scan is not checked by obd_dispatch: the  *)
(* gate in each read is what holds.                                        *)
THEOREM OnlyAllowlisted == ObdSpec => []OnlyAllowlistedSent
  <1>1. ASSUME ObdInv PROVE OnlyAllowlistedSent
    BY <1>1 DEF ObdInv, CallsInv, MaySend, OnlyAllowlistedSent
  <1> QED
    BY <1>1, ObdSafety, PTL

(* Unless frames were missed, every field of a published scan comes from   *)
(* an answer to the request the field stands for, whatever answers came    *)
(* late and were taken by another call.                                    *)
THEOREM ScanAttributed == ObdSpec => []RightlyAttributed
  <1>1. ASSUME ObdInv PROVE RightlyAttributed
    <2> SUFFICES ASSUME Published, ~lossy
                 PROVE  /\ \E a \in reply.scan.vin : a.req = Vin
                        /\ \A i \in DOMAIN DtcServices : \A a \in reply.scan.dtc[i] :
                             a.req = Dtc(DtcServices[i])
                        /\ \A i \in DOMAIN reply.scan.slots :
                             LET s == reply.scan.slots[i] IN
                               s.present => \E a \in s.from : a.req = Live(s.pid)
      BY DEF RightlyAttributed
    <2>1. Attributed(reply.scan, Len(ScanProgram) + 1) /\ Len(ScanProgram) + 1 > 1
      BY <1>1, ScanProgramIs, PidFacts DEF ObdInv, ScanInv
    <2> QED BY <2>1 DEF Attributed
  <1> QED
    BY <1>1, ObdSafety, PTL

(* dtc_incomplete in a published scan is set exactly when one of its DTC   *)
(* lists has no answer behind it.                                          *)
THEOREM IncompleteIsTold == ObdSpec => []IncompleteTold
  <1>1. ASSUME ObdInv PROVE IncompleteTold
    <2> SUFFICES ASSUME Published, ~lossy
                 PROVE  reply.scan.incomplete
                          <=> \E i \in DOMAIN DtcServices : reply.scan.dtc[i] = {}
      BY DEF IncompleteTold
    <2> PICK n : n = Len(ScanProgram) + 1
      OBVIOUS
    <2>1. Attributed(reply.scan, n)
      BY <1>1 DEF ObdInv, ScanInv
    <2>2. \A i \in DOMAIN DtcServices : i + 1 < n
      BY ScanProgramIs, PidFacts, DtcFacts
    <2> QED BY <2>1, <2>2 DEF Attributed
  <1> QED
    BY <1>1, ObdSafety, PTL

(* While every answer came in time, a published scan is all from its own   *)
(* calls, and a PID recorded absent had no usable answer.                  *)
THEOREM PromptIsFresh == ObdSpec => []PromptScanIsFresh
  <1>1. ASSUME ObdInv PROVE PromptScanIsFresh
    <2> SUFFICES ASSUME Published, InTime
                 PROVE  /\ \A a \in ScanSources(reply.scan) : a.call >= reply.scan.first
                        /\ \A i \in DOMAIN reply.scan.slots :
                             ~reply.scan.slots[i].present
                               => ~GoodAnswerTo(reply.scan.slots[i].call)
      BY DEF PromptScanIsFresh, InTime
    <2>1. Timely(reply.scan) /\ DOMAIN reply.scan.dtc = DOMAIN DtcServices
      BY <1>1 DEF ObdInv, ScanInv, IsScan
    <2>2. \A a \in ScanSources(reply.scan) : a.call >= reply.scan.first
      <3> PICK s : s = reply.scan
        OBVIOUS
      <3> SUFFICES ASSUME NEW a \in ScanSources(s) PROVE a.call >= s.first
        OBVIOUS
      <3>1. \/ a \in s.vin
            \/ \E i \in DOMAIN s.dtc : a \in s.dtc[i]
            \/ \E i \in DOMAIN s.slots : a \in s.slots[i].from
        BY Zenon DEF ScanSources
      <3> QED BY <2>1, <3>1 DEF Timely
    <2> QED BY <2>1, <2>2 DEF Timely
  <1> QED
    BY <1>1, ObdSafety, PTL
=============================================================================
