-------------------------- MODULE TransportProofs --------------------------
(***************************************************************************)
(* Theorems about the two ways to a vehicle. The dongle's own transport is *)
(* opened by twai_transport_open: for every vehicle and every failing      *)
(* driver call, the driver is released and the transport is right. Over a  *)
(* commodity adapter it is the phone's Elm327Session: however late answers *)
(* come, and wherever they are cut off, a scan publishes no other's.       *)
(***************************************************************************)
EXTENDS VariantProbe, ElmSession, Lists

Trying == pc \in {"install", "start", "transmit", "listen"}
Opening == pc \in {"open", "open_start", "alloc", "ready"}

(* Which state the driver is in follows from where the function is.        *)
DriverFollows ==
    /\ ~refused
    /\ pc \in {"install", "open", "failed"} => driver = "off"
    /\ pc \in {"start", "open_start"} => driver = "installed"
    /\ pc \in {"transmit", "listen", "alloc", "ready"} => driver = "running"
    /\ pc \in {"start", "transmit", "listen"} => timing = Bitrate(Try)
    /\ pc \in {"open_start", "alloc", "ready"} => timing = Bitrate(winner)

(* A winner is what the one successful try heard.                          *)
Answering(v) ==
    \E f \in vehicle[Bitrate(v)] :
        /\ f.extd = Extended(v) /\ f.id \in RespIds(v)
        /\ f.dlc # 0 /\ f.pci # "OTHER"

WinnerHeard ==
    /\ Trying => answered = {} /\ winner = "none"
    /\ Opening => winner \in Variants /\ answered = {winner} /\ Answering(winner)
    /\ transport # "none" => pc = "ready" /\ transport = winner

IInv == ProbeTypeOK /\ DriverFollows /\ WinnerHeard

-----------------------------------------------------------------------------
LEMMA TryIsVariant ==
    ASSUME ProbeTypeOK
    PROVE  Try \in Variants /\ Bitrate(Try) \in Bitrates
  BY DEF ProbeTypeOK, Try, ProbeVariants, Variants, Bitrate, Bitrates

LEMMA InitIInv == Init => IInv
  <1> SUFFICES ASSUME Init PROVE IInv
    OBVIOUS
  <1>1. ProbeTypeOK
    <2>1. at \in 1 .. Len(ProbeVariants)
      BY DEF Init, ProbeVariants
    <2> QED
      BY <2>1 DEF Init, ProbeTypeOK, Bitrates
  <1>2. DriverFollows
    BY DEF Init, DriverFollows
  <1>3. WinnerHeard
    BY DEF Init, WinnerHeard, Trying, Opening
  <1> QED
    BY <1>1, <1>2, <1>3 DEF IInv

(* An install that fails with the driver off is not one refused.           *)
LEMMA InstallFailsQuietly ==
    ASSUME IInv, InstallFails, driver = "off"
    PROVE  driver' = "off" /\ UNCHANGED << timing, refused >>
  <1>1. refused \in BOOLEAN
    BY DEF IInv, ProbeTypeOK
  <1>2. refused' = refused
    BY <1>1 DEF InstallFails
  <1> QED
    BY <1>2 DEF InstallFails

(* A failed try leaves the driver off and either goes on or gives up.      *)
LEMMA TryFailedStep ==
    ASSUME IInv, Trying, TryFailed, driver' = "off",
           UNCHANGED << timing, refused >>
    PROVE  IInv'
  <1>1. \/ pc' = "install" /\ at' = at + 1 /\ at < Len(ProbeVariants)
        \/ pc' = "failed" /\ UNCHANGED at
    BY DEF TryFailed, NextVariant
  <1>2. at' \in 1 .. Len(ProbeVariants)
    BY <1>1 DEF IInv, ProbeTypeOK, ProbeVariants
  <1>3. UNCHANGED << vehicle, winner, transport, answered >>
    BY DEF TryFailed
  <1>4. ProbeTypeOK'
    BY <1>1, <1>2, <1>3 DEF IInv, ProbeTypeOK
  <1>5. DriverFollows' /\ WinnerHeard'
    BY <1>1, <1>3 DEF IInv, DriverFollows, WinnerHeard, Trying, Opening
  <1> QED
    BY <1>4, <1>5 DEF IInv

(* A failed opening leaves the driver off and returns no transport.        *)
LEMMA OpenFailedStep ==
    ASSUME IInv, pc \in {"open", "open_start", "alloc"}, OpenGoesOn("failed"),
           driver' = "off", UNCHANGED << timing, refused >>
    PROVE  IInv'
  BY DEF IInv, ProbeTypeOK, DriverFollows, WinnerHeard, Trying, Opening, OpenGoesOn

LEMMA ProbeStepIInv ==
    ASSUME IInv, ProbeStep
    PROVE  IInv'
  <1> USE DEF IInv
  <1>1. CASE ProbeInstall
    <2>1. CASE InstallDriver(Try) /\ ProbeGoesOn("start")
      <3>1. Bitrate(Try) \in Bitrates
        BY TryIsVariant
      <3>2. ProbeTypeOK'
        BY <2>1, <3>1 DEF InstallDriver, ProbeGoesOn, ProbeTypeOK
      <3>3. Try' = Try
        BY <2>1 DEF ProbeGoesOn, Try
      <3>4. DriverFollows'
        BY <2>1, <3>3 DEF InstallDriver, ProbeGoesOn, DriverFollows
      <3>5. WinnerHeard'
        BY <1>1, <2>1 DEF ProbeInstall, ProbeGoesOn, WinnerHeard, Trying, Opening
      <3> QED
        BY <3>2, <3>4, <3>5
    <2>2. CASE InstallFails /\ TryFailed
      <3>1. Trying /\ driver = "off"
        BY <1>1 DEF ProbeInstall, Trying, DriverFollows
      <3>2. driver' = "off" /\ UNCHANGED << timing, refused >>
        BY <2>2, <3>1, InstallFailsQuietly
      <3> QED
        BY <2>2, <3>1, <3>2, TryFailedStep
    <2> QED
      BY <1>1, <2>1, <2>2 DEF ProbeInstall
  <1>2. CASE ProbeStart
    <2>1. CASE driver' = "running" /\ UNCHANGED << timing, refused >> /\ ProbeGoesOn("transmit")
      BY <1>2, <2>1
         DEF ProbeStart, ProbeGoesOn, ProbeTypeOK, DriverFollows, WinnerHeard,
             Trying, Opening, Try
    <2>2. CASE Uninstall /\ TryFailed
      BY <1>2, <2>2, TryFailedStep DEF ProbeStart, Uninstall, Trying
    <2> QED
      BY <1>2, <2>1, <2>2 DEF ProbeStart
  <1>3. CASE ProbeTransmit
    <2>1. CASE NoDriverCall /\ ProbeGoesOn("listen")
      BY <1>3, <2>1
         DEF ProbeTransmit, NoDriverCall, ProbeGoesOn, ProbeTypeOK, DriverFollows,
             WinnerHeard, Trying, Opening, Try
    <2>2. CASE Uninstall /\ TryFailed
      BY <1>3, <2>2, TryFailedStep DEF ProbeTransmit, Uninstall, Trying
    <2> QED
      BY <1>3, <2>1, <2>2 DEF ProbeTransmit
  <1>4. CASE ProbeTimeout
    BY <1>4, TryFailedStep DEF ProbeTimeout, Uninstall, Trying
  <1>5. CASE OpenInstall
    <2>1. CASE InstallDriver(winner) /\ OpenGoesOn("open_start")
      <3>1. Bitrate(winner) \in Bitrates
        BY DEF Bitrate, Bitrates
      <3>2. ProbeTypeOK'
        BY <2>1, <3>1 DEF InstallDriver, OpenGoesOn, ProbeTypeOK
      <3>3. DriverFollows'
        BY <2>1 DEF InstallDriver, OpenGoesOn, DriverFollows
      <3>4. WinnerHeard'
        BY <1>5, <2>1
           DEF OpenInstall, OpenGoesOn, WinnerHeard, Trying, Opening, Answering
      <3> QED
        BY <3>2, <3>3, <3>4
    <2>2. CASE InstallFails /\ OpenGoesOn("failed")
      <3>1. pc = "open" /\ driver = "off"
        BY <1>5 DEF OpenInstall, DriverFollows
      <3>2. driver' = "off" /\ UNCHANGED << timing, refused >>
        BY <2>2, <3>1, InstallFailsQuietly
      <3> QED
        BY <2>2, <3>1, <3>2, OpenFailedStep
    <2> QED
      BY <1>5, <2>1, <2>2 DEF OpenInstall
  <1>6. CASE OpenStart
    <2>1. CASE driver' = "running" /\ UNCHANGED << timing, refused >> /\ OpenGoesOn("alloc")
      BY <1>6, <2>1
         DEF OpenStart, OpenGoesOn, ProbeTypeOK, DriverFollows, WinnerHeard,
             Trying, Opening, Answering
    <2>2. CASE Uninstall /\ OpenGoesOn("failed")
      BY <1>6, <2>2, OpenFailedStep DEF OpenStart, Uninstall
    <2> QED
      BY <1>6, <2>1, <2>2 DEF OpenStart
  <1>7. CASE Allocate
    <2>1. CASE /\ pc' = "ready" /\ transport' = winner
               /\ NoDriverCall
               /\ UNCHANGED << vehicle, at, winner, answered >>
      BY <1>7, <2>1
         DEF Allocate, NoDriverCall, ProbeTypeOK, DriverFollows, WinnerHeard,
             Trying, Opening, Answering
    <2>2. CASE Uninstall /\ OpenGoesOn("failed")
      BY <1>7, <2>2, OpenFailedStep DEF Allocate, Uninstall
    <2> QED
      BY <1>7, <2>1, <2>2 DEF Allocate
  <1> QED
    BY <1>1, <1>2, <1>3, <1>4, <1>5, <1>6, <1>7 DEF ProbeStep

(* The response that decides was heard at the variant's bitrate.           *)
LEMMA DetectIInv ==
    ASSUME IInv, NEW f \in Heard, ProbeDetect(f)
    PROVE  IInv'
  <1>1. Try \in Variants
    BY TryIsVariant DEF IInv
  <1>2. f \in vehicle[Bitrate(Try)]
    BY DEF IInv, ProbeDetect, DriverFollows, Heard
  <1>3. winner' = Try /\ vehicle' = vehicle /\ answered' = {Try}
    BY DEF IInv, ProbeDetect, WinnerHeard, Trying
  <1>4. Answering(winner)'
    BY <1>2, <1>3 DEF Answering, ProbeDetect, Plausible
  <1>5. ProbeTypeOK'
    BY <1>1, <1>3 DEF IInv, ProbeTypeOK, ProbeDetect, Uninstall
  <1>6. DriverFollows' /\ WinnerHeard'
    BY <1>1, <1>3, <1>4
       DEF IInv, ProbeDetect, Uninstall, DriverFollows, WinnerHeard, Trying, Opening
  <1> QED
    BY <1>5, <1>6 DEF IInv

LEMMA NextIInv == IInv /\ [Next]_probeVars => IInv'
  <1> SUFFICES ASSUME IInv, [Next]_probeVars PROVE IInv'
    OBVIOUS
  <1>1. CASE ProbeStep
    BY <1>1, ProbeStepIInv
  <1>2. CASE \E f \in Heard : ProbeDetect(f)
    BY <1>2, DetectIInv
  <1>3. CASE UNCHANGED probeVars
    BY <1>3 DEF probeVars, IInv, ProbeTypeOK, DriverFollows, WinnerHeard, Trying,
               Opening, Answering, Try
  <1> QED
    BY <1>1, <1>2, <1>3 DEF Next, ProbeSkip

LEMMA ProbeIInv == ProbeSpec => []IInv
  BY InitIInv, NextIInv, PTL DEF ProbeSpec

-----------------------------------------------------------------------------
THEOREM ProbeTypeCorrect == ProbeSpec => []ProbeTypeOK
  <1>1. IInv => ProbeTypeOK
    BY DEF IInv
  <1> QED
    BY <1>1, ProbeIInv, PTL

(* Whichever driver calls fail, no driver is left behind.                  *)
THEOREM DriverIsReleased == ProbeSpec => []DriverReleased
  <1>1. IInv => DriverReleased
    BY DEF IInv, DriverFollows, DriverReleased
  <1> QED
    BY <1>1, ProbeIInv, PTL

(* On any vehicle's bus, a transport returned is for the first variant     *)
(* answered and runs at its bitrate.                                       *)
THEOREM VariantIsRight == ProbeSpec => []RightVariant
  <1>1. IInv => RightVariant
    BY DEF IInv, DriverFollows, WinnerHeard, Opening, Answering, RightVariant
  <1> QED
    BY <1>1, ProbeIInv, PTL

-----------------------------------------------------------------------------
(* The scan over an adapter. In the terms of one session object everything *)
(* is in one line: the answers the running scan took, those in the buffer, *)
(* those on the link, the commands the adapter has not taken. Its first c  *)
(* places are what earlier scans left behind, and after them this scan's   *)
(* commands stand in order, up to the last one sent; only the connection's *)
(* end can cut the line short. Text that was cut off from its prompt is an *)
(* orphan: it comes before the first answer of a later scan, for which d   *)
(* is 1.                                                                   *)
ScanFields == {"at", "n", "pids", "vin", "evidence", "values", "outcome", "from", "behind",
               "timedOut", "refused", "lost"}

Scanning == scan.at \in {"send", "wait", "ask"}
Sent == IF scan.at = "send" THEN scan.n - 1 ELSE scan.n
Orphaned == IF Len(rest) > (IF begun THEN 1 ELSE 0) THEN 1 ELSE 0

Taken == Len(scan.from)
Buffered == Len(rx)
OnLink == Len(outbox)
Untaken == Len(inbox)
InLine == Taken + Buffered + OnLink + Untaken

(* The settings of the adapter as the scan's j-th command leaves them.     *)
Tuned(j, state) ==
    /\ state \in AdapterState
    /\ j >= 2 => ~state.echo
    /\ j >= 4 => state.spaces = ~state.honoursS0
    /\ j >= 5 => state.headers

Request(j) == [cmd |-> Commands[j], id |-> << scans, j >>]
Answers(j, answer) == answer.request = Request(j) /\ Tuned(j, answer.adapter)

ElmTyped ==
    /\ scans \in Nat /\ connected \in BOOLEAN /\ begun \in BOOLEAN /\ adapter \in AdapterState
    /\ DOMAIN scan = ScanFields
    /\ scan.at \in {"idle", "send", "wait", "ask", "close"}
    /\ IsList(scan.pids) /\ scan.n \in 1 .. LastCodeRead + Len(scan.pids) /\ IsList(scan.from)
    /\ \A p \in Range(scan.pids) : \E plan \in Plans : p \in ToSet(PidsToRead(plan))
    /\ IsList(inbox) /\ IsList(outbox) /\ IsList(rx) /\ IsList(rest)
    /\ begun => outbox # << >> /\ rest # << >> /\ rest[Len(rest)] = outbox[1]
    /\ ~connected => inbox = << >> /\ outbox = << >>

Placed ==
    Scanning =>
        /\ scan.outcome = "none"
        /\ Taken = (IF scan.at = "ask" THEN scan.n ELSE scan.n - 1)
        /\ scan.at = "ask" => scan.n = LastCodeRead
        /\ scan.n <= LastCodeRead => scan.pids = << >>
        /\ ~scan.lost => connected

(* How long the line is, and where in it the orphan can be.                *)
Counted(c, d) ==
    /\ InLine <= c + Sent
    /\ connected => InLine = c + Sent
    /\ InLine + Orphaned <= c + Sent + d
    /\ connected /\ Orphaned = 1 => Taken + Buffered <= c

(* Who stands in it.                                                       *)
TakenInv(c, d) ==
    \A k \in 1 .. Taken :
        k > c /\ (k - c >= 2 \/ d = 0) => scan.from[k] = << << scans, k - c >> >>

BufferedInv(c, d) ==
    \A k \in 1 .. Buffered :
        LET j == Taken + k - c
        IN  j > 0 => /\ IsList(rx[k]) /\ rx[k] # << >>
                     /\ Answers(j, rx[k][Len(rx[k])])
                     /\ j >= 2 \/ d = 0 => Len(rx[k]) = 1

OnLinkInv(c) ==
    \A k \in 1 .. OnLink :
        LET j == Taken + Buffered + k - c IN j > 0 => Answers(j, outbox[k])

AwaitedInv(c) ==
    /\ connected => Tuned(Taken + Buffered + OnLink - c, adapter)
    /\ \A k \in 1 .. Untaken :
          LET j == Taken + Buffered + OnLink + k - c IN j > 0 => inbox[k] = Request(j)

LineInv(c, d) ==
    Counted(c, d) /\ TakenInv(c, d) /\ BufferedInv(c, d) /\ OnLinkInv(c) /\ AwaitedInv(c)

(* What a scan in step has learned.                                        *)
CodesOf(s) == {<< code, Status(s) >> : code \in ToSet(Stored(s))}

CodesUpTo(n) == UNION {CodesOf(CodeReads[i][1]) : i \in {i \in 1 .. 3 : VinRead + i <= n}}
ReadUpTo(pids, n) == {pids[i] : i \in {i \in DOMAIN pids : LastCodeRead + i <= n}}
ValuesUpTo(pids, n) == [p \in ReadUpTo(pids, n) \cap Supported |-> PidBytes(p)]

KnowsVehicle(s) ==
    /\ Len(s.from) >= VinRead => s.vin = Vehicle.vin
    /\ s.evidence = CodesUpTo(Len(s.from))
    /\ s.values = ValuesUpTo(s.pids, Len(s.from))

(* A scan that is c answers behind gets no further than the first read     *)
(* that is sure to meet an answer to a setting, with no orphan before it.  *)
Stumbles(c) == IF c <= 5 THEN VinRead ELSE IF c <= 8 THEN c + 2 ELSE LastCodeRead

Behind(c, d) ==
    /\ c + d < scans
    /\ c > 0 => scan.behind
    /\ AnswersAreRead /\ c = 0 => KnowsVehicle(scan) /\ (adapter.honoursS0 => Taken < VinRead)
    /\ TalkIsNoData /\ c > 0 /\ scans <= LastCodeRead => scan.at # "ask" /\ scan.n <= Stumbles(c)

ScanningInv ==
    Scanning => \E c \in Nat, d \in 0 .. 1 : Behind(c, d) /\ LineInv(c, d)

LeftInv == ~Scanning => Buffered + OnLink + Untaken + Orphaned <= scans

Promised ==
    /\ TalkIsNoData => PublishedInSync
    /\ TalkIsNoData /\ AnswersAreRead => ScanIsTrue
    /\ AnswersAreRead => FailsForAReason

ElmInv == ElmTyped /\ Placed /\ ScanningInv /\ LeftInv /\ Promised

(* All that was said and is not taken yet was said by the one adapter.     *)
Said(answer) == answer.adapter.honoursS0 = adapter.honoursS0
OneAdapter ==
    /\ \A k \in 1 .. Len(outbox) : Said(outbox[k])
    /\ \A i \in 1 .. Len(rest) : Said(rest[i])
    /\ \A k \in 1 .. Len(rx) : \A i \in 1 .. Len(rx[k]) : Said(rx[k][i])

-----------------------------------------------------------------------------
(* The commands, by number.                                                *)
FixedCommands == InitSequence \o << << "09", "02" >> >> \o CodeReads
PidReads(pids) == [i \in DOMAIN pids |-> << "01", pids[i] >>]
CommandsFor(pids) == FixedCommands \o PidReads(pids)

LEMMA JoinedLists ==
    ASSUME NEW s, IsList(s), NEW t, IsList(t)
    PROVE  IsList(s \o t) /\ IsJoined(s \o t, s, t)
  <1> DEFINE S == Range(s) \cup Range(t)
  <1>1. Range(s) \subseteq S /\ Range(t) \subseteq S
    OBVIOUS
  <1> HIDE DEF S
  <1>2. s \in Seq(S) /\ t \in Seq(S)
    BY <1>1, SeqMonotonic DEF IsList
  <1>3. s \o t \in Seq(S) /\ Range(s \o t) = S
    BY <1>2, RangeJoined DEF S
  <1> QED
    BY <1>2, <1>3, Joined DEF IsList

LEMMA FixedCommandsAre ==
    /\ IsList(FixedCommands) /\ Len(FixedCommands) = 10
    /\ FixedCommands[1] = << "AT", "Z" >> /\ FixedCommands[2] = << "AT", "E0" >>
    /\ FixedCommands[3] = << "AT", "L0" >> /\ FixedCommands[4] = << "AT", "S0" >>
    /\ FixedCommands[5] = << "AT", "H1" >> /\ FixedCommands[6] = << "AT", "SP0" >>
    /\ FixedCommands[7] = << "09", "02" >>
    /\ FixedCommands[8] = << "03" >> /\ FixedCommands[9] = << "07" >>
    /\ FixedCommands[10] = << "0A" >>
  <1> DEFINE vin == << << "09", "02" >> >>
             first == InitSequence \o vin
  <1>1. /\ IsList(InitSequence) /\ Len(InitSequence) = 6
        /\ InitSequence[1] = << "AT", "Z" >> /\ InitSequence[2] = << "AT", "E0" >>
        /\ InitSequence[3] = << "AT", "L0" >> /\ InitSequence[4] = << "AT", "S0" >>
        /\ InitSequence[5] = << "AT", "H1" >> /\ InitSequence[6] = << "AT", "SP0" >>
    BY DEF InitSequence, IsList, Range
  <1>2. IsList(vin) /\ Len(vin) = 1 /\ vin[1] = << "09", "02" >>
    BY DEF IsList, Range
  <1>3. /\ IsList(CodeReads) /\ Len(CodeReads) = 3
        /\ CodeReads[1] = << "03" >> /\ CodeReads[2] = << "07" >> /\ CodeReads[3] = << "0A" >>
    BY DEF CodeReads, IsList, Range
  <1>4. FixedCommands = first \o CodeReads
    BY DEF FixedCommands
  <1> HIDE DEF vin
  <1>5. IsList(first) /\ IsJoined(first, InitSequence, vin)
    BY <1>1, <1>2, JoinedLists
  <1> HIDE DEF first
  <1>6. IsList(FixedCommands) /\ IsJoined(FixedCommands, first, CodeReads)
    BY <1>3, <1>4, <1>5, JoinedLists
  <1>7. Len(first) = 7 /\ first[7] = vin[1] /\ \A k \in 1 .. 6 : first[k] = InitSequence[k]
    BY <1>1, <1>2, <1>5 DEF IsJoined
  <1>8. /\ Len(FixedCommands) = 10
        /\ \A k \in 1 .. 7 : FixedCommands[k] = first[k]
        /\ \A k \in 1 .. 3 : FixedCommands[7 + k] = CodeReads[k]
    BY <1>3, <1>6, <1>7 DEF IsJoined
  <1> QED
    BY <1>1, <1>2, <1>3, <1>6, <1>7, <1>8

LEMMA CommandsAre ==
    ASSUME NEW pids, IsList(pids)
    PROVE  /\ Len(pids) \in Nat /\ DOMAIN pids = 1 .. Len(pids)
           /\ Len(CommandsFor(pids)) = 10 + Len(pids)
           /\ \A j \in 1 .. 10 : CommandsFor(pids)[j] = FixedCommands[j]
           /\ \A i \in 1 .. Len(pids) : CommandsFor(pids)[10 + i] = << "01", pids[i] >>
  <1> DEFINE fixed == FixedCommands
             reads == PidReads(pids)
             S == Range(fixed) \cup Range(reads)
  <1>1. Len(pids) \in Nat /\ DOMAIN pids = 1 .. Len(pids)
    BY LenProperties DEF IsList
  <1>2. \A i \in 1 .. Len(pids) : reads[i] = << "01", pids[i] >>
    BY <1>1 DEF PidReads
  <1>3. reads \in [1 .. Len(pids) -> Range(reads)]
    BY <1>1 DEF PidReads, Range
  <1>4. Range(reads) \subseteq S /\ Range(fixed) \subseteq S
    OBVIOUS
  <1>5. CommandsFor(pids) = fixed \o reads
    BY DEF CommandsFor
  <1> HIDE DEF fixed, reads, S
  <1>6. reads \in Seq(Range(reads)) /\ Len(reads) = Len(pids)
    BY <1>1, <1>3, SeqDef, LenProperties
  <1>7. fixed \in Seq(Range(fixed)) /\ Len(fixed) = 10
    BY FixedCommandsAre DEF fixed, IsList
  <1>8. fixed \in Seq(S) /\ reads \in Seq(S)
    BY <1>4, <1>6, <1>7, SeqMonotonic
  <1>9. IsJoined(fixed \o reads, fixed, reads)
    BY <1>8, Joined
  <1>10. /\ Len(CommandsFor(pids)) = 10 + Len(pids)
         /\ \A i \in 1 .. 10 : CommandsFor(pids)[i] = fixed[i]
         /\ \A i \in 1 .. Len(pids) : CommandsFor(pids)[10 + i] = << "01", pids[i] >>
    BY <1>1, <1>2, <1>5, <1>6, <1>7, <1>9 DEF IsJoined
  <1> QED
    BY <1>1, <1>10 DEF fixed

LEMMA ScanCommands == Commands = CommandsFor(scan.pids)
  BY DEF Commands, CommandsFor, FixedCommands, PidReads

(* The j-th command of a scan tunes the adapter one step further.          *)
LEMMA CommandTunes ==
    ASSUME NEW pids, IsList(pids), NEW j \in Int, j <= Len(CommandsFor(pids)),
           NEW state, Tuned(j - 1, state), NEW cmd, j > 0 => cmd = CommandsFor(pids)[j]
    PROVE  Tuned(j, Switched(state, cmd))
  <1> DEFINE next == Switched(state, cmd)
  <1>1. state \in AdapterState
    BY DEF Tuned
  <1>2. next \in AdapterState
    BY <1>1 DEF Switched, AdapterState
  <1>3. CASE j <= 0
    BY <1>2, <1>3 DEF Tuned
  <1>4. CASE j > 0
    <2>1. Len(pids) \in Nat /\ Len(CommandsFor(pids)) = 10 + Len(pids)
      BY CommandsAre
    <2>2. cmd = CommandsFor(pids)[j]
      BY <1>4
    <2>3. cmd # << "AT", "E1" >> /\ cmd # << "AT", "H0" >> /\ cmd # << "AT", "S1" >>
      <3>1. CASE j <= 10
        <4>1. cmd = FixedCommands[j]
          <5>1. j \in 1 .. 10
            BY <1>4, <3>1
          <5>2. \A i \in 1 .. 10 : CommandsFor(pids)[i] = FixedCommands[i]
            BY CommandsAre
          <5> QED BY <2>2, <5>1, <5>2
        <4>2. j \in {1, 2, 3, 4, 5, 6, 7, 8, 9, 10}
          BY <1>4, <3>1
        <4>3. j \in {1, 2, 3, 4, 5, 6} => cmd[2] \in {"Z", "E0", "L0", "S0", "H1", "SP0"}
          BY <4>1, FixedCommandsAre
        <4>4. j \in {7, 8, 9, 10} => cmd[1] \in {"09", "03", "07", "0A"}
          BY <4>1, FixedCommandsAre
        <4> QED BY <4>2, <4>3, <4>4
      <3>2. CASE j > 10
        <4>1. j - 10 \in 1 .. Len(pids) /\ j = 10 + (j - 10)
          BY <2>1, <3>2
        <4>2. cmd = << "01", pids[j - 10] >>
          BY <2>2, <4>1, CommandsAre
        <4> QED BY <4>2
      <3> QED BY <3>1, <3>2
    <2>4. j = 2 => cmd = << "AT", "E0" >>
      BY <2>2, CommandsAre, FixedCommandsAre
    <2>5. j = 5 => cmd = << "AT", "H1" >>
      BY <2>2, CommandsAre, FixedCommandsAre
    <2>6. j >= 2 => ~next.echo
      BY <2>3, <2>4, <1>1, <1>4 DEF Switched, Tuned, AdapterState
    <2>7. j >= 5 => next.headers
      BY <2>3, <2>5, <1>1, <1>4 DEF Switched, Tuned, AdapterState
    <2>8. j = 4 => cmd = << "AT", "S0" >>
      BY <2>2, CommandsAre, FixedCommandsAre
    <2>9. j >= 4 => next.spaces = ~next.honoursS0
      <3>1. /\ DOMAIN state = {"echo", "headers", "spaces", "honoursS0"}
            /\ state.spaces \in BOOLEAN /\ state.honoursS0 \in BOOLEAN
            /\ state.spaces \/ state.honoursS0
        BY <1>1 DEF AdapterState
      <3>2. next.honoursS0 = state.honoursS0
        BY <3>1 DEF Switched
      <3>3. CASE j = 4
        <4>1. cmd = << "AT", "S0" >>
          BY <2>8, <3>3
        <4>2. next.spaces = (state.spaces /\ ~state.honoursS0)
          BY <3>1, <4>1 DEF Switched
        <4> QED BY <3>1, <3>2, <4>2
      <3>4. CASE j >= 5
        <4>1. state.spaces = ~state.honoursS0
          BY <3>4 DEF Tuned
        <4>2. CASE cmd = << "AT", "S0" >>
          <5>1. next.spaces = (state.spaces /\ ~state.honoursS0)
            BY <3>1, <4>2 DEF Switched
          <5> QED BY <3>1, <3>2, <4>1, <5>1
        <4>3. CASE cmd # << "AT", "S0" >>
          <5>1. next.spaces = state.spaces
            BY <2>3, <3>1, <4>3 DEF Switched
          <5> QED BY <3>2, <4>1, <5>1
        <4> QED BY <4>2, <4>3
      <3>5. j >= 4 => j = 4 \/ j >= 5
        OBVIOUS
      <3> QED BY <3>3, <3>4, <3>5
    <2> QED BY <1>2, <2>6, <2>7, <2>9 DEF Tuned
  <1> QED BY <1>3, <1>4

(* A buffered answer that is the only one before its prompt is read alone. *)
LEMMA FlattenedOne ==
    ASSUME NEW seqs, NEW x, seqs = [i \in 1 .. 1 |-> x]
    PROVE  FlattenSeq(seqs) = x
  <1> DEFINE Joins(f, m) == f = [i \in 1 .. m |-> IF i = 1 THEN seqs[i] ELSE f[i - 1] \o seqs[i]]
             flat == CHOOSE f : Joins(f, 1)
  <1>1. seqs \in Seq({x}) /\ Len(seqs) = 1
    <2>1. seqs \in [1 .. 1 -> {x}] /\ DOMAIN seqs = 1 .. 1
      OBVIOUS
    <2>2. seqs \in Seq({x})
      BY <2>1, 1 \in Nat, SeqDef
    <2>3. 1 .. Len(seqs) = 1 .. 1 /\ Len(seqs) \in Nat
      BY <2>1, <2>2, LenProperties
    <2> QED BY <2>2, <2>3
  <1>2. FlattenSeq(seqs) = flat[1]
    BY <1>1 DEF FlattenSeq
  <1>3. \E f : Joins(f, 1)
    <2> DEFINE g == [i \in 1 .. 1 |-> x]
    <2>1. \A f : [i \in 1 .. 1 |-> IF i = 1 THEN seqs[i] ELSE f[i - 1] \o seqs[i]] = g
      OBVIOUS
    <2> HIDE DEF g
    <2>2. Joins(g, 1)
      BY <2>1
    <2> HIDE DEF Joins
    <2> QED BY <2>2
  <1>4. Joins(flat, 1)
    <2> HIDE DEF Joins
    <2> QED BY <1>3
  <1> PICK flow : flow = flat
    OBVIOUS
  <1> HIDE DEF flat
  <1>5. flow = [i \in 1 .. 1 |-> IF i = 1 THEN seqs[i] ELSE flow[i - 1] \o seqs[i]]
    BY <1>4
  <1>6. flow[1] = x
    BY <1>5
  <1> QED BY <1>2, <1>6

LEMMA TextOfOne ==
    ASSUME NEW answers, IsList(answers), Len(answers) = 1
    PROVE  TextOf(answers) = Answer(answers[1].request.cmd, answers[1].adapter)
  <1> DEFINE text == Answer(answers[1].request.cmd, answers[1].adapter)
             texts == [i \in DOMAIN answers |-> Answer(answers[i].request.cmd, answers[i].adapter)]
  <1>1. DOMAIN answers = 1 .. 1
    BY LenProperties DEF IsList
  <1>2. texts = [i \in 1 .. 1 |-> text]
    BY <1>1
  <1>3. TextOf(answers) = FlattenSeq(texts)
    BY DEF TextOf
  <1> HIDE DEF texts, text
  <1>4. TextOf(answers) = text
    BY <1>2, <1>3, FlattenedOne
  <1> QED BY <1>4 DEF text

(* The PIDs a plan asks for are a list.                                    *)
LEMMA PidsToReadAreListed ==
    ASSUME NEW plan \in Plans
    PROVE  IsList(PidsToRead(plan))
  <1> DEFINE signals == plan.signals
             lists == [i \in DOMAIN signals |->
                          IF signals[i].service = "01" THEN signals[i].pids ELSE << >>]
             T == UNION {Range(s.pids) : s \in Range(signals)}
             all == FlattenSeq(lists)
             new == {i \in DOMAIN all : \A j \in 1 .. i - 1 : all[j] # all[i]}
             pids == PidsForSignals(signals)
  <1>1. /\ signals \in Seq(Range(signals)) /\ IsList(plan.legacy)
        /\ \A s \in Range(signals) : s.pids \in Seq(Range(s.pids))
    BY PlansAssumption DEF IsList
  <1>2. Len(signals) \in Nat /\ DOMAIN signals = 1 .. Len(signals)
    BY <1>1, LenProperties
  <1>3. \A i \in DOMAIN signals : lists[i] \in Seq(T)
    <2> SUFFICES ASSUME NEW i \in DOMAIN signals PROVE lists[i] \in Seq(T)
      OBVIOUS
    <2>1. signals[i] \in Range(signals)
      BY DEF Range
    <2>2. Range(signals[i].pids) \subseteq T
      BY <2>1
    <2>3. signals[i].pids \in Seq(Range(signals[i].pids))
      BY <1>1, <2>1
    <2> HIDE DEF T, signals
    <2>4. signals[i].pids \in Seq(T)
      BY <2>2, <2>3, SeqMonotonic
    <2>5. << >> \in Seq(T)
      BY EmptySeq
    <2> QED BY <2>4, <2>5
  <1>4. lists \in Seq(Seq(T))
    <2>1. lists \in [1 .. Len(signals) -> Seq(T)]
      <3> HIDE DEF T
      <3> QED BY <1>2, <1>3
    <2> HIDE DEF lists
    <2> QED BY <1>2, <2>1, SeqDef
  <1> HIDE DEF lists
  <1>5. all \in Seq(T)
    BY <1>4, Flattened
  <1>6. Len(all) \in Nat /\ DOMAIN all = 1 .. Len(all)
    BY <1>5, LenProperties
  <1>7. IsFiniteSet(new)
    <2>1. IsFiniteSet(1 .. Len(all))
      BY <1>6, FS_Interval
    <2>2. new \subseteq 1 .. Len(all)
      BY <1>6
    <2> HIDE DEF new
    <2> QED BY <2>1, <2>2, FS_Subset
  <1>8. Cardinality(new) \in Nat
    <2> HIDE DEF new
    <2> QED BY <1>7, FS_CardinalityType
  <1>9. pids = [k \in 1 .. Cardinality(new) |->
                  all[CHOOSE i \in new : Cardinality({j \in new : j < i}) = k - 1]]
    BY DEF PidsForSignals, lists
  <1>10. IsList(pids)
    <2> DEFINE pick(k) == all[CHOOSE i \in new : Cardinality({j \in new : j < i}) = k - 1]
               n == Cardinality(new)
    <2>1. pids = [k \in 1 .. n |-> pick(k)]
      BY <1>9
    <2> HIDE DEF pick, n, pids
    <2>2. DOMAIN pids = 1 .. n /\ pids = [k \in 1 .. n |-> pids[k]]
      BY <2>1
    <2>3. n \in Nat
      BY <1>8 DEF n
    <2> QED BY <2>2, <2>3, ListOf
  <1> QED
    BY <1>1, <1>10 DEF PidsToRead

-----------------------------------------------------------------------------
(* The steps of the adapter and of the link.                               *)
LEMMA Sizes ==
    ASSUME ElmTyped
    PROVE  /\ Taken \in Nat /\ Buffered \in Nat /\ OnLink \in Nat /\ Untaken \in Nat
           /\ Len(rest) \in Nat /\ Len(scan.pids) \in Nat /\ scan.n \in Nat /\ scan.n > 0
           /\ Sent \in Nat /\ Sent <= Len(Commands) /\ Len(Commands) = 10 + Len(scan.pids)
           /\ InLine \in Nat /\ Orphaned \in {0, 1} /\ scans \in Nat
  <1>1. /\ Taken \in Nat /\ Buffered \in Nat /\ OnLink \in Nat /\ Untaken \in Nat
        /\ Len(rest) \in Nat /\ Len(scan.pids) \in Nat
    BY LenProperties DEF ElmTyped, IsList, Taken, Buffered, OnLink, Untaken
  <1>2. LastCodeRead = 10
    BY DEF LastCodeRead, VinRead, InitSequence, CodeReads
  <1>3. Len(Commands) = 10 + Len(scan.pids)
    BY ScanCommands, CommandsAre DEF ElmTyped
  <1>4. scan.n \in Nat /\ scan.n > 0 /\ scan.n <= 10 + Len(scan.pids) /\ scans \in Nat
    BY <1>1, <1>2 DEF ElmTyped
  <1>5. Sent \in Nat /\ Sent <= Len(Commands)
    <2>1. Sent = scan.n - 1 \/ Sent = scan.n
      BY DEF Sent
    <2>2. Sent \in Nat
      BY <1>4, <2>1
    <2>3. Sent <= scan.n
      BY <1>4, <2>1
    <2> QED BY <1>1, <1>3, <1>4, <2>2, <2>3
  <1>6. InLine \in Nat
    BY <1>1 DEF InLine
  <1>7. Orphaned \in {0, 1}
    BY DEF Orphaned
  <1> QED BY <1>1, <1>3, <1>4, <1>5, <1>6, <1>7

(* A step that leaves the scan as it is keeps what it keeps of the line.   *)
LEMMA LinkStep ==
    ASSUME ElmInv, scan' = scan, scans' = scans, ElmTyped', connected' = connected,
           adapter'.honoursS0 = adapter.honoursS0,
           \A c \in Nat, d \in 0 .. 1 :
              Scanning /\ c + d < scans /\ LineInv(c, d) => LineInv(c, d)',
           LeftInv'
    PROVE  ElmInv'
  <1>1. Placed'
    BY DEF ElmInv, Placed, Scanning, Taken
  <1>2. Promised'
    BY DEF ElmInv, Promised, PublishedInSync, ScanIsTrue, FailsForAReason, Excused, Commands
  <1>3. ScanningInv'
    <2> SUFFICES ASSUME Scanning PROVE ScanningInv'
      BY DEF ScanningInv, Scanning
    <2>1. PICK c \in Nat, d \in 0 .. 1 : Behind(c, d) /\ LineInv(c, d)
      BY DEF ElmInv, ScanningInv
    <2>2. Behind(c, d)'
      <3>1. Taken' = Taken
        BY DEF Taken
      <3> QED BY <2>1, <3>1 DEF Behind
    <2>3. LineInv(c, d)'
      BY <2>1 DEF Behind
    <2> HIDE DEF Behind, LineInv
    <2> QED BY <2>2, <2>3 DEF ScanningInv
  <1> QED BY <1>1, <1>2, <1>3 DEF ElmInv

LEMMA AdapterAnswersKeeps == ElmInv /\ AdapterAnswers => ElmInv'
  <1> SUFFICES ASSUME ElmInv, AdapterAnswers PROVE ElmInv'
    OBVIOUS
  <1> DEFINE now == Switched(adapter, Head(inbox).cmd)
             answer == [request |-> Head(inbox), adapter |-> now]
  <1>1. /\ inbox # << >> /\ inbox' = Tail(inbox) /\ adapter' = now
        /\ outbox' = Append(outbox, answer)
        /\ scan' = scan /\ scans' = scans /\ connected' = connected /\ begun' = begun
        /\ rx' = rx /\ rest' = rest
    BY DEF AdapterAnswers
  <1>2. ElmTyped /\ LeftInv /\ IsList(scan.pids)
    BY DEF ElmInv, ElmTyped
  <1>3. IsTail(inbox', inbox)
    BY <1>1, <1>2, Tailed DEF ElmTyped
  <1>4. IsAppended(outbox', outbox, answer)
    BY <1>1, <1>2, Listed DEF ElmTyped
  <1>5. now \in AdapterState
    BY <1>2 DEF ElmTyped, Switched, AdapterState
  <1>6. /\ Taken \in Nat /\ Buffered \in Nat /\ OnLink \in Nat /\ Untaken \in Nat /\ Untaken > 0
        /\ Taken' = Taken /\ Buffered' = Buffered
        /\ OnLink' = OnLink + 1 /\ Untaken' = Untaken - 1
    <2>1. Taken \in Nat /\ Buffered \in Nat /\ OnLink \in Nat /\ Untaken \in Nat
      BY <1>2, Sizes
    <2>2. Taken' = Taken /\ Buffered' = Buffered
      BY <1>1 DEF Taken, Buffered
    <2>3. OnLink' = OnLink + 1 /\ Untaken' = Untaken - 1 /\ Untaken > 0
      BY <1>3, <1>4 DEF IsTail, IsAppended, OnLink, Untaken
    <2> QED BY <2>1, <2>2, <2>3
  <1>7. InLine' = InLine /\ Orphaned' = Orphaned /\ Sent' = Sent
    <2>1. InLine' = InLine
      BY <1>1, <1>6 DEF InLine
    <2>2. Orphaned' = Orphaned /\ Sent' = Sent
      BY <1>1 DEF Orphaned, Sent
    <2> QED BY <2>1, <2>2
  <1>8. connected
    BY <1>1, <1>2 DEF ElmTyped
  <1>9. ElmTyped'
    <2>1. IsList(outbox') /\ IsList(inbox')
      BY <1>3, <1>4 DEF IsTail, IsAppended
    <2>2. begun => outbox' # << >> /\ outbox'[1] = outbox[1]
      <3> SUFFICES ASSUME begun PROVE outbox' # << >> /\ outbox'[1] = outbox[1]
        OBVIOUS
      <3>1. outbox # << >>
        BY <1>2 DEF ElmTyped
      <3>2. OnLink > 0
        BY <1>2, <1>6, <3>1, EmptySeq, LenProperties DEF ElmTyped, IsList, OnLink
      <3>3. Len(outbox') # 0
        BY <1>6 DEF OnLink
      <3> QED BY <1>4, <1>6, <3>2, <3>3, EmptyList DEF IsAppended, OnLink
    <2> QED BY <1>1, <1>2, <1>5, <1>8, <2>1, <2>2 DEF ElmTyped
  <1>10. LeftInv'
    BY <1>1, <1>2, <1>6, <1>7, Sizes DEF LeftInv, Scanning
  <1>11. \A c \in Nat, d \in 0 .. 1 :
            Scanning /\ c + d < scans /\ LineInv(c, d) => LineInv(c, d)'
    <2> SUFFICES ASSUME NEW c \in Nat, NEW d \in 0 .. 1, Scanning, c + d < scans, LineInv(c, d)
                 PROVE  LineInv(c, d)'
      OBVIOUS
    <2>1. \A k \in 1 .. Untaken' : inbox'[k] = inbox[k + 1] /\ k + 1 \in 1 .. Untaken
      BY <1>3, <1>6 DEF IsTail, Untaken
    <2>2. Head(inbox) = inbox[1] /\ 1 \in 1 .. Untaken
      BY <1>3, <1>6 DEF IsTail, Untaken
    <2>3. (\A k \in 1 .. OnLink : outbox'[k] = outbox[k]) /\ outbox'[OnLink + 1] = answer
      BY <1>4 DEF IsAppended, OnLink
    <2>4. \A j : Request(j)' = Request(j)
      BY <1>1 DEF Request, Commands
    <2>5. Taken + Buffered + OnLink + 1 - c > 0 => Head(inbox) = Request(Taken + Buffered + OnLink + 1 - c)
      BY <1>6, <2>2 DEF LineInv, AwaitedInv
    <2>6. Tuned(Taken + Buffered + OnLink + 1 - c, now)
      <3> DEFINE j == Taken + Buffered + OnLink + 1 - c
      <3>1. j \in Int /\ j - 1 = Taken + Buffered + OnLink - c
        BY <1>6
      <3>2. Tuned(j - 1, adapter)
        BY <1>8, <3>1 DEF LineInv, AwaitedInv
      <3>3. j <= Len(Commands)
        <4>1. InLine <= c + Sent
          BY DEF LineInv, Counted
        <4>2. Sent <= Len(Commands) /\ Sent \in Nat /\ Len(Commands) \in Nat /\ Untaken >= 1
          BY <1>2, <1>6, Sizes
        <4>3. Taken + Buffered + OnLink + Untaken <= c + Sent
          BY <4>1 DEF InLine
        <4> QED BY <1>6, <4>2, <4>3
      <3>4. j > 0 => Head(inbox).cmd = Commands[j]
        BY <2>5 DEF Request
      <3> HIDE DEF j
      <3>5. Tuned(j, now)
        BY <1>2, <3>1, <3>2, <3>3, <3>4, CommandTunes, ScanCommands
      <3> QED BY <3>5 DEF j
    <2>7. Counted(c, d)'
      BY <1>1, <1>6, <1>7 DEF LineInv, Counted
    <2>8. TakenInv(c, d)'
      BY <1>1, <1>6 DEF LineInv, TakenInv
    <2>9. BufferedInv(c, d)'
      BY <1>1, <1>6, <2>4 DEF LineInv, BufferedInv, Answers, Tuned
    <2>10. OnLinkInv(c)'
      <3> SUFFICES ASSUME NEW k \in 1 .. OnLink + 1, Taken + Buffered + k - c > 0
                   PROVE  /\ outbox'[k].request = Request(Taken + Buffered + k - c)
                          /\ Tuned(Taken + Buffered + k - c, outbox'[k].adapter)
        BY <1>1, <1>6, <2>4 DEF OnLinkInv, Answers, Tuned
      <3>1. CASE k <= OnLink
        BY <1>6, <2>3, <3>1 DEF LineInv, OnLinkInv, Answers
      <3>2. CASE k = OnLink + 1
        <4>1. outbox'[k].request = Head(inbox) /\ outbox'[k].adapter = now
          BY <2>3, <3>2
        <4>2. Taken + Buffered + k - c = Taken + Buffered + OnLink + 1 - c
          BY <1>6, <3>2
        <4> QED BY <2>5, <2>6, <4>1, <4>2
      <3> QED BY <1>6, <3>1, <3>2
    <2>11. AwaitedInv(c)'
      <3>1. Tuned(Taken + Buffered + OnLink' - c, adapter')
        <4>1. Taken + Buffered + OnLink' - c = Taken + Buffered + OnLink + 1 - c
          BY <1>6
        <4> QED BY <1>1, <2>6, <4>1
      <3>2. ASSUME NEW k \in 1 .. Untaken', Taken + Buffered + OnLink' + k - c > 0
            PROVE  inbox'[k] = Request(Taken + Buffered + OnLink' + k - c)
        <4>1. Taken + Buffered + OnLink' + k - c = Taken + Buffered + OnLink + (k + 1) - c
          BY <1>6
        <4>2. k + 1 \in 1 .. Untaken /\ inbox'[k] = inbox[k + 1]
          BY <2>1
        <4> QED BY <3>2, <4>1, <4>2 DEF LineInv, AwaitedInv
      <3> QED BY <1>1, <1>6, <2>4, <3>1, <3>2 DEF AwaitedInv, Tuned
    <2> QED BY <2>7, <2>8, <2>9, <2>10, <2>11 DEF LineInv
  <1>12. adapter'.honoursS0 = adapter.honoursS0
    BY <1>1, <1>2 DEF ElmTyped, AdapterState, Switched
  <1> QED BY <1>1, <1>9, <1>10, <1>11, <1>12, LinkStep

LEMMA TextNotifiedKeeps == ElmInv /\ TextNotified => ElmInv'
  <1> SUFFICES ASSUME ElmInv, TextNotified PROVE ElmInv'
    OBVIOUS
  <1>1. /\ outbox # << >> /\ ~begun /\ begun' = TRUE /\ rest' = Append(rest, Head(outbox))
        /\ scan' = scan /\ scans' = scans /\ connected' = connected /\ adapter' = adapter
        /\ inbox' = inbox /\ outbox' = outbox /\ rx' = rx
    BY DEF TextNotified
  <1>2. ElmTyped /\ LeftInv
    BY DEF ElmInv
  <1>3. IsAppended(rest', rest, Head(outbox))
    BY <1>1, <1>2, Listed DEF ElmTyped
  <1>4. Head(outbox) = outbox[1]
    BY <1>1, <1>2, Tailed DEF ElmTyped, IsTail
  <1>5. Len(rest') = Len(rest) + 1 /\ Len(rest) \in Nat
    BY <1>3 DEF IsAppended
  <1>6. /\ Taken' = Taken /\ Buffered' = Buffered /\ OnLink' = OnLink /\ Untaken' = Untaken
        /\ InLine' = InLine /\ Sent' = Sent
    BY <1>1 DEF Taken, Buffered, OnLink, Untaken, InLine, Sent
  <1>7. Orphaned' = Orphaned
    BY <1>1, <1>5 DEF Orphaned
  <1>8. ElmTyped'
    <2>1. IsList(rest') /\ rest' # << >> /\ rest'[Len(rest')] = outbox[1]
      BY <1>3, <1>4, <1>5, EmptyList DEF IsAppended
    <2> QED BY <1>1, <1>2, <2>1 DEF ElmTyped
  <1>9. LeftInv'
    BY <1>1, <1>2, <1>6, <1>7 DEF LeftInv, Scanning
  <1>10. \A c \in Nat, d \in 0 .. 1 :
            Scanning /\ c + d < scans /\ LineInv(c, d) => LineInv(c, d)'
    <2> SUFFICES ASSUME NEW c \in Nat, NEW d \in 0 .. 1, Scanning, c + d < scans, LineInv(c, d)
                 PROVE  LineInv(c, d)'
      OBVIOUS
    <2>1. \A j : Request(j)' = Request(j)
      BY <1>1 DEF Request, Commands
    <2>2. Counted(c, d)' /\ TakenInv(c, d)'
      BY <1>1, <1>6, <1>7 DEF LineInv, Counted, TakenInv
    <2>3. BufferedInv(c, d)' /\ OnLinkInv(c)'
      BY <1>1, <1>6, <2>1 DEF LineInv, BufferedInv, OnLinkInv, Answers, Tuned
    <2>4. AwaitedInv(c)'
      BY <1>1, <1>6, <2>1 DEF LineInv, AwaitedInv, Tuned
    <2> QED BY <2>2, <2>3, <2>4 DEF LineInv
  <1> QED BY <1>1, <1>8, <1>9, <1>10, LinkStep

LEMMA PromptNotifiedKeeps == ElmInv /\ PromptNotified => ElmInv'
  <1> SUFFICES ASSUME ElmInv, PromptNotified PROVE ElmInv'
    OBVIOUS
  <1>1. /\ begun /\ begun' = FALSE /\ outbox' = Tail(outbox)
        /\ rx' = Append(rx, rest) /\ rest' = << >>
        /\ scan' = scan /\ scans' = scans /\ connected' = connected /\ adapter' = adapter
        /\ inbox' = inbox
    BY DEF PromptNotified
  <1>2. ElmTyped /\ LeftInv
    BY DEF ElmInv
  <1>3. /\ IsList(rest) /\ rest # << >> /\ rest[Len(rest)] = outbox[1]
        /\ outbox # << >> /\ connected
    BY <1>1, <1>2 DEF ElmTyped
  <1>4. IsTail(outbox', outbox)
    BY <1>1, <1>2, <1>3, Tailed DEF ElmTyped
  <1>5. IsAppended(rx', rx, rest)
    BY <1>1, <1>2, Listed DEF ElmTyped
  <1>6. /\ Taken \in Nat /\ Buffered \in Nat /\ OnLink \in Nat /\ Untaken \in Nat /\ OnLink > 0
        /\ Taken' = Taken /\ Untaken' = Untaken
        /\ Buffered' = Buffered + 1 /\ OnLink' = OnLink - 1
    <2>1. Taken \in Nat /\ Buffered \in Nat /\ OnLink \in Nat /\ Untaken \in Nat
      BY <1>2, Sizes
    <2>2. Taken' = Taken /\ Untaken' = Untaken
      BY <1>1 DEF Taken, Untaken
    <2>3. Buffered' = Buffered + 1 /\ OnLink' = OnLink - 1 /\ OnLink > 0
      BY <1>4, <1>5 DEF IsTail, IsAppended, Buffered, OnLink
    <2> QED BY <2>1, <2>2, <2>3
  <1>7. InLine' = InLine /\ Sent' = Sent
    <2>1. InLine' = InLine
      BY <1>6 DEF InLine
    <2>2. Sent' = Sent
      BY <1>1 DEF Sent
    <2> QED BY <2>1, <2>2
  <1>8. Orphaned' = 0 /\ Orphaned \in {0, 1}
    BY <1>1, EmptyList DEF Orphaned
  <1>9. ElmTyped'
    <2>1. IsList(rx') /\ IsList(outbox') /\ IsList(rest')
      BY <1>1, <1>4, <1>5, EmptyList DEF IsAppended, IsTail
    <2> QED BY <1>1, <1>2, <1>3, <2>1 DEF ElmTyped
  <1>10. LeftInv'
    <2> SUFFICES ASSUME ~Scanning PROVE Buffered' + OnLink' + Untaken' + Orphaned' <= scans
      BY <1>1 DEF LeftInv, Scanning
    <2>1. Buffered + OnLink + Untaken + Orphaned <= scans /\ scans \in Nat
      BY <1>2 DEF LeftInv, ElmTyped
    <2> QED BY <1>6, <1>8, <2>1
  <1>11. \A c \in Nat, d \in 0 .. 1 :
            Scanning /\ c + d < scans /\ LineInv(c, d) => LineInv(c, d)'
    <2> SUFFICES ASSUME NEW c \in Nat, NEW d \in 0 .. 1, Scanning, c + d < scans, LineInv(c, d)
                 PROVE  LineInv(c, d)'
      OBVIOUS
    <2>1. (\A k \in 1 .. Buffered : rx'[k] = rx[k]) /\ rx'[Buffered + 1] = rest
      BY <1>5 DEF IsAppended, Buffered
    <2>2. \A k \in 1 .. OnLink' : outbox'[k] = outbox[k + 1] /\ k + 1 \in 1 .. OnLink
      BY <1>4, <1>6 DEF IsTail, OnLink
    <2>3. \A j : Request(j)' = Request(j)
      BY <1>1 DEF Request, Commands
    <2>4. InLine = c + Sent /\ InLine + Orphaned <= c + Sent + d
          /\ (Orphaned = 1 => Taken + Buffered <= c)
      BY <1>3 DEF LineInv, Counted
    <2>5. Sent \in Nat /\ InLine \in Nat
      BY <1>2, Sizes
    <2>6. Counted(c, d)'
      <3>1. InLine <= c + Sent + d
        BY <2>4, <2>5
      <3> QED BY <1>1, <1>7, <1>8, <2>4, <2>5, <3>1 DEF Counted
    <2>7. TakenInv(c, d)'
      BY <1>1, <1>6 DEF LineInv, TakenInv
    <2>8. BufferedInv(c, d)'
      <3> DEFINE j(k) == Taken + k - c
      <3> SUFFICES ASSUME NEW k \in 1 .. Buffered + 1, j(k) > 0
                   PROVE  /\ IsList(rx'[k]) /\ rx'[k] # << >>
                          /\ rx'[k][Len(rx'[k])].request = Request(j(k))
                          /\ Tuned(j(k), rx'[k][Len(rx'[k])].adapter)
                          /\ j(k) >= 2 \/ d = 0 => Len(rx'[k]) = 1
        BY <1>1, <1>6, <2>3 DEF BufferedInv, Answers, Tuned
      <3>1. CASE k <= Buffered
        <4>1. k \in 1 .. Buffered /\ rx'[k] = rx[k]
          BY <1>6, <2>1, <3>1
        <4> QED BY <4>1 DEF LineInv, BufferedInv, Answers
      <3>2. CASE k = Buffered + 1
        <4>1. rx'[k] = rest
          BY <2>1, <3>2
        <4>2. Answers(j(k), outbox[1])
          <5>1. j(k) = Taken + Buffered + 1 - c /\ 1 \in 1 .. OnLink
            BY <1>6, <3>2
          <5> QED BY <5>1 DEF LineInv, OnLinkInv
        <4>3. j(k) >= 2 \/ d = 0 => Orphaned = 0
          BY <1>6, <1>8, <2>4, <2>5, <3>2
        <4>4. Orphaned = 0 => Len(rest) = 1
          <5>1. Len(rest) \in Nat /\ Len(rest) # 0
            BY <1>3, EmptySeq, LenProperties DEF IsList
          <5> PICK n : n = Len(rest)
            OBVIOUS
          <5>2. Orphaned = 0 => ~(n > 1)
            BY <1>1 DEF Orphaned
          <5>3. n \in Nat /\ n # 0
            BY <5>1
          <5> QED BY <5>2, <5>3
        <4> QED BY <1>3, <4>1, <4>2, <4>3, <4>4 DEF Answers
      <3> QED BY <1>6, <3>1, <3>2
    <2>9. OnLinkInv(c)'
      <3> SUFFICES ASSUME NEW k \in 1 .. OnLink', Taken + Buffered' + k - c > 0
                   PROVE  /\ outbox'[k].request = Request(Taken + Buffered' + k - c)
                          /\ Tuned(Taken + Buffered' + k - c, outbox'[k].adapter)
        BY <1>6, <2>3 DEF OnLinkInv, Answers, Tuned
      <3>1. Taken + Buffered' + k - c = Taken + Buffered + (k + 1) - c
        BY <1>6
      <3> QED BY <2>2, <3>1 DEF LineInv, OnLinkInv, Answers
    <2>10. AwaitedInv(c)'
      <3>1. Taken + Buffered' + OnLink' - c = Taken + Buffered + OnLink - c
        BY <1>6
      <3>2. \A k \in 1 .. Untaken :
               Taken + Buffered' + OnLink' + k - c = Taken + Buffered + OnLink + k - c
        BY <1>6
      <3> QED BY <1>1, <1>6, <2>3, <3>1, <3>2 DEF LineInv, AwaitedInv, Tuned
    <2> QED BY <2>6, <2>7, <2>8, <2>9, <2>10 DEF LineInv
  <1> QED BY <1>1, <1>9, <1>10, <1>11, LinkStep

(* The connection ends: what is cut off may leave an orphan, for one       *)
(* answer less.                                                            *)
ShorterLine(taken, buffered, sent, untaken, orphaned, left, m) ==
    /\ buffered + sent + untaken + orphaned <= m => buffered + 0 + 0 + left <= m
    /\ taken + buffered + sent + untaken <= m => taken + buffered + 0 + 0 <= m
    /\ taken + buffered + sent + untaken + orphaned <= m => taken + buffered + 0 + 0 + left <= m

LEMMA CutShort ==
    ASSUME NEW taken \in Nat, NEW buffered \in Nat, NEW sent \in Nat, NEW untaken \in Nat,
           NEW orphaned \in Nat, NEW left \in Nat, left <= orphaned + sent, NEW m \in Nat
    PROVE  ShorterLine(taken, buffered, sent, untaken, orphaned, left, m)
  BY DEF ShorterLine

LEMMA CutLine ==
    ASSUME ElmTyped, Cut, rx' = rx, rest' = rest
    PROVE  /\ Buffered' = Buffered /\ OnLink' = 0 /\ Untaken' = 0
           /\ Orphaned' \in {0, 1} /\ Orphaned' <= Orphaned + OnLink
           /\ IsList(inbox') /\ IsList(outbox') /\ ~begun'
  <1>1. inbox' = << >> /\ outbox' = << >> /\ begun' = FALSE
    BY DEF Cut
  <1>2. Buffered' = Buffered /\ OnLink' = 0 /\ Untaken' = 0
    BY <1>1, EmptyList DEF Buffered, OnLink, Untaken
  <1>3. Orphaned' \in {0, 1} /\ Orphaned \in {0, 1} /\ OnLink \in Nat
    BY Sizes DEF Orphaned
  <1>4. CASE begun
    <2>1. outbox # << >>
      BY <1>4 DEF ElmTyped
    <2>2. OnLink # 0
      BY <2>1, EmptySeq, LenProperties DEF ElmTyped, IsList, OnLink
    <2> QED BY <1>1, <1>2, <1>3, <2>2, EmptyList
  <1>5. CASE ~begun
    <2>1. Orphaned' = Orphaned
      BY <1>1, <1>5 DEF Orphaned
    <2> QED BY <1>1, <1>2, <1>3, <2>1, EmptyList
  <1> QED BY <1>4, <1>5 DEF ElmTyped

(* What a step that only moves the scan on leaves as it is.                *)
Alike(t, s) ==
    /\ DOMAIN t = ScanFields
    /\ t.n = s.n /\ t.pids = s.pids /\ t.vin = s.vin /\ t.evidence = s.evidence
    /\ t.values = s.values /\ t.outcome = s.outcome /\ t.from = s.from /\ t.behind = s.behind
    /\ t.timedOut = s.timedOut /\ t.refused = s.refused

LEMMA LinkDropsKeeps == ElmInv /\ LinkDrops => ElmInv'
  <1> SUFFICES ASSUME ElmInv, LinkDrops PROVE ElmInv'
    OBVIOUS
  <1>1. /\ connected /\ connected' = FALSE /\ Cut
        /\ scan' = [scan EXCEPT !.lost = scan.lost \/ scan.at # "idle"]
        /\ scans' = scans /\ adapter' = adapter /\ rx' = rx /\ rest' = rest
    BY DEF LinkDrops
  <1>2. ElmTyped /\ LeftInv /\ Placed /\ Promised
    BY DEF ElmInv
  <1>3. Alike(scan', scan) /\ scan'.at = scan.at /\ scan'.lost = (scan.lost \/ scan.at # "idle")
    BY <1>1, <1>2 DEF ElmTyped, Alike, ScanFields
  <1>4. /\ Buffered' = Buffered /\ OnLink' = 0 /\ Untaken' = 0
        /\ Orphaned' \in Nat /\ Orphaned' <= Orphaned + OnLink
    BY <1>1, <1>2, CutLine
  <1>5. /\ Taken \in Nat /\ Buffered \in Nat /\ OnLink \in Nat /\ Untaken \in Nat
        /\ Orphaned \in Nat /\ Sent \in Nat /\ scans \in Nat
    <2>1. Orphaned \in Nat
      BY DEF Orphaned
    <2> QED BY <1>2, <2>1, Sizes
  <1>6. Taken' = Taken /\ Sent' = Sent /\ Commands' = Commands
    BY <1>3 DEF Taken, Sent, Commands, Alike
  <1>7. ElmTyped'
    <2>1. inbox' = << >> /\ outbox' = << >> /\ IsList(inbox') /\ IsList(outbox')
      BY <1>1, EmptyList DEF Cut
    <2> QED BY <1>1, <1>2, <1>3, <1>4, <2>1 DEF ElmTyped, Alike, Cut
  <1>8. Placed'
    BY <1>2, <1>3, <1>6 DEF Placed, Alike, Scanning
  <1>9. Promised'
    BY <1>1, <1>2, <1>3, <1>6
    DEF Promised, PublishedInSync, ScanIsTrue, FailsForAReason, Excused, Alike
  <1>10. LeftInv'
    <2> SUFFICES ASSUME ~Scanning PROVE Buffered' + OnLink' + Untaken' + Orphaned' <= scans
      BY <1>1, <1>3 DEF LeftInv, Scanning
    <2>1. Buffered + OnLink + Untaken + Orphaned <= scans
      BY <1>2 DEF LeftInv
    <2>2. ShorterLine(Taken, Buffered, OnLink, Untaken, Orphaned, Orphaned', scans)
      BY <1>4, <1>5, CutShort
    <2> QED BY <1>4, <2>1, <2>2 DEF ShorterLine
  <1>11. ScanningInv'
    <2> SUFFICES ASSUME Scanning PROVE ScanningInv'
      BY <1>3 DEF ScanningInv, Scanning
    <2>1. PICK c \in Nat, d \in 0 .. 1 : Behind(c, d) /\ LineInv(c, d)
      BY DEF ElmInv, ScanningInv
    <2>2. Behind(c, d)'
      BY <1>1, <1>3, <1>6, <2>1 DEF Behind, KnowsVehicle, Alike
    <2>3. \A j : Request(j)' = Request(j)
      BY <1>1, <1>6 DEF Request
    <2>4. Counted(c, d)'
      <3>1. InLine <= c + Sent /\ InLine + Orphaned <= c + Sent + d
        BY <2>1 DEF LineInv, Counted
      <3>2. c + Sent \in Nat /\ c + Sent + d \in Nat
        BY <1>5
      <3>3. InLine = Taken + Buffered + OnLink + Untaken /\ InLine' = Taken + Buffered + 0 + 0
        BY <1>4, <1>6 DEF InLine
      <3>4. ShorterLine(Taken, Buffered, OnLink, Untaken, Orphaned, Orphaned', c + Sent)
        BY <1>4, <1>5, <3>2, CutShort
      <3>5. ShorterLine(Taken, Buffered, OnLink, Untaken, Orphaned, Orphaned', c + Sent + d)
        BY <1>4, <1>5, <3>2, CutShort
      <3>6. InLine' <= c + Sent /\ InLine' + Orphaned' <= c + Sent + d
        BY <3>1, <3>3, <3>4, <3>5 DEF ShorterLine
      <3> QED BY <1>1, <1>6, <3>6 DEF Counted
    <2>5. TakenInv(c, d)'
      BY <1>1, <1>3, <1>6, <2>1 DEF LineInv, TakenInv, Alike
    <2>6. BufferedInv(c, d)'
      BY <1>1, <1>4, <1>6, <2>1, <2>3 DEF LineInv, BufferedInv, Answers, Tuned
    <2>7. OnLinkInv(c)' /\ AwaitedInv(c)'
      BY <1>1, <1>4 DEF OnLinkInv, AwaitedInv
    <2>8. LineInv(c, d)'
      BY <2>4, <2>5, <2>6, <2>7 DEF LineInv
    <2> HIDE DEF Behind, LineInv
    <2> QED BY <2>2, <2>8 DEF ScanningInv
  <1> QED BY <1>7, <1>8, <1>9, <1>10, <1>11 DEF ElmInv

-----------------------------------------------------------------------------
(* The steps of the scan. What is left when it ends is not more than the   *)
(* scans so far.                                                           *)
LeftOver(taken, buffered, sent, untaken, orphaned, c, d, last, m) ==
    taken + buffered + sent + untaken + orphaned <= c + last + d /\ last <= taken + 1 /\ c + d < m
        => buffered + sent + untaken + orphaned <= m

LEMMA LittleIsLeft ==
    ASSUME NEW taken \in Nat, NEW buffered \in Nat, NEW sent \in Nat, NEW untaken \in Nat,
           NEW orphaned \in Nat, NEW c \in Nat, NEW d \in Nat, NEW last \in Nat,
           NEW m \in Nat
    PROVE  LeftOver(taken, buffered, sent, untaken, orphaned, c, d, last, m)
  BY DEF LeftOver

LEMMA ScanLeaves ==
    ASSUME ElmInv, Scanning
    PROVE  Buffered + OnLink + Untaken + Orphaned <= scans
  <1>1. PICK c \in Nat, d \in 0 .. 1 : Behind(c, d) /\ LineInv(c, d)
    BY DEF ElmInv, ScanningInv
  <1>2. ElmTyped /\ Placed
    BY DEF ElmInv
  <1>3. /\ Taken \in Nat /\ Buffered \in Nat /\ OnLink \in Nat /\ Untaken \in Nat
        /\ Sent \in Nat /\ scans \in Nat /\ scan.n \in Nat
    BY <1>2, Sizes
  <1>4. Orphaned \in Nat /\ d \in Nat
    BY DEF Orphaned
  <1>5. Sent <= Taken + 1
    <2>1. CASE scan.at = "send"
      BY <1>2, <1>3, <2>1 DEF Placed, Sent, Scanning
    <2>2. CASE scan.at = "wait"
      BY <1>2, <1>3, <2>2 DEF Placed, Sent, Scanning
    <2>3. CASE scan.at = "ask"
      BY <1>2, <1>3, <2>3 DEF Placed, Sent, Scanning
    <2> QED BY <2>1, <2>2, <2>3 DEF Scanning
  <1>6. InLine + Orphaned <= c + Sent + d /\ c + d < scans
    BY <1>1 DEF LineInv, Counted, Behind
  <1>7. LeftOver(Taken, Buffered, OnLink, Untaken, Orphaned, c, d, Sent, scans)
    BY <1>3, <1>4, LittleIsLeft
  <1> QED BY <1>5, <1>6, <1>7 DEF LeftOver, InLine

(* A step that ends a scan, and may take an answer from the buffer.        *)
LEMMA EndingStep ==
    ASSUME ElmInv, Scanning,
           scans' = scans, connected' = connected, adapter' = adapter, inbox' = inbox,
           outbox' = outbox, begun' = begun, rest' = rest,
           rx' = rx \/ (rx # << >> /\ rx' = Tail(rx)),
           DOMAIN scan' = ScanFields, scan'.at \in {"idle", "close"},
           IsList(scan'.pids), scan'.n \in 1 .. LastCodeRead + Len(scan'.pids), IsList(scan'.from),
           \A p \in Range(scan'.pids) : \E plan \in Plans : p \in ToSet(PidsToRead(plan)),
           Promised'
    PROVE  ElmInv'
  <1>1. ElmTyped
    BY DEF ElmInv
  <1>2. /\ Taken \in Nat /\ Buffered \in Nat /\ OnLink \in Nat /\ Untaken \in Nat
        /\ scans \in Nat
    BY <1>1, Sizes
  <1>3. IsList(rx') /\ (Buffered' = Buffered \/ Buffered' = Buffered - 1)
    <2>1. CASE rx' = rx
      BY <1>1, <2>1 DEF ElmTyped, Buffered
    <2>2. CASE rx # << >> /\ rx' = Tail(rx)
      <3>1. IsTail(rx', rx)
        BY <1>1, <2>2, Tailed DEF ElmTyped
      <3> QED BY <3>1 DEF IsTail, Buffered
    <2> QED BY <2>1, <2>2
  <1>4. ElmTyped'
    BY <1>1, <1>3 DEF ElmTyped
  <1>5. ~Scanning'
    BY DEF Scanning
  <1>6. LeftInv'
    <2>1. Buffered + OnLink + Untaken + Orphaned <= scans /\ Orphaned \in Nat
      BY ScanLeaves DEF Orphaned
    <2>2. OnLink' = OnLink /\ Untaken' = Untaken /\ Orphaned' = Orphaned
      BY DEF OnLink, Untaken, Orphaned
    <2>3. \A b \in Nat, o \in Nat, i \in Nat, p \in Nat, m \in Nat :
             b + o + i + p <= m => b - 1 + o + i + p <= m
      OBVIOUS
    <2>4. Buffered - 1 + OnLink + Untaken + Orphaned <= scans
      BY <1>2, <2>1, <2>3
    <2> QED BY <1>3, <2>1, <2>2, <2>4 DEF LeftInv
  <1>7. Placed' /\ ScanningInv'
    BY <1>5 DEF Placed, ScanningInv
  <1> QED BY <1>4, <1>6, <1>7 DEF ElmInv

LEMMA FailedFields ==
    ASSUME NEW s, DOMAIN s = ScanFields, NEW t, t = Failed(s)
    PROVE  /\ DOMAIN t = ScanFields /\ t.at \in {"idle", "close"} /\ t.outcome = "failed"
           /\ t.n = s.n /\ t.pids = s.pids /\ t.from = s.from /\ t.behind = s.behind
           /\ t.timedOut = s.timedOut /\ t.refused = s.refused /\ t.lost = s.lost
  BY DEF Failed, ScanFields

LEMMA SendFailsKeeps == ElmInv /\ SendFails => ElmInv'
  <1> SUFFICES ASSUME ElmInv, SendFails PROVE ElmInv'
    OBVIOUS
  <1>1. /\ scan.at = "send" /\ ~connected /\ scan' = Failed(scan)
        /\ scans' = scans /\ connected' = connected /\ adapter' = adapter /\ inbox' = inbox
        /\ outbox' = outbox /\ begun' = begun /\ rx' = rx /\ rest' = rest
    BY DEF SendFails, link
  <1>2. ElmTyped /\ Placed /\ Scanning
    BY <1>1 DEF ElmInv, Scanning
  <1>3. /\ DOMAIN scan' = ScanFields /\ scan'.at \in {"idle", "close"} /\ scan'.outcome = "failed"
        /\ scan'.n = scan.n /\ scan'.pids = scan.pids /\ scan'.from = scan.from
        /\ scan'.lost = scan.lost
    BY <1>1, <1>2, FailedFields DEF ElmTyped
  <1>4. scan.lost
    BY <1>1, <1>2 DEF Placed
  <1>5. Promised'
    BY <1>3, <1>4 DEF Promised, PublishedInSync, ScanIsTrue, FailsForAReason, Excused
  <1> QED BY <1>1, <1>2, <1>3, <1>5, EndingStep DEF ElmTyped

LEMMA TimeoutKeeps == ElmInv /\ Timeout => ElmInv'
  <1> SUFFICES ASSUME ElmInv, Timeout PROVE ElmInv'
    OBVIOUS
  <1> DEFINE s == [scan EXCEPT !.timedOut = TRUE]
  <1>1. /\ scan.at = "wait" /\ scan' = Failed(s)
        /\ scans' = scans /\ connected' = connected /\ adapter' = adapter /\ inbox' = inbox
        /\ outbox' = outbox /\ begun' = begun /\ rx' = rx /\ rest' = rest
    BY DEF Timeout, link
  <1>2. ElmTyped /\ Scanning
    BY <1>1 DEF ElmInv, Scanning
  <1>3. /\ DOMAIN s = ScanFields /\ s.timedOut
        /\ s.n = scan.n /\ s.pids = scan.pids /\ s.from = scan.from
    BY <1>2 DEF ElmTyped, ScanFields
  <1> HIDE DEF s
  <1>4. /\ DOMAIN scan' = ScanFields /\ scan'.at \in {"idle", "close"} /\ scan'.outcome = "failed"
        /\ scan'.n = scan.n /\ scan'.pids = scan.pids /\ scan'.from = scan.from
        /\ scan'.timedOut
    BY <1>1, <1>3, FailedFields
  <1>5. Promised'
    BY <1>4 DEF Promised, PublishedInSync, ScanIsTrue, FailsForAReason, Excused
  <1> QED BY <1>1, <1>2, <1>4, <1>5, EndingStep DEF ElmTyped

LEMMA BackendFailsKeeps == ElmInv /\ BackendFails => ElmInv'
  <1> SUFFICES ASSUME ElmInv, BackendFails PROVE ElmInv'
    OBVIOUS
  <1> DEFINE s == [scan EXCEPT !.refused = TRUE]
  <1>1. /\ scan.at = "ask" /\ scan' = Failed(s)
        /\ scans' = scans /\ connected' = connected /\ adapter' = adapter /\ inbox' = inbox
        /\ outbox' = outbox /\ begun' = begun /\ rx' = rx /\ rest' = rest
    BY DEF BackendFails, link
  <1>2. ElmTyped /\ Scanning
    BY <1>1 DEF ElmInv, Scanning
  <1>3. /\ DOMAIN s = ScanFields /\ s.refused
        /\ s.n = scan.n /\ s.pids = scan.pids /\ s.from = scan.from
    BY <1>2 DEF ElmTyped, ScanFields
  <1> HIDE DEF s
  <1>4. /\ DOMAIN scan' = ScanFields /\ scan'.at \in {"idle", "close"} /\ scan'.outcome = "failed"
        /\ scan'.n = scan.n /\ scan'.pids = scan.pids /\ scan'.from = scan.from
        /\ scan'.refused
    BY <1>1, <1>3, FailedFields
  <1>5. Promised'
    BY <1>4 DEF Promised, PublishedInSync, ScanIsTrue, FailsForAReason, Excused
  <1> QED BY <1>1, <1>2, <1>4, <1>5, EndingStep DEF ElmTyped

LEMMA DisconnectKeeps == ElmInv /\ Disconnect => ElmInv'
  <1> SUFFICES ASSUME ElmInv, Disconnect PROVE ElmInv'
    OBVIOUS
  <1>1. /\ scan.at = "close" /\ scan' = [scan EXCEPT !.at = "idle"] /\ connected' = FALSE /\ Cut
        /\ scans' = scans /\ adapter' = adapter /\ rx' = rx /\ rest' = rest
    BY DEF Disconnect
  <1>2. ElmTyped /\ LeftInv /\ Promised
    BY DEF ElmInv
  <1>3. Alike(scan', scan) /\ scan'.at = "idle" /\ scan'.lost = scan.lost
    BY <1>1, <1>2 DEF ElmTyped, Alike, ScanFields
  <1>4. ~Scanning /\ ~Scanning'
    BY <1>1, <1>3 DEF Scanning
  <1>5. ElmTyped'
    <2>1. inbox' = << >> /\ outbox' = << >> /\ IsList(inbox') /\ IsList(outbox')
      BY <1>1, EmptyList DEF Cut
    <2> QED BY <1>1, <1>2, <1>3, <2>1 DEF ElmTyped, Alike, Cut
  <1>6. Promised'
    <2>1. Commands' = Commands
      BY <1>3 DEF Commands, Alike
    <2> QED BY <1>1, <1>2, <1>3, <2>1
        DEF Promised, PublishedInSync, ScanIsTrue, FailsForAReason, Excused, Alike
  <1>7. LeftInv'
    <2>1. Buffered + OnLink + Untaken + Orphaned <= scans
      BY <1>2, <1>4 DEF LeftInv
    <2>2. /\ Buffered' = Buffered /\ OnLink' = 0 /\ Untaken' = 0
          /\ Orphaned' \in Nat /\ Orphaned' <= Orphaned + OnLink
      BY <1>1, <1>2, CutLine
    <2>3. /\ Taken \in Nat /\ Buffered \in Nat /\ OnLink \in Nat /\ Untaken \in Nat
          /\ scans \in Nat
      BY <1>2, Sizes
    <2>4. Orphaned \in Nat
      BY DEF Orphaned
    <2>5. ShorterLine(Taken, Buffered, OnLink, Untaken, Orphaned, Orphaned', scans)
      BY <2>2, <2>3, <2>4, CutShort
    <2> QED BY <1>1, <2>1, <2>2, <2>5 DEF ShorterLine, LeftInv
  <1> QED BY <1>4, <1>5, <1>6, <1>7 DEF ElmInv, Placed, ScanningInv

(* One more is sent, and one more is in the line.                          *)
OneMore(line, last, orphaned, c, d) ==
    /\ line = c + last => line + 1 = c + (last + 1)
    /\ line + orphaned <= c + last + d => line + 1 + orphaned <= c + (last + 1) + d

LEMMA OneMoreInLine ==
    ASSUME NEW line \in Nat, NEW last \in Nat, NEW orphaned \in Nat, NEW c \in Nat, NEW d \in Nat
    PROVE  OneMore(line, last, orphaned, c, d)
  BY DEF OneMore

LEMMA SendKeeps == ElmInv /\ Send => ElmInv'
  <1> SUFFICES ASSUME ElmInv, Send PROVE ElmInv'
    OBVIOUS
  <1> DEFINE sent == [cmd |-> Command, id |-> << scans, scan.n >>]
  <1>1. /\ scan.at = "send" /\ connected /\ inbox' = Append(inbox, sent)
        /\ scan' = [scan EXCEPT !.at = "wait"]
        /\ scans' = scans /\ connected' = connected /\ adapter' = adapter
        /\ outbox' = outbox /\ begun' = begun /\ rx' = rx /\ rest' = rest
    BY DEF Send
  <1>2. ElmTyped /\ Placed /\ Scanning /\ sent = Request(scan.n)
    BY <1>1 DEF ElmInv, Scanning, Request, Command
  <1> HIDE DEF sent
  <1>3. Alike(scan', scan) /\ scan'.at = "wait" /\ scan'.lost = scan.lost
    BY <1>1, <1>2 DEF ElmTyped, Alike, ScanFields
  <1>4. IsAppended(inbox', inbox, sent)
    BY <1>1, <1>2, Listed DEF ElmTyped
  <1>5. /\ Taken \in Nat /\ Buffered \in Nat /\ OnLink \in Nat /\ Untaken \in Nat
        /\ Sent \in Nat /\ scan.n \in Nat /\ InLine \in Nat
    BY <1>2, Sizes
  <1>6. /\ Taken' = Taken /\ Buffered' = Buffered /\ OnLink' = OnLink /\ Untaken' = Untaken + 1
        /\ Orphaned' = Orphaned
    <2>1. Untaken' = Untaken + 1
      BY <1>4 DEF Untaken, IsAppended
    <2> QED BY <1>1, <1>3, <2>1 DEF Taken, Buffered, OnLink, Orphaned, Alike
  <1>7. Sent = scan.n - 1 /\ Sent' = scan.n /\ Sent' = Sent + 1
    BY <1>1, <1>3, <1>5 DEF Sent, Alike
  <1>8. ElmTyped'
    <2>1. IsList(inbox')
      BY <1>4 DEF IsAppended
    <2> QED BY <1>1, <1>2, <1>3, <2>1 DEF ElmTyped, Alike
  <1>9. Placed' /\ Scanning'
    BY <1>1, <1>2, <1>3, <1>6 DEF Placed, Alike, Scanning
  <1>10. Promised' /\ LeftInv'
    BY <1>2, <1>3, <1>9 DEF Promised, PublishedInSync, ScanIsTrue, FailsForAReason, Alike, Placed,
                            LeftInv
  <1>11. ScanningInv'
    <2>1. PICK c \in Nat, d \in 0 .. 1 : Behind(c, d) /\ LineInv(c, d)
      BY <1>2 DEF ElmInv, ScanningInv
    <2>2. Behind(c, d)'
      BY <1>1, <1>3, <1>6, <2>1 DEF Behind, KnowsVehicle, Alike
    <2>3. \A j : Request(j)' = Request(j)
      <3>1. Commands' = Commands
        BY <1>3 DEF Commands, Alike
      <3> QED BY <1>1, <3>1 DEF Request
    <2>4. InLine = c + Sent /\ InLine + Orphaned <= c + Sent + d
          /\ (Orphaned = 1 => Taken + Buffered <= c)
      BY <1>1, <2>1 DEF LineInv, Counted
    <2>5. Counted(c, d)'
      <3>1. InLine' = InLine + 1
        BY <1>5, <1>6 DEF InLine
      <3>2. Orphaned \in Nat /\ d \in Nat
        BY DEF Orphaned
      <3>3. OneMore(InLine, Sent, Orphaned, c, d)
        BY <1>5, <3>2, OneMoreInLine
      <3>4. InLine' = c + Sent' /\ InLine' + Orphaned' <= c + Sent' + d
        BY <1>6, <1>7, <2>4, <3>1, <3>3 DEF OneMore
      <3>5. InLine' <= c + Sent'
        BY <1>5, <1>7, <3>4
      <3> QED BY <1>1, <1>6, <2>4, <3>4, <3>5 DEF Counted
    <2>6. TakenInv(c, d)'
      BY <1>1, <1>3, <1>6, <2>1 DEF LineInv, TakenInv, Alike
    <2>7. BufferedInv(c, d)' /\ OnLinkInv(c)'
      BY <1>1, <1>6, <2>1, <2>3 DEF LineInv, BufferedInv, OnLinkInv, Answers, Tuned
    <2>8. AwaitedInv(c)'
      <3>1. Tuned(Taken + Buffered + OnLink - c, adapter)
        BY <1>1, <2>1 DEF LineInv, AwaitedInv
      <3>2. ASSUME NEW k \in 1 .. Untaken + 1, Taken + Buffered + OnLink + k - c > 0
            PROVE  inbox'[k] = Request(Taken + Buffered + OnLink + k - c)
        <4>1. CASE k <= Untaken
          <5>1. inbox'[k] = inbox[k] /\ k \in 1 .. Untaken
            BY <1>4, <1>5, <4>1 DEF IsAppended, Untaken
          <5> QED BY <2>1, <3>2, <5>1 DEF LineInv, AwaitedInv
        <4>2. CASE k = Untaken + 1
          <5>1. inbox'[k] = Request(scan.n)
            BY <1>2, <1>4, <4>2 DEF IsAppended, Untaken
          <5>2. Taken + Buffered + OnLink + k = InLine + 1
            BY <1>5, <4>2 DEF InLine
          <5>3. (InLine + 1) - c = Sent + 1
            BY <1>5, <2>4
          <5>4. Sent + 1 = scan.n
            BY <1>5, <1>7
          <5>5. Taken + Buffered + OnLink + k - c = (Taken + Buffered + OnLink + k) - c
            <6>1. \A x \in Int : x + (k - c) = (x + k) - c
              BY <1>5, <4>2
            <6>2. Taken + Buffered + OnLink \in Int
              BY <1>5
            <6> QED BY <6>1, <6>2
          <5>6. Taken + Buffered + OnLink + k - c = scan.n
            BY <5>2, <5>3, <5>4, <5>5, Zenon
          <5> QED BY <5>1, <5>6, Zenon
        <4> QED BY <1>5, <4>1, <4>2
      <3> QED BY <1>1, <1>6, <2>3, <3>1, <3>2 DEF AwaitedInv, Tuned
    <2>9. LineInv(c, d)'
      BY <2>5, <2>6, <2>7, <2>8 DEF LineInv
    <2> HIDE DEF Behind, LineInv
    <2> QED BY <2>2, <2>9 DEF ScanningInv
  <1> QED BY <1>8, <1>9, <1>10, <1>11 DEF ElmInv

LEMMA FixedNumbers == VinRead = 7 /\ LastCodeRead = 10
  BY DEF VinRead, LastCodeRead, InitSequence, CodeReads

(* What a scan begins with.                                                *)
LEMMA NewFields ==
    ASSUME NEW behind \in BOOLEAN, NEW s, s = NewScan(behind)
    PROVE  /\ DOMAIN s = ScanFields /\ s.at = "send" /\ s.n = 1 /\ s.pids = << >> /\ s.evidence = {}
           /\ s.values = << >> /\ s.outcome = "none" /\ s.from = << >> /\ (behind => s.behind)
           /\ s.lost = FALSE
  BY DEF NewScan, ScanFields

LEMMA PoweredOn == \A honours \in BOOLEAN : PowerOn(honours) \in AdapterState
  <1> SUFFICES ASSUME NEW honours \in BOOLEAN PROVE PowerOn(honours) \in AdapterState
    OBVIOUS
  <1> PICK state : state = PowerOn(honours)
    OBVIOUS
  <1>1. state \in [echo : BOOLEAN, headers : BOOLEAN, spaces : BOOLEAN, honoursS0 : BOOLEAN]
    BY DEF PowerOn
  <1>2. state.spaces
    BY DEF PowerOn
  <1> QED BY <1>1, <1>2 DEF AdapterState

LEMMA NothingLearned ==
    ASSUME NEW s, s.from = << >>, s.pids = << >>, s.evidence = {}, s.values = << >>
    PROVE  KnowsVehicle(s)
  <1>1. Len(s.from) = 0
    BY EmptyList
  <1>2. VinRead = 7 /\ LastCodeRead = 10
    BY DEF VinRead, LastCodeRead, InitSequence, CodeReads
  <1>3. {i \in 1 .. 3 : VinRead + i <= Len(s.from)} = {}
    BY <1>1, <1>2
  <1>4. DOMAIN s.pids = {}
    OBVIOUS
  <1> DEFINE read == ReadUpTo(s.pids, Len(s.from))
             values == [p \in read \cap Supported |-> PidBytes(p)]
  <1>5. read \cap Supported = {}
    BY <1>4 DEF ReadUpTo
  <1>6. << >> = values
    <2>1. DOMAIN values = {}
      BY <1>5
    <2>2. values = [p \in {} |-> PidBytes(p)]
      BY <1>5
    <2> QED BY <2>2
  <1>7. CodesUpTo(Len(s.from)) = {}
    BY <1>3 DEF CodesUpTo
  <1> QED
    BY <1>1, <1>2, <1>6, <1>7 DEF KnowsVehicle, ValuesUpTo

(* The line a scan finds is all before its own.                            *)
NewLine(buffered, sent, untaken, orphaned, m) ==
    /\ buffered + sent + untaken \in Nat
    /\ \A c \in Nat : c = buffered + sent + untaken =>
          /\ c + orphaned < m + 1
          /\ buffered <= c
          /\ \A k \in 1 .. buffered : ~(0 + k - c > 0)
          /\ \A k \in 1 .. sent : ~(0 + buffered + k - c > 0)
          /\ \A k \in 1 .. untaken : ~(0 + buffered + sent + k - c > 0)
          /\ ~(0 + buffered + sent - c >= 2) /\ ~(0 + buffered + sent - c >= 4)
          /\ ~(0 + buffered + sent - c >= 5)
          /\ 0 + buffered + sent + untaken = c
          /\ c > 0 => buffered # 0 \/ sent # 0 \/ untaken # 0

LEMMA LineIsNew ==
    ASSUME NEW buffered \in Nat, NEW sent \in Nat, NEW untaken \in Nat, NEW orphaned \in Nat,
           NEW m \in Nat, buffered + sent + untaken + orphaned <= m
    PROVE  NewLine(buffered, sent, untaken, orphaned, m)
  BY DEF NewLine

LEMMA ConnectKeeps == ASSUME NEW kept \in BOOLEAN PROVE ElmInv /\ Connect(kept) => ElmInv'
  <1> SUFFICES ASSUME ElmInv, Connect(kept) PROVE ElmInv'
    OBVIOUS
  <1>1. /\ scan.at = "idle" /\ scans' = scans + 1
        /\ scan' = NewScan(Prompted \/ (kept /\ InFlight))
        /\ connected' = TRUE /\ rx' = rx /\ rest' = rest
        /\ kept => connected /\ adapter' = adapter /\ inbox' = inbox /\ outbox' = outbox
                   /\ begun' = begun
        /\ ~kept => adapter' = PowerOn(adapter.honoursS0) /\ Cut
    BY DEF Connect
  <1>2. ElmTyped /\ LeftInv /\ ~Scanning
    BY <1>1 DEF ElmInv, Scanning
  <1> PICK behind \in BOOLEAN : behind = (Prompted \/ (kept /\ InFlight))
    OBVIOUS
  <1>3. /\ DOMAIN scan' = ScanFields /\ scan'.at = "send" /\ scan'.n = 1 /\ scan'.pids = << >>
        /\ scan'.evidence = {} /\ scan'.values = << >> /\ scan'.outcome = "none"
        /\ scan'.from = << >> /\ (behind => scan'.behind) /\ scan'.lost = FALSE
    <2>1. scan' = NewScan(behind)
      BY <1>1
    <2> QED BY <2>1, NewFields
  <1>4. /\ Buffered \in Nat /\ OnLink \in Nat /\ Untaken \in Nat /\ scans \in Nat
        /\ Taken \in Nat /\ Orphaned \in Nat
    <2>1. Orphaned \in Nat
      BY DEF Orphaned
    <2> QED BY <1>2, <2>1, Sizes
  <1>5. Taken' = 0 /\ Sent' = 0 /\ Buffered' = Buffered /\ Orphaned' \in {0, 1}
    BY <1>1, <1>3, EmptyList DEF Taken, Sent, Buffered, Orphaned
  <1>6. /\ OnLink' \in Nat /\ Untaken' \in Nat
        /\ Buffered + OnLink' + Untaken' + Orphaned' <= scans
        /\ OnLink' # 0 \/ Untaken' # 0 => kept /\ InFlight
    <2>1. Buffered + OnLink + Untaken + Orphaned <= scans
      BY <1>2 DEF LeftInv
    <2>2. CASE kept
      <3>1. OnLink' = OnLink /\ Untaken' = Untaken /\ Orphaned' = Orphaned
        BY <1>1, <2>2 DEF OnLink, Untaken, Orphaned
      <3>2. OnLink # 0 => outbox # << >>
        BY EmptyList DEF OnLink
      <3>3. Untaken # 0 => inbox # << >>
        BY EmptyList DEF Untaken
      <3> QED BY <1>4, <2>1, <2>2, <3>1, <3>2, <3>3 DEF InFlight
    <2>3. CASE ~kept
      <3>1. OnLink' = 0 /\ Untaken' = 0 /\ Orphaned' <= Orphaned + OnLink
        BY <1>1, <1>2, <2>3, CutLine
      <3>2. ShorterLine(Taken, Buffered, OnLink, Untaken, Orphaned, Orphaned', scans)
        <4>1. Orphaned' \in Nat
          BY <1>5
        <4> QED BY <1>4, <3>1, <4>1, CutShort
      <3> QED BY <2>1, <3>1, <3>2 DEF ShorterLine
    <2> QED BY <2>2, <2>3
  <1>7. ElmTyped'
    <2>1. scans' \in Nat /\ IsList(scan'.pids) /\ IsList(scan'.from) /\ Range(scan'.pids) = {}
          /\ Len(scan'.pids) = 0
      BY <1>1, <1>3, <1>4, EmptyList
    <2>2. LastCodeRead = 10
      BY DEF VinRead, LastCodeRead, InitSequence, CodeReads
    <2>3. 1 \in 1 .. LastCodeRead + Len(scan'.pids)
      BY <2>1, <2>2
    <2>4. CASE kept
      BY <1>1, <1>2, <1>3, <2>1, <2>3, <2>4 DEF ElmTyped
    <2>5. CASE ~kept
      <3>1. inbox' = << >> /\ outbox' = << >> /\ begun' = FALSE /\ IsList(inbox') /\ IsList(outbox')
        BY <1>1, <2>5, EmptyList DEF Cut
      <3>2. adapter' \in AdapterState
        <4>1. adapter.honoursS0 \in BOOLEAN
          BY <1>2 DEF ElmTyped, AdapterState
        <4> QED BY <1>1, <2>5, <4>1, PoweredOn
      <3> QED BY <1>1, <1>2, <1>3, <2>1, <2>3, <3>1, <3>2 DEF ElmTyped
    <2> QED BY <2>4, <2>5
  <1>8. Placed' /\ Scanning'
    BY <1>1, <1>3, <1>5 DEF Placed, Scanning
  <1>9. Promised' /\ LeftInv'
    BY <1>3, <1>8 DEF Promised, PublishedInSync, ScanIsTrue, FailsForAReason, LeftInv
  <1>10. ScanningInv'
    <2>1. NewLine(Buffered, OnLink', Untaken', Orphaned', scans)
      <3>1. Orphaned' \in Nat
        BY <1>5
      <3> QED BY <1>4, <1>6, <3>1, LineIsNew
    <2>2. PICK c \in Nat : c = Buffered + OnLink' + Untaken'
      BY <2>1 DEF NewLine
    <2>3. PICK d \in 0 .. 1 : d = Orphaned'
      BY <1>5
    <2>4. Behind(c, d)'
      <3>1. c + d < scans'
        BY <1>1, <2>1, <2>2, <2>3 DEF NewLine
      <3>2. c > 0 => scan'.behind
        <4>1. Buffered # 0 => Prompted
          BY EmptyList DEF Buffered, Prompted
        <4>2. c > 0 => Buffered # 0 \/ OnLink' # 0 \/ Untaken' # 0
          BY <2>1, <2>2 DEF NewLine
        <4>3. c > 0 => behind
          BY <1>6, <4>1, <4>2
        <4> QED BY <1>3, <4>3
      <3>3. KnowsVehicle(scan')
        BY <1>3, NothingLearned
      <3>4. c > 0 => scan'.n <= Stumbles(c)
        BY <1>3 DEF Stumbles, VinRead, LastCodeRead, InitSequence, CodeReads
      <3>5. Taken' < VinRead
        BY <1>5, FixedNumbers
      <3> QED BY <1>3, <3>1, <3>2, <3>3, <3>4, <3>5 DEF Behind
    <2>5. Counted(c, d)'
      <3>1. InLine' = c /\ Buffered <= c
        BY <1>5, <2>1, <2>2 DEF InLine, NewLine
      <3>2. c <= c + 0 /\ c = c + 0 /\ c + d <= c + 0 + d
        OBVIOUS
      <3>3. 0 + Buffered = Buffered
        BY <1>4
      <3> QED BY <1>5, <2>3, <3>1, <3>2, <3>3 DEF Counted
    <2>6. TakenInv(c, d)'
      BY <1>5 DEF TakenInv
    <2>7. BufferedInv(c, d)' /\ OnLinkInv(c)'
      BY <1>5, <2>1, <2>2 DEF BufferedInv, OnLinkInv, NewLine
    <2>8. AwaitedInv(c)'
      <3>1. adapter' \in AdapterState
        BY <1>7 DEF ElmTyped
      <3>2. Tuned(0 + Buffered + OnLink' - c, adapter')
        BY <2>1, <2>2, <3>1 DEF Tuned, NewLine
      <3> QED BY <1>5, <2>1, <2>2, <3>2 DEF AwaitedInv, Tuned, NewLine
    <2>9. LineInv(c, d)'
      BY <2>5, <2>6, <2>7, <2>8 DEF LineInv
    <2> HIDE DEF Behind, LineInv
    <2> QED BY <2>4, <2>9 DEF ScanningInv
  <1> QED BY <1>7, <1>8, <1>9, <1>10 DEF ElmInv

LEMMA InitElmInv == ElmInit => ElmInv
  <1> SUFFICES ASSUME ElmInit PROVE ElmInv
    OBVIOUS
  <1> PICK behind \in BOOLEAN : behind = FALSE
    OBVIOUS
  <1> PICK s : s = NewScan(behind)
    OBVIOUS
  <1>1. /\ scan = [s EXCEPT !.at = "idle"] /\ scans = 0 /\ connected = FALSE /\ adapter \in AdapterState
        /\ inbox = << >> /\ outbox = << >> /\ begun = FALSE /\ rx = << >> /\ rest = << >>
    BY PoweredOn DEF ElmInit
  <1>2. /\ DOMAIN s = ScanFields /\ s.n = 1 /\ s.pids = << >> /\ s.outcome = "none" /\ s.from = << >>
    BY NewFields
  <1>3. /\ DOMAIN scan = ScanFields /\ scan.at = "idle" /\ scan.n = 1 /\ scan.pids = << >>
        /\ scan.outcome = "none" /\ scan.from = << >>
    BY <1>1, <1>2 DEF ScanFields
  <1>4. ElmTyped
    <2>1. 1 \in 1 .. LastCodeRead + Len(scan.pids)
      BY <1>3, EmptyList DEF VinRead, LastCodeRead, InitSequence, CodeReads
    <2> QED BY <1>1, <1>3, <2>1, EmptyList DEF ElmTyped
  <1>5. Buffered = 0 /\ OnLink = 0 /\ Untaken = 0 /\ Orphaned = 0
    BY <1>1, EmptyList DEF Buffered, OnLink, Untaken, Orphaned
  <1>6. ~Scanning
    BY <1>3 DEF Scanning
  <1>7. LeftInv
    BY <1>1, <1>5 DEF LeftInv, Buffered, OnLink, Untaken
  <1>8. Promised
    BY <1>3 DEF Promised, PublishedInSync, ScanIsTrue, FailsForAReason
  <1> QED
    BY <1>4, <1>6, <1>7, <1>8 DEF ElmInv, Placed, ScanningInv

-----------------------------------------------------------------------------
(* What an answer is taken for.                                            *)
LEMMA CodeReadsAre ==
    /\ ToSet(CodeReads) = {<< "03" >>, << "07" >>, << "0A" >>}
    /\ CodeReads[1] = << "03" >> /\ CodeReads[2] = << "07" >> /\ CodeReads[3] = << "0A" >>
  BY DEF CodeReads, ToSet

LEMMA CommandAt ==
    ASSUME ElmTyped
    PROVE  /\ scan.n \in 1 .. 6 => Command[1] = "AT"
           /\ scan.n = 7 => Command = << "09", "02" >>
           /\ scan.n \in 8 .. 10 => Command = CodeReads[scan.n - 7] /\ Command \in ToSet(CodeReads)
           /\ scan.n > 10 => /\ scan.n - 10 \in 1 .. Len(scan.pids)
                             /\ Command = << "01", scan.pids[scan.n - 10] >>
  <1> DEFINE n == scan.n
  <1>1. IsList(scan.pids) /\ n \in Nat /\ n > 0 /\ n <= 10 + Len(scan.pids) /\ Len(scan.pids) \in Nat
    BY Sizes, FixedNumbers DEF ElmTyped
  <1>2. Command = CommandsFor(scan.pids)[n]
    BY ScanCommands DEF Command
  <1>3. /\ \A j \in 1 .. 10 : CommandsFor(scan.pids)[j] = FixedCommands[j]
        /\ \A i \in 1 .. Len(scan.pids) : CommandsFor(scan.pids)[10 + i] = << "01", scan.pids[i] >>
    BY <1>1, CommandsAre
  <1> HIDE DEF n
  <1>4. n \in 1 .. 6 => Command[1] = "AT"
    <2>1. n \in 1 .. 6 => n \in {1, 2, 3, 4, 5, 6} /\ n \in 1 .. 10
      BY <1>1
    <2> QED BY <1>2, <1>3, <2>1, FixedCommandsAre
  <1>5. n = 7 => Command = << "09", "02" >>
    BY <1>2, <1>3, FixedCommandsAre
  <1>6. n \in 8 .. 10 => Command = CodeReads[n - 7] /\ Command \in ToSet(CodeReads)
    <2>1. n \in 8 .. 10 => n = 8 \/ n = 9 \/ n = 10
      BY <1>1
    <2>2. 8 - 7 = 1 /\ 9 - 7 = 2 /\ 10 - 7 = 3
      OBVIOUS
    <2>3. n = 8 => Command = << "03" >>
      BY <1>2, <1>3, FixedCommandsAre
    <2>4. n = 9 => Command = << "07" >>
      BY <1>2, <1>3, FixedCommandsAre
    <2>5. n = 10 => Command = << "0A" >>
      BY <1>2, <1>3, FixedCommandsAre
    <2> QED BY <2>1, <2>2, <2>3, <2>4, <2>5, CodeReadsAre
  <1>7. n > 10 => /\ n - 10 \in 1 .. Len(scan.pids)
                  /\ Command = << "01", scan.pids[n - 10] >>
    <2> SUFFICES ASSUME n > 10
                 PROVE  n - 10 \in 1 .. Len(scan.pids) /\ Command = << "01", scan.pids[n - 10] >>
      OBVIOUS
    <2>1. n - 10 \in 1 .. Len(scan.pids) /\ 10 + (n - 10) = n
      BY <1>1
    <2> QED BY <1>2, <1>3, <2>1
  <1> QED BY <1>4, <1>5, <1>6, <1>7 DEF n

(* Which answers a reader refuses, by the command.                         *)
LEMMA ThrowsAt ==
    ASSUME NEW cmd, NEW bytes
    PROVE  /\ cmd[1] = "AT" => ~Throws(cmd, bytes)
           /\ cmd = << "09", "02" >> => (Throws(cmd, bytes) <=> ~WellFormedVin(bytes))
           /\ cmd \in ToSet(CodeReads) =>
                 (Throws(cmd, bytes) <=> IndexOf(bytes, ResponseSid(cmd[1])) = 0)
           /\ \A pid : cmd = << "01", pid >> =>
                 (Throws(cmd, bytes) <=> AnswersPid(bytes, pid) /\ ~Decodable(pid, PidValue(bytes)))
  <1>1. ASSUME cmd[1] = "AT" PROVE ~Throws(cmd, bytes)
    <2>1. cmd \notin ToSet(CodeReads)
      BY <1>1, CodeReadsAre
    <2> QED BY <1>1, <2>1 DEF Throws
  <1>2. ASSUME cmd = << "09", "02" >> PROVE Throws(cmd, bytes) <=> ~WellFormedVin(bytes)
    <2>1. cmd \notin ToSet(CodeReads) /\ cmd[1] = "09"
      BY <1>2, CodeReadsAre
    <2> QED BY <2>1 DEF Throws
  <1>3. ASSUME cmd \in ToSet(CodeReads)
        PROVE  Throws(cmd, bytes) <=> IndexOf(bytes, ResponseSid(cmd[1])) = 0
    <2>1. cmd[1] \in {"03", "07", "0A"}
      BY <1>3, CodeReadsAre
    <2> QED BY <1>3, <2>1 DEF Throws
  <1>4. ASSUME NEW pid, cmd = << "01", pid >>
        PROVE  Throws(cmd, bytes) <=> AnswersPid(bytes, pid) /\ ~Decodable(pid, PidValue(bytes))
    <2>1. cmd \notin ToSet(CodeReads) /\ cmd[1] = "01" /\ cmd[2] = pid
      BY <1>4, CodeReadsAre
    <2> QED BY <2>1 DEF Throws
  <1> QED BY <1>1, <1>2, <1>3, <1>4

(* What is learned, by the command.                                        *)
WithValue(values, pid, value) ==
    [p \in DOMAIN values \cup {pid} |-> IF p = pid THEN value ELSE values[p]]
Kept(t, s) ==
    /\ DOMAIN t = ScanFields
    /\ t.at = s.at /\ t.n = s.n /\ t.pids = s.pids /\ t.outcome = s.outcome /\ t.from = s.from
    /\ t.behind = s.behind /\ t.timedOut = s.timedOut /\ t.refused = s.refused /\ t.lost = s.lost

LEMMA LearnedAt ==
    ASSUME NEW s, DOMAIN s = ScanFields, NEW cmd, NEW bytes, NEW t, t = Learned(s, cmd, bytes)
    PROVE  /\ cmd[1] = "AT" => t = s
           /\ cmd = << "09", "02" >> =>
                 Kept(t, s) /\ t.vin = VinIn(bytes) /\ t.evidence = s.evidence /\ t.values = s.values
           /\ cmd \in ToSet(CodeReads) =>
                 /\ Kept(t, s) /\ t.vin = s.vin /\ t.values = s.values
                 /\ t.evidence = s.evidence \cup {<< code, Status(cmd[1]) >> :
                                       code \in ToSet(DtcsIn(bytes, ResponseSid(cmd[1])))}
           /\ \A pid : cmd = << "01", pid >> =>
                 /\ Kept(t, s) /\ t.vin = s.vin /\ t.evidence = s.evidence
                 /\ AnswersPid(bytes, pid) => t.values = WithValue(s.values, pid, PidValue(bytes))
                 /\ ~AnswersPid(bytes, pid) => t.values = s.values
  <1>1. ASSUME cmd[1] = "AT" PROVE t = s
    <2>1. cmd \notin ToSet(CodeReads)
      BY <1>1, CodeReadsAre
    <2> QED BY <1>1, <2>1 DEF Learned
  <1>2. ASSUME cmd = << "09", "02" >>
        PROVE  Kept(t, s) /\ t.vin = VinIn(bytes) /\ t.evidence = s.evidence /\ t.values = s.values
    <2>1. cmd \notin ToSet(CodeReads) /\ cmd[1] = "09"
      BY <1>2, CodeReadsAre
    <2>2. t = [s EXCEPT !.vin = VinIn(bytes)]
      BY <2>1 DEF Learned
    <2> QED BY <2>2 DEF Kept, ScanFields
  <1>3. ASSUME cmd \in ToSet(CodeReads)
        PROVE  /\ Kept(t, s) /\ t.vin = s.vin /\ t.values = s.values
               /\ t.evidence = s.evidence \cup {<< code, Status(cmd[1]) >> :
                                       code \in ToSet(DtcsIn(bytes, ResponseSid(cmd[1])))}
    <2> DEFINE found == {<< code, Status(cmd[1]) >> : code \in ToSet(DtcsIn(bytes, ResponseSid(cmd[1])))}
    <2>1. cmd[1] \in {"03", "07", "0A"}
      BY <1>3, CodeReadsAre
    <2>2. t = [s EXCEPT !.evidence = @ \cup found]
      BY <1>3, <2>1 DEF Learned
    <2> HIDE DEF found
    <2>3. Kept(t, s) /\ t.vin = s.vin /\ t.values = s.values /\ t.evidence = s.evidence \cup found
      BY <2>2 DEF Kept, ScanFields
    <2> QED BY <2>3 DEF found
  <1>4. ASSUME NEW pid, cmd = << "01", pid >>
        PROVE  /\ Kept(t, s) /\ t.vin = s.vin /\ t.evidence = s.evidence
               /\ AnswersPid(bytes, pid) => t.values = WithValue(s.values, pid, PidValue(bytes))
               /\ ~AnswersPid(bytes, pid) => t.values = s.values
    <2> DEFINE values == WithValue(s.values, pid, PidValue(bytes))
    <2>1. cmd \notin ToSet(CodeReads) /\ cmd[1] = "01" /\ cmd[2] = pid
      BY <1>4, CodeReadsAre
    <2>2. t = IF AnswersPid(bytes, pid) THEN [s EXCEPT !.values = values] ELSE s
      BY <2>1 DEF Learned, WithValue
    <2> HIDE DEF values
    <2>3. CASE AnswersPid(bytes, pid)
      <3>1. t = [s EXCEPT !.values = values]
        BY <2>2, <2>3
      <3>2. Kept(t, s) /\ t.vin = s.vin /\ t.evidence = s.evidence /\ t.values = values
        BY <3>1 DEF Kept, ScanFields
      <3> QED BY <2>3, <3>2 DEF values
    <2>4. CASE ~AnswersPid(bytes, pid)
      BY <2>2, <2>4 DEF Kept
    <2> QED BY <2>3, <2>4
  <1> QED BY <1>1, <1>2, <1>3, <1>4

Ids(answers) == [i \in DOMAIN answers |-> answers[i].request.id]

(* The answer a scan takes is the one in its place in the line: from the   *)
(* second command on, or without an orphan, nothing comes before it.       *)
LEMMA AnswerTaken ==
    ASSUME ElmInv, scan.at = "wait", rx # << >>, NEW c \in Nat, NEW d \in 0 .. 1, LineInv(c, d),
           NEW answers, answers = Head(rx), NEW j \in 1 .. 10 + Len(scan.pids), scan.n = c + j,
           j >= 2 \/ d = 0
    PROVE  /\ Tuned(j, answers[1].adapter)
           /\ TextOf(answers) = Answer(Commands[j], answers[1].adapter)
           /\ Ids(answers) = << << scans, j >> >>
  <1>1. ElmTyped /\ Placed /\ Scanning
    BY DEF ElmInv, Scanning
  <1>2. /\ Taken \in Nat /\ Buffered \in Nat /\ scan.n \in Nat /\ scan.n > 0
        /\ Taken = scan.n - 1
    BY <1>1, Sizes DEF Placed
  <1>3. Buffered > 0 /\ answers = rx[1]
    BY <1>1, Tailed DEF ElmTyped, IsTail, Buffered
  <1>4. Taken + 1 - c = j
    BY <1>2
  <1>5. IsList(answers) /\ answers # << >> /\ Answers(j, answers[Len(answers)]) /\ Len(answers) = 1
    <2>1. 1 \in 1 .. Buffered
      BY <1>2, <1>3
    <2>2. LET i == Taken + 1 - c
          IN  i > 0 => /\ IsList(rx[1]) /\ rx[1] # << >>
                       /\ Answers(i, rx[1][Len(rx[1])])
                       /\ i >= 2 \/ d = 0 => Len(rx[1]) = 1
      BY <2>1 DEF LineInv, BufferedInv
    <2>3. j > 0
      OBVIOUS
    <2> QED BY <1>3, <1>4, <2>2, <2>3
  <1>6. answers[1].request = Request(j) /\ Tuned(j, answers[1].adapter)
    BY <1>5 DEF Answers
  <1>7. answers[1].request.cmd = Commands[j] /\ answers[1].request.id = << scans, j >>
    BY <1>6 DEF Request
  <1>8. TextOf(answers) = Answer(Commands[j], answers[1].adapter)
    BY <1>5, <1>7, TextOfOne
  <1>9. DOMAIN answers = 1 .. 1
    BY <1>5, LenProperties DEF IsList
  <1>10. Ids(answers) = << << scans, j >> >>
    <2> DEFINE ids == [i \in DOMAIN answers |-> answers[i].request.id]
    <2>1. ids = [i \in 1 .. 1 |-> answers[1].request.id]
      BY <1>9
    <2>2. ids = [i \in 1 .. 1 |-> << scans, j >>]
      BY <1>7, <2>1
    <2> HIDE DEF ids
    <2>3. ids = << << scans, j >> >>
      BY <2>2
    <2> QED BY <2>3 DEF ids, Ids
  <1> QED BY <1>6, <1>8, <1>10

(* A scan that is behind does not get past the reader that meets an answer *)
(* to a setting.                                                           *)
LEMMA Stumbling ==
    ASSUME ElmInv, TalkIsNoData, scan.at = "wait", rx # << >>, NEW c \in Nat, NEW d \in 0 .. 1,
           Behind(c, d), LineInv(c, d), c > 0, scans <= LastCodeRead, scan.n = Stumbles(c),
           NEW bytes, bytes = Sanitized(TextOf(Head(rx)))
    PROVE  Throws(Command, bytes)
  <1> PICK answers : answers = Head(rx)
    OBVIOUS
  <1>1. ElmTyped /\ scans \in Nat /\ Len(scan.pids) \in Nat
    BY Sizes DEF ElmInv
  <1>2. c \in 1 .. 9 /\ (c = 9 => d = 0)
    BY <1>1, FixedNumbers DEF Behind
  <1> PICK n : n = scan.n
    OBVIOUS
  <1> DEFINE Place(i) == /\ n = c + i /\ (i >= 2 \/ d = 0)
                         /\ c <= 5 => n = 7
                         /\ c > 5 => n \in 8 .. 10
  <1>3. \E i \in 1 .. 6 : Place(i)
    <2>1. CASE c <= 5
      <3>1. n = 7 /\ 7 - c \in 1 .. 6
        BY <1>2, <2>1, FixedNumbers DEF Stumbles
      <3>2. Place(7 - c)
        BY <1>2, <2>1, <3>1
      <3> HIDE DEF Place
      <3> QED BY <3>1, <3>2
    <2>2. CASE c > 5 /\ c <= 8
      <3>1. n = c + 2 /\ Place(2)
        BY <1>2, <2>2, FixedNumbers DEF Stumbles
      <3> HIDE DEF Place
      <3> QED BY <3>1
    <2>3. CASE c = 9
      <3>1. Place(1)
        BY <1>2, <2>3, FixedNumbers DEF Stumbles
      <3> HIDE DEF Place
      <3> QED BY <3>1
    <2> QED BY <1>2, <2>1, <2>2, <2>3
  <1> PICK j \in 1 .. 6 : Place(j)
    BY <1>3
  <1>4. j \in 1 .. 10 + Len(scan.pids) /\ scan.n = c + j /\ (j >= 2 \/ d = 0)
    BY <1>1
  <1>5. Tuned(j, answers[1].adapter) /\ TextOf(answers) = Answer(Commands[j], answers[1].adapter)
    <2> HIDE DEF Place
    <2> QED BY <1>4, AnswerTaken
  <1>6. Commands[j] = InitSequence[j] /\ j \in DOMAIN InitSequence
    <2>1. Commands[j] = FixedCommands[j]
      <3>1. IsList(scan.pids) /\ j \in 1 .. 10
        BY <1>1 DEF ElmTyped
      <3> QED BY <3>1, CommandsAre, ScanCommands
    <2>2. \A i \in 1 .. 6 : i \in {1, 2, 3, 4, 5, 6}
      OBVIOUS
    <2>3. /\ InitSequence[1] = << "AT", "Z" >> /\ InitSequence[2] = << "AT", "E0" >>
          /\ InitSequence[3] = << "AT", "L0" >> /\ InitSequence[4] = << "AT", "S0" >>
          /\ InitSequence[5] = << "AT", "H1" >> /\ InitSequence[6] = << "AT", "SP0" >>
          /\ DOMAIN InitSequence = 1 .. 6
      BY DEF InitSequence
    <2> QED BY <1>3, <2>1, <2>2, <2>3, FixedCommandsAre
  <1>7. bytes = Sanitized(Answer(InitSequence[j], answers[1].adapter)) /\ answers[1].adapter \in AdapterState
    BY <1>5, <1>6 DEF Tuned
  <1>8. ~WellFormedVin(bytes) /\ \A s \in {"03", "07", "0A"} : IndexOf(bytes, ResponseSid(s)) = 0
    BY <1>6, <1>7 DEF TalkIsNoData
  <1>9. CASE c <= 5
    <2>1. Command = << "09", "02" >>
      BY <1>1, <1>9, CommandAt
    <2> QED BY <1>8, <2>1, ThrowsAt
  <1>10. CASE c > 5
    <2>1. Command \in ToSet(CodeReads)
      BY <1>1, <1>10, CommandAt
    <2>2. Command[1] \in {"03", "07", "0A"}
      BY <2>1, CodeReadsAre
    <2> QED BY <1>8, <2>1, <2>2, ThrowsAt
  <1> QED BY <1>9, <1>10

(* What is known after one more answer.                                    *)
LEMMA CodesGrow ==
    ASSUME NEW n \in Nat
    PROVE  /\ n < 8 => CodesUpTo(n) = {}
           /\ \A i \in 1 .. 3 : n = 7 + i => CodesUpTo(n) = CodesUpTo(n - 1) \cup CodesOf(CodeReads[i][1])
           /\ n >= 10 => CodesUpTo(n) = UNION {CodesOf(s[1]) : s \in ToSet(CodeReads)}
  <1> DEFINE Codes(i) == CodesOf(CodeReads[i][1])
  <1>1. \A m : CodesUpTo(m) = UNION {Codes(i) : i \in {i \in 1 .. 3 : 7 + i <= m}}
    BY FixedNumbers DEF CodesUpTo
  <1>2. UNION {CodesOf(s[1]) : s \in ToSet(CodeReads)} = UNION {Codes(i) : i \in 1 .. 3}
    <2>1. ToSet(CodeReads) = {CodeReads[i] : i \in 1 .. 3}
      BY CodeReadsAre
    <2> QED BY <2>1
  <1> HIDE DEF Codes
  <1>3. n < 8 => CodesUpTo(n) = {}
    <2>1. n < 8 => {i \in 1 .. 3 : 7 + i <= n} = {}
      OBVIOUS
    <2> QED BY <1>1, <2>1
  <1>4. ASSUME NEW i \in 1 .. 3, n = 7 + i PROVE CodesUpTo(n) = CodesUpTo(n - 1) \cup Codes(i)
    <2>1. {k \in 1 .. 3 : 7 + k <= n} = {k \in 1 .. 3 : 7 + k <= n - 1} \cup {i}
      BY <1>4
    <2> QED BY <1>1, <2>1
  <1>5. n >= 10 => CodesUpTo(n) = UNION {Codes(i) : i \in 1 .. 3}
    <2>1. n >= 10 => {i \in 1 .. 3 : 7 + i <= n} = 1 .. 3
      OBVIOUS
    <2> QED BY <1>1, <2>1
  <1> QED BY <1>2, <1>3, <1>4, <1>5 DEF Codes

LEMMA ReadsGrow ==
    ASSUME NEW pids, IsList(pids), NEW n \in Nat
    PROVE  /\ n <= 10 => ReadUpTo(pids, n) = {}
           /\ \A i \in 1 .. Len(pids) : n = 10 + i => ReadUpTo(pids, n) = ReadUpTo(pids, n - 1) \cup {pids[i]}
           /\ n = 10 + Len(pids) => ReadUpTo(pids, n) = ToSet(pids)
  <1>1. Len(pids) \in Nat /\ DOMAIN pids = 1 .. Len(pids)
    BY LenProperties DEF IsList
  <1> PICK m : m = Len(pids)
    OBVIOUS
  <1> USE <1>1
  <1>2. \A k : ReadUpTo(pids, k) = {pids[i] : i \in {i \in 1 .. m : 10 + i <= k}}
    BY <1>1, FixedNumbers DEF ReadUpTo
  <1>3. n <= 10 => ReadUpTo(pids, n) = {}
    <2>1. n <= 10 => {i \in 1 .. m : 10 + i <= n} = {}
      OBVIOUS
    <2> QED BY <1>2, <2>1
  <1>4. ASSUME NEW i \in 1 .. m, n = 10 + i PROVE ReadUpTo(pids, n) = ReadUpTo(pids, n - 1) \cup {pids[i]}
    <2> PICK a, b : a = {k \in 1 .. m : 10 + k <= n} /\ b = {k \in 1 .. m : 10 + k <= n - 1}
      OBVIOUS
    <2>1. a = b \cup {i}
      BY <1>4
    <2>2. ReadUpTo(pids, n) = {pids[k] : k \in a} /\ ReadUpTo(pids, n - 1) = {pids[k] : k \in b}
      BY <1>2
    <2> QED BY <2>1, <2>2
  <1>5. n = 10 + m => ReadUpTo(pids, n) = ToSet(pids)
    <2>1. n = 10 + m => {i \in 1 .. m : 10 + i <= n} = 1 .. m
      OBVIOUS
    <2>2. ToSet(pids) = {pids[i] : i \in 1 .. m}
      BY <1>1 DEF ToSet
    <2> QED BY <1>2, <2>1, <2>2
  <1> QED BY <1>3, <1>4, <1>5

(* So before a number of answers, and with the next.                       *)
NextKnown(pids, n) ==
    /\ n <= 7 => CodesUpTo(n) = CodesUpTo(n - 1)
    /\ \A i \in 1 .. 3 : n = 7 + i => CodesUpTo(n) = CodesUpTo(n - 1) \cup CodesOf(CodeReads[i][1])
    /\ n > 10 => CodesUpTo(n) = CodesUpTo(n - 1)
    /\ n <= 10 => ValuesUpTo(pids, n) = ValuesUpTo(pids, n - 1)
    /\ \A i \in 1 .. Len(pids) : n = 10 + i =>
          LET values == ValuesUpTo(pids, n - 1)
          IN  /\ pids[i] \in Supported =>
                    ValuesUpTo(pids, n) = WithValue(values, pids[i], PidBytes(pids[i]))
              /\ pids[i] \notin Supported => ValuesUpTo(pids, n) = values

LEMMA NextIsKnown ==
    ASSUME NEW pids, IsList(pids), NEW n \in Nat, n > 0
    PROVE  NextKnown(pids, n)
  <1>1. n - 1 \in Nat
    OBVIOUS
  <1>2. n <= 7 => CodesUpTo(n) = CodesUpTo(n - 1)
    <2>1. n <= 7 => CodesUpTo(n) = {}
      BY CodesGrow
    <2>2. n <= 7 => CodesUpTo(n - 1) = {}
      BY <1>1, CodesGrow
    <2> QED BY <2>1, <2>2
  <1>3. n > 10 => CodesUpTo(n) = CodesUpTo(n - 1)
    <2> DEFINE all == UNION {CodesOf(s[1]) : s \in ToSet(CodeReads)}
    <2>1. n > 10 => CodesUpTo(n) = all
      BY CodesGrow
    <2>2. n > 10 => CodesUpTo(n - 1) = all
      BY <1>1, CodesGrow
    <2> HIDE DEF all
    <2> QED BY <2>1, <2>2
  <1>4. n <= 10 => ValuesUpTo(pids, n) = ValuesUpTo(pids, n - 1)
    <2>1. n <= 10 => ReadUpTo(pids, n) = {}
      BY ReadsGrow
    <2>2. n <= 10 => ReadUpTo(pids, n - 1) = {}
      BY <1>1, ReadsGrow
    <2> QED BY <2>1, <2>2 DEF ValuesUpTo
  <1>5. ASSUME NEW i \in 1 .. Len(pids), n = 10 + i
        PROVE  LET values == ValuesUpTo(pids, n - 1)
               IN  /\ pids[i] \in Supported =>
                         ValuesUpTo(pids, n) = WithValue(values, pids[i], PidBytes(pids[i]))
                   /\ pids[i] \notin Supported => ValuesUpTo(pids, n) = values
    <2> PICK read, pid, all : read = ReadUpTo(pids, n - 1) /\ pid = pids[i] /\ all = Supported
      OBVIOUS
    <2>1. ReadUpTo(pids, n) = read \cup {pid}
      BY <1>5, ReadsGrow
    <2> PICK values : values = ValuesUpTo(pids, n - 1)
      OBVIOUS
    <2>2. values = [p \in read \cap all |-> PidBytes(p)]
      BY DEF ValuesUpTo
    <2>3. ValuesUpTo(pids, n) = [p \in (read \cup {pid}) \cap all |-> PidBytes(p)]
      BY <2>1 DEF ValuesUpTo
    <2>4. CASE pid \in all
      <3>1. (read \cup {pid}) \cap all = DOMAIN values \cup {pid}
        BY <2>2, <2>4
      <3>2. \A p \in DOMAIN values : values[p] = PidBytes(p)
        BY <2>2
      <3>3. ValuesUpTo(pids, n) = [p \in DOMAIN values \cup {pid} |-> PidBytes(p)]
        BY <2>3, <3>1
      <3>4. ValuesUpTo(pids, n) = WithValue(values, pid, PidBytes(pid))
        BY <3>2, <3>3 DEF WithValue
      <3> QED BY <2>4, <3>4
    <2>5. CASE pid \notin all
      <3>1. (read \cup {pid}) \cap all = read \cap all
        BY <2>5
      <3> QED BY <2>2, <2>3, <2>5, <3>1
    <2> QED BY <2>4, <2>5
  <1>6. \A i \in 1 .. 3 : n = 7 + i => CodesUpTo(n) = CodesUpTo(n - 1) \cup CodesOf(CodeReads[i][1])
    BY CodesGrow
  <1> QED BY <1>2, <1>3, <1>4, <1>5, <1>6 DEF NextKnown

LEMMA KnowsIt ==
    ASSUME NEW t, NEW n \in Nat, Len(t.from) = n, n >= 7 => t.vin = Vehicle.vin,
           t.evidence = CodesUpTo(n), t.values = ValuesUpTo(t.pids, n)
    PROVE  KnowsVehicle(t)
  BY FixedNumbers DEF KnowsVehicle

(* In step, a scan reads what the adapter says of the vehicle, once it is  *)
(* set up.                                                                 *)
LEMMA TunedIn ==
    ASSUME ElmInv, scan.at = "wait", rx # << >>, NEW d \in 0 .. 1, LineInv(0, d), scan.n >= 7,
           OneAdapter, NEW bytes, bytes = Sanitized(TextOf(Head(rx)))
    PROVE  bytes = Sanitized(Answer(Command, Ready(adapter.honoursS0)))
  <1> PICK answers : answers = Head(rx)
    OBVIOUS
  <1> PICK n, m : n = scan.n /\ m = Len(scan.pids)
    OBVIOUS
  <1>1. n \in Nat /\ n >= 7 /\ m \in Nat /\ n <= 10 + m
    <2>1. ElmTyped
      BY DEF ElmInv
    <2>2. scan.n \in Nat /\ Len(scan.pids) \in Nat
      BY <2>1, Sizes
    <2>3. n \in 1 .. 10 + m
      BY <2>1, FixedNumbers DEF ElmTyped
    <2> QED BY <2>2, <2>3
  <1>2. n \in 1 .. 10 + m /\ n = 0 + n /\ n >= 2 /\ n >= 5 /\ 0 \in Nat
    BY <1>1
  <1>3. Tuned(n, answers[1].adapter) /\ TextOf(answers) = Answer(Commands[n], answers[1].adapter)
    BY <1>2, AnswerTaken
  <1>4. answers[1].adapter.honoursS0 = adapter.honoursS0
    <2>1. ElmTyped
      BY DEF ElmInv
    <2>2. Buffered > 0 /\ Buffered \in Nat /\ answers = rx[1]
      BY <2>1, Tailed, Sizes DEF ElmTyped, IsTail, Buffered
    <2>3. Taken + 1 - 0 = n /\ 1 \in 1 .. Buffered
      BY <1>1, <2>1, <2>2, Sizes DEF ElmInv, Placed, Scanning
    <2>4. IsList(rx[1]) /\ rx[1] # << >>
      BY <1>2, <2>3 DEF LineInv, BufferedInv
    <2>5. 1 \in 1 .. Len(rx[1])
      BY <2>4, EmptySeq, LenProperties DEF IsList
    <2> QED BY <2>2, <2>3, <2>5 DEF OneAdapter, Said, Buffered
  <1> PICK honours : honours = adapter.honoursS0
    OBVIOUS
  <1>5. answers[1].adapter = Ready(honours)
    <2> PICK state : state = answers[1].adapter
      OBVIOUS
    <2>1. n >= 4
      BY <1>1
    <2>2. state \in [echo : BOOLEAN, headers : BOOLEAN, spaces : BOOLEAN, honoursS0 : BOOLEAN]
      BY <1>3 DEF Tuned, AdapterState
    <2>3. state.echo = FALSE /\ state.headers = TRUE
      BY <1>2, <1>3, <2>2 DEF Tuned
    <2>4. state.spaces = ~honours /\ state.honoursS0 = honours
      BY <1>3, <1>4, <2>1 DEF Tuned
    <2> QED BY <2>2, <2>3, <2>4 DEF Ready
  <1> QED BY <1>3, <1>5 DEF Command

LEMMA BytesRead ==
    ASSUME ElmInv, OneAdapter, scan.at = "wait", rx # << >>, NEW d \in 0 .. 1, LineInv(0, d),
           scan.n >= 7, ~adapter.honoursS0, NEW bytes, bytes = Sanitized(TextOf(Head(rx)))
    PROVE  bytes = Reading(Command)
  <1>1. adapter.honoursS0 = FALSE
    BY DEF ElmInv, ElmTyped, AdapterState
  <1>2. bytes = Sanitized(Answer(Command, Ready(adapter.honoursS0)))
    BY TunedIn
  <1> QED BY <1>1, <1>2 DEF Reading

(* Of an adapter without spaces not even the VIN is read.                  *)
LEMMA WithoutSpaces ==
    ASSUME ElmInv, OneAdapter, AnswersAreRead, scan.at = "wait", rx # << >>, NEW d \in 0 .. 1,
           LineInv(0, d), scan.n >= 7, adapter.honoursS0, Taken < VinRead,
           NEW bytes, bytes = Sanitized(TextOf(Head(rx)))
    PROVE  scan.n = 7 /\ Throws(Command, bytes)
  <1>1. ElmTyped /\ Placed /\ Scanning
    BY DEF ElmInv, Scanning
  <1>2. scan.n = 7
    <2>1. Taken = scan.n - 1 /\ scan.n \in Nat
      BY <1>1, Sizes DEF Placed
    <2> QED BY <2>1, FixedNumbers
  <1>3. Command = << "09", "02" >>
    BY <1>1, <1>2, CommandAt
  <1>4. adapter.honoursS0 = TRUE
    BY <1>1 DEF ElmTyped, AdapterState
  <1>5. bytes = Sanitized(Answer(Command, Ready(adapter.honoursS0)))
    BY TunedIn
  <1>6. ~WellFormedVin(bytes)
    BY <1>3, <1>4, <1>5 DEF AnswersAreRead
  <1> PICK command : command = Command
    OBVIOUS
  <1>7. Throws(command, bytes)
    BY <1>3, <1>6, ThrowsAt
  <1> QED BY <1>2, <1>7

(* What an answer adds, read for what it is.                               *)
LEMMA ReadRight ==
    ASSUME ElmInv, AnswersAreRead, scan.at = "wait", rx # << >>, NEW d \in 0 .. 1, LineInv(0, d),
           OneAdapter, scan.n >= 7 => ~adapter.honoursS0,
           KnowsVehicle(scan), NEW bytes, bytes = Sanitized(TextOf(Head(rx))),
           NEW s, DOMAIN s = ScanFields, s.pids = scan.pids, s.vin = scan.vin,
           s.evidence = scan.evidence, s.values = scan.values, Len(s.from) = scan.n,
           NEW t, t = Learned(s, Command, bytes)
    PROVE  KnowsVehicle(t)
  <1> PICK n, pids : n = scan.n /\ pids = scan.pids
    OBVIOUS
  <1>1. ElmTyped /\ Placed
    BY DEF ElmInv
  <1>2. n \in Nat /\ n > 0 /\ n - 1 \in Nat /\ IsList(pids)
    <2>1. scan.n \in Nat /\ scan.n > 0
      BY <1>1, Sizes
    <2> QED BY <1>1, <2>1 DEF ElmTyped
  <1>3. Len(scan.from) = n - 1
    BY <1>1 DEF Placed, Scanning, Taken
  <1>4. /\ n > 7 => s.vin = Vehicle.vin
        /\ s.evidence = CodesUpTo(n - 1) /\ s.values = ValuesUpTo(pids, n - 1)
    BY <1>2, <1>3, FixedNumbers DEF KnowsVehicle
  <1>5. NextKnown(pids, n)
    BY <1>2, NextIsKnown
  <1>6. Len(s.from) = n /\ s.pids = pids
    OBVIOUS
  <1>7. CASE n <= 6
    <2>1. Command[1] = "AT"
      <3>1. scan.n \in 1 .. 6
        <4>1. \A x \in Nat : x > 0 /\ x <= 6 => x \in 1 .. 6
          OBVIOUS
        <4> QED BY <1>2, <1>7, <4>1
      <3> QED BY <1>1, <3>1, CommandAt
    <2>2. t = s
      BY <2>1, LearnedAt
    <2>3. /\ n >= 7 => s.vin = Vehicle.vin
          /\ s.evidence = CodesUpTo(n) /\ s.values = ValuesUpTo(s.pids, n)
      BY <1>2, <1>4, <1>5, <1>7 DEF NextKnown
    <2> QED BY <1>2, <2>2, <2>3, KnowsIt
  <1>8. CASE n = 7
    <2>1. Command = << "09", "02" >>
      BY <1>1, <1>8, CommandAt
    <2>2. bytes = Reading(<< "09", "02" >>)
      BY <1>8, <2>1, BytesRead
    <2>3. VinIn(bytes) = Vehicle.vin
      BY <2>2 DEF AnswersAreRead
    <2>4. /\ t.vin = Vehicle.vin /\ t.evidence = s.evidence /\ t.values = s.values
          /\ t.pids = s.pids /\ t.from = s.from
      BY <2>1, <2>3, LearnedAt DEF Kept
    <2>5. t.evidence = CodesUpTo(n) /\ t.values = ValuesUpTo(t.pids, n)
      BY <1>4, <1>5, <1>8, <2>4 DEF NextKnown
    <2> QED BY <1>2, <2>4, <2>5, KnowsIt
  <1>9. CASE n \in 8 .. 10
    <2>1. Command = CodeReads[n - 7] /\ Command \in ToSet(CodeReads)
      BY <1>1, <1>9, CommandAt
    <2>2. Command \in {<< "03" >>, << "07" >>, << "0A" >>}
      BY <2>1, CodeReadsAre
    <2> PICK service \in {"03", "07", "0A"} : Command = << service >>
      BY <2>2
    <2>3. bytes = Reading(<< service >>)
      BY <1>9, BytesRead
    <2>4. ToSet(DtcsIn(bytes, ResponseSid(service))) = ToSet(Stored(service))
      BY <2>3 DEF AnswersAreRead
    <2>5. Command[1] = service
      OBVIOUS
    <2>6. /\ t.vin = s.vin /\ t.values = s.values /\ t.pids = s.pids /\ t.from = s.from
          /\ t.evidence = s.evidence \cup {<< code, Status(service) >> :
                               code \in ToSet(DtcsIn(bytes, ResponseSid(service)))}
      BY <2>1, <2>5, LearnedAt DEF Kept
    <2>7. t.evidence = s.evidence \cup CodesOf(service)
      BY <2>4, <2>6 DEF CodesOf
    <2>8. CodesUpTo(n) = CodesUpTo(n - 1) \cup CodesOf(service)
      <3>1. n - 7 \in 1 .. 3 /\ n = 7 + (n - 7)
        BY <1>9
      <3>2. CodesUpTo(n) = CodesUpTo(n - 1) \cup CodesOf(CodeReads[n - 7][1])
        BY <1>5, <3>1 DEF NextKnown
      <3> QED BY <2>1, <2>5, <3>2
    <2>9. t.evidence = CodesUpTo(n)
      BY <1>4, <2>7, <2>8
    <2>10. t.values = ValuesUpTo(t.pids, n) /\ t.vin = Vehicle.vin
      BY <1>4, <1>5, <1>9, <2>6 DEF NextKnown
    <2> QED BY <1>2, <2>6, <2>9, <2>10, KnowsIt
  <1>10. CASE n > 10
    <2> PICK i : i = n - 10
      OBVIOUS
    <2>1. i \in 1 .. Len(pids) /\ Command = << "01", pids[i] >> /\ n = 10 + i
      <3>1. scan.n > 10 => /\ scan.n - 10 \in 1 .. Len(scan.pids)
                           /\ Command = << "01", scan.pids[scan.n - 10] >>
        BY <1>1, CommandAt
      <3>2. i \in 1 .. Len(pids) /\ Command = << "01", pids[i] >>
        BY <1>10, <3>1
      <3> QED BY <1>2, <3>2
    <2> PICK pid : pid = pids[i]
      OBVIOUS
    <2>2. bytes = Reading(<< "01", pid >>)
      <3>1. scan.n >= 7
        BY <1>2, <1>10
      <3> QED BY <2>1, <3>1, BytesRead
    <2>3. \E plan \in Plans : pid \in ToSet(PidsToRead(plan))
      <3>1. DOMAIN pids = 1 .. Len(pids)
        BY <1>2, LenProperties DEF IsList
      <3>2. pid \in Range(scan.pids)
        BY <2>1, <3>1 DEF Range
      <3> QED BY <1>1, <3>2 DEF ElmTyped
    <2>4. /\ pid \in Supported => AnswersPid(bytes, pid) /\ PidValue(bytes) = PidBytes(pid)
          /\ pid \notin Supported => ~AnswersPid(bytes, pid)
      BY <2>2, <2>3 DEF AnswersAreRead
    <2> PICK command : command = Command
      OBVIOUS
    <2>5. command = << "01", pid >> /\ t = Learned(s, command, bytes)
      BY <2>1
    <2>6. /\ t.vin = s.vin /\ t.evidence = s.evidence /\ t.pids = s.pids /\ t.from = s.from
          /\ AnswersPid(bytes, pid) => t.values = WithValue(s.values, pid, PidValue(bytes))
          /\ ~AnswersPid(bytes, pid) => t.values = s.values
      BY <2>5, LearnedAt DEF Kept
    <2> PICK values : values = ValuesUpTo(pids, n - 1)
      OBVIOUS
    <2>7. /\ pid \in Supported => ValuesUpTo(pids, n) = WithValue(values, pid, PidBytes(pid))
          /\ pid \notin Supported => ValuesUpTo(pids, n) = values
      BY <1>5, <2>1 DEF NextKnown
    <2>8. s.values = values
      BY <1>4
    <2>9. t.values = ValuesUpTo(pids, n)
      <3>1. CASE pid \in Supported
        BY <2>4, <2>6, <2>7, <2>8, <3>1
      <3>2. CASE pid \notin Supported
        BY <2>4, <2>6, <2>7, <2>8, <3>2
      <3> QED BY <3>1, <3>2
    <2>10. t.evidence = CodesUpTo(n) /\ t.vin = Vehicle.vin
      BY <1>2, <1>4, <1>5, <1>10, <2>6 DEF NextKnown
    <2>11. t.values = ValuesUpTo(t.pids, n) /\ Len(t.from) = n
      BY <1>6, <2>6, <2>9
    <2> QED BY <1>2, <2>10, <2>11, KnowsIt
  <1>11. n <= 6 \/ n = 7 \/ n \in 8 .. 10 \/ n > 10
    <2>1. \A x \in Nat : x <= 6 \/ x = 7 \/ x \in 8 .. 10 \/ x > 10
      OBVIOUS
    <2> QED BY <1>2, <2>1
  <1> QED BY <1>7, <1>8, <1>9, <1>10, <1>11

(* What is known when all is read is the truth.                            *)
LEMMA TruthTold ==
    ASSUME NEW s, IsList(s.pids), KnowsVehicle(s), Len(s.from) = 10 + Len(s.pids)
    PROVE  /\ s.vin = Vehicle.vin
           /\ s.evidence = UNION {{<< c, Status(r[1]) >> : c \in ToSet(Stored(r[1]))} : r \in ToSet(CodeReads)}
           /\ s.values = [p \in ToSet(s.pids) \cap Supported |-> PidBytes(p)]
  <1> PICK n, m : n = Len(s.from) /\ m = Len(s.pids)
    OBVIOUS
  <1>1. m \in Nat
    BY LenProperties DEF IsList
  <1>2. n \in Nat /\ n >= 10 /\ n >= 7 /\ n = 10 + m
    BY <1>1
  <1>3. s.vin = Vehicle.vin /\ s.evidence = CodesUpTo(n) /\ s.values = ValuesUpTo(s.pids, n)
    BY <1>2, FixedNumbers DEF KnowsVehicle
  <1>4. CodesUpTo(n) = UNION {CodesOf(r[1]) : r \in ToSet(CodeReads)}
    BY <1>2, CodesGrow
  <1>5. ReadUpTo(s.pids, n) = ToSet(s.pids)
    BY <1>2, ReadsGrow
  <1>6. ValuesUpTo(s.pids, n) = [p \in ToSet(s.pids) \cap Supported |-> PidBytes(p)]
    BY <1>5 DEF ValuesUpTo
  <1>7. UNION {CodesOf(r[1]) : r \in ToSet(CodeReads)}
           = UNION {{<< c, Status(r[1]) >> : c \in ToSet(Stored(r[1]))} : r \in ToSet(CodeReads)}
    BY DEF CodesOf
  <1> QED BY <1>3, <1>4, <1>6, <1>7

(* In step, only a PID without a formula makes a reader throw.             *)
LEMMA ThrowsForAReason ==
    ASSUME ElmInv, AnswersAreRead, scan.at = "wait", rx # << >>, NEW d \in 0 .. 1, LineInv(0, d),
           OneAdapter, scan.n >= 7 => ~adapter.honoursS0,
           NEW bytes, bytes = Sanitized(TextOf(Head(rx))), Throws(Command, bytes)
    PROVE  \E p \in ToSet(scan.pids) \cap Supported : ~Decodable(p, PidBytes(p))
  <1> PICK n, pids : n = scan.n /\ pids = scan.pids
    OBVIOUS
  <1>1. ElmTyped
    BY DEF ElmInv
  <1>2. n \in Nat /\ n > 0 /\ IsList(pids)
    <2>1. scan.n \in Nat /\ scan.n > 0
      BY <1>1, Sizes
    <2> QED BY <1>1, <2>1 DEF ElmTyped
  <1>3. ~(n <= 6)
    <2> SUFFICES ASSUME n <= 6 PROVE FALSE
      OBVIOUS
    <2>1. scan.n \in 1 .. 6
      <3>1. \A x \in Nat : x > 0 /\ x <= 6 => x \in 1 .. 6
        OBVIOUS
      <3> QED BY <1>2, <3>1
    <2> QED BY <1>1, <2>1, CommandAt, ThrowsAt
  <1>4. n # 7
    <2> SUFFICES ASSUME n = 7 PROVE FALSE
      OBVIOUS
    <2>1. Command = << "09", "02" >>
      BY <1>1, CommandAt
    <2>2. bytes = Reading(<< "09", "02" >>)
      BY <2>1, BytesRead
    <2> QED BY <2>1, <2>2, ThrowsAt DEF AnswersAreRead
  <1>5. ~(n \in 8 .. 10)
    <2> SUFFICES ASSUME n \in 8 .. 10 PROVE FALSE
      OBVIOUS
    <2>1. Command \in ToSet(CodeReads)
      BY <1>1, CommandAt
    <2>2. Command \in {<< "03" >>, << "07" >>, << "0A" >>}
      BY <2>1, CodeReadsAre
    <2> PICK service \in {"03", "07", "0A"} : Command = << service >>
      BY <2>2
    <2>3. bytes = Reading(<< service >>) /\ Command[1] = service
      BY BytesRead
    <2>4. IndexOf(bytes, ResponseSid(service)) = 0
      BY <2>1, <2>3, ThrowsAt
    <2> QED BY <2>3, <2>4 DEF AnswersAreRead
  <1>6. n > 10
    <2>1. \A x \in Nat : x <= 6 \/ x = 7 \/ x \in 8 .. 10 \/ x > 10
      OBVIOUS
    <2> QED BY <1>2, <1>3, <1>4, <1>5, <2>1
  <1> PICK i : i = n - 10
    OBVIOUS
  <1>7. i \in 1 .. Len(pids) /\ Command = << "01", pids[i] >>
    <2>1. scan.n > 10 => /\ scan.n - 10 \in 1 .. Len(scan.pids)
                         /\ Command = << "01", scan.pids[scan.n - 10] >>
      BY <1>1, CommandAt
    <2> QED BY <1>6, <2>1
  <1> PICK pid : pid = pids[i]
    OBVIOUS
  <1>8. bytes = Reading(<< "01", pid >>)
    <2>1. \A x \in Nat : x > 10 => x >= 7
      OBVIOUS
    <2>2. scan.n >= 7
      BY <1>2, <1>6, <2>1
    <2> QED BY <1>7, <2>2, BytesRead
  <1>9. pid \in Range(scan.pids) /\ pid \in ToSet(scan.pids)
    <2>1. DOMAIN pids = 1 .. Len(pids)
      BY <1>2, LenProperties DEF IsList
    <2> QED BY <1>7, <2>1 DEF Range, ToSet
  <1>10. \E plan \in Plans : pid \in ToSet(PidsToRead(plan))
    BY <1>1, <1>9 DEF ElmTyped
  <1>11. /\ pid \in Supported => AnswersPid(bytes, pid) /\ PidValue(bytes) = PidBytes(pid)
         /\ pid \notin Supported => ~AnswersPid(bytes, pid)
    BY <1>8, <1>10 DEF AnswersAreRead
  <1> PICK command : command = Command
    OBVIOUS
  <1>12. command = << "01", pid >> /\ Throws(command, bytes)
    BY <1>7
  <1>13. AnswersPid(bytes, pid) /\ ~Decodable(pid, PidValue(bytes))
    BY <1>12, ThrowsAt
  <1>14. pid \in Supported /\ ~Decodable(pid, PidBytes(pid))
    BY <1>11, <1>13
  <1> QED BY <1>9, <1>14

-----------------------------------------------------------------------------
(* The scan takes an answer.                                               *)
Took(s, bytes) ==
    /\ bytes = Sanitized(TextOf(Head(rx)))
    /\ DOMAIN s = ScanFields /\ s.from = Append(scan.from, Ids(Head(rx)))
    /\ s.at = scan.at /\ s.n = scan.n /\ s.pids = scan.pids /\ s.vin = scan.vin
    /\ s.evidence = scan.evidence /\ s.values = scan.values /\ s.outcome = scan.outcome
    /\ s.behind = scan.behind /\ s.timedOut = scan.timedOut /\ s.refused = scan.refused
    /\ s.lost = scan.lost

Taking ==
    /\ scan.at = "wait" /\ rx # << >> /\ rx' = Tail(rx)
    /\ scans' = scans /\ connected' = connected /\ adapter' = adapter /\ inbox' = inbox
    /\ outbox' = outbox /\ begun' = begun /\ rest' = rest

LEMMA TakeAnswerIs ==
    ASSUME ElmTyped, TakeAnswer
    PROVE  /\ Taking
           /\ \E s, bytes : /\ Took(s, bytes)
                            /\ Throws(Command, bytes) => scan' = Failed(s)
                            /\ ~Throws(Command, bytes) => scan' = Onward(Learned(s, Command, bytes))
  <1>1. Taking
    BY DEF TakeAnswer, Taking, Prompted, link
  <1> PICK answers : answers = Head(rx)
    OBVIOUS
  <1> PICK bytes : bytes = Sanitized(TextOf(answers))
    OBVIOUS
  <1> PICK ids : ids = Ids(answers)
    OBVIOUS
  <1> PICK s : s = [scan EXCEPT !.from = Append(@, ids)]
    OBVIOUS
  <1>2. scan' = IF Throws(Command, bytes) THEN Failed(s) ELSE Onward(Learned(s, Command, bytes))
    BY DEF TakeAnswer, Ids
  <1>3. Took(s, bytes)
    BY DEF Took, ElmTyped, ScanFields
  <1> QED BY <1>1, <1>2, <1>3

(* Everything in the line keeps its place.                                 *)
LEMMA TakingMoves ==
    ASSUME ElmInv, Taking, NEW c \in Nat, NEW d \in 0 .. 1, LineInv(c, d), scan'.pids = scan.pids,
           scan'.from = Append(scan.from, Ids(Head(rx))), Sent' = Sent
    PROVE  LineInv(c, d)'
  <1> PICK answers : answers = Head(rx)
    OBVIOUS
  <1> PICK ids : ids = Ids(answers)
    OBVIOUS
  <1>1. ElmTyped /\ Placed
    BY DEF ElmInv
  <1>2. /\ scan.at = "wait" /\ rx # << >> /\ rx' = Tail(rx)
        /\ scans' = scans /\ connected' = connected /\ adapter' = adapter /\ inbox' = inbox
        /\ outbox' = outbox /\ begun' = begun /\ rest' = rest
    BY DEF Taking
  <1>3. IsAppended(scan'.from, scan.from, ids)
    BY <1>1, Listed DEF ElmTyped
  <1>4. IsTail(rx', rx)
    BY <1>1, <1>2, Tailed DEF ElmTyped
  <1>5. /\ Taken \in Nat /\ Buffered \in Nat /\ OnLink \in Nat /\ Untaken \in Nat /\ scan.n \in Nat
        /\ Len(scan.pids) \in Nat
    BY <1>1, Sizes
  <1>6. /\ Taken' = Taken + 1 /\ Buffered' = Buffered - 1 /\ Buffered > 0
        /\ OnLink' = OnLink /\ Untaken' = Untaken /\ Orphaned' = Orphaned
    <2>1. Taken' = Taken + 1
      BY <1>3 DEF IsAppended, Taken
    <2>2. Buffered' = Buffered - 1 /\ Buffered > 0
      BY <1>4 DEF IsTail, Buffered
    <2> QED BY <1>2, <2>1, <2>2 DEF OnLink, Untaken, Orphaned
  <1>7. Taken' + Buffered' = Taken + Buffered
    BY <1>5, <1>6
  <1>8. \A j : Request(j)' = Request(j)
    <2>1. Commands' = Commands
      BY DEF Commands
    <2> QED BY <1>2, <2>1 DEF Request
  <1>9. Counted(c, d)'
    <2>1. InLine' = InLine
      BY <1>6, <1>7 DEF InLine
    <2> QED BY <1>2, <1>6, <1>7, <2>1 DEF LineInv, Counted
  <1>10. TakenInv(c, d)'
    <2>1. ASSUME NEW k \in 1 .. Taken + 1, k > c, k - c >= 2 \/ d = 0
          PROVE  scan'.from[k] = << << scans, k - c >> >>
      <3>1. CASE k <= Taken
        <4>1. k \in 1 .. Taken
          BY <1>5, <3>1
        <4>2. scan'.from[k] = scan.from[k]
          BY <1>3, <4>1 DEF IsAppended, Taken
        <4> QED BY <2>1, <4>1, <4>2 DEF LineInv, TakenInv
      <3>2. CASE k = Taken + 1
        <4>1. scan'.from[k] = ids
          BY <1>3, <3>2 DEF IsAppended, Taken
        <4>2. k = scan.n /\ scan.n <= 10 + Len(scan.pids)
          <5>1. Taken = scan.n - 1
            BY <1>1, <1>2 DEF Placed, Scanning
          <5>2. scan.n \in 1 .. 10 + Len(scan.pids)
            BY <1>1, FixedNumbers DEF ElmTyped
          <5>3. \A t \in Nat, n \in Nat, m \in Nat : t = n - 1 /\ n \in 1 .. 10 + m => t + 1 = n /\ n <= 10 + m
            OBVIOUS
          <5> QED BY <1>5, <3>2, <5>1, <5>2, <5>3
        <4>3. k - c \in 1 .. 10 + Len(scan.pids) /\ scan.n = c + (k - c)
          <5>1. \A n \in Nat, m \in Nat : n > c /\ n <= 10 + m => n - c \in 1 .. 10 + m /\ n = c + (n - c)
            OBVIOUS
          <5> QED BY <1>5, <2>1, <4>2, <5>1
        <4> PICK j : j = k - c
          OBVIOUS
        <4>4. j \in 1 .. 10 + Len(scan.pids) /\ scan.n = c + j /\ (j >= 2 \/ d = 0)
          BY <2>1, <4>3
        <4>5. ids = << << scans, j >> >>
          BY <1>2, <4>4, AnswerTaken
        <4> QED BY <4>1, <4>5
      <3>3. \A x \in Nat : \A i \in 1 .. x + 1 : i <= x \/ i = x + 1
        OBVIOUS
      <3> QED BY <1>5, <3>1, <3>2, <3>3
    <2> QED BY <1>2, <1>6, <2>1 DEF TakenInv
  <1>11. BufferedInv(c, d)'
    <2>1. ASSUME NEW k \in 1 .. Buffered - 1
          PROVE  LET j == Taken + 1 + k - c
                 IN  j > 0 => /\ IsList(rx'[k]) /\ rx'[k] # << >>
                              /\ Answers(j, rx'[k][Len(rx'[k])])
                              /\ j >= 2 \/ d = 0 => Len(rx'[k]) = 1
      <3>1. rx'[k] = rx[k + 1]
        BY <1>4 DEF IsTail, Buffered
      <3>2. k + 1 \in 1 .. Buffered /\ Taken + (k + 1) - c = Taken + 1 + k - c
        BY <1>5
      <3>3. LET j == Taken + (k + 1) - c
            IN  j > 0 => /\ IsList(rx[k + 1]) /\ rx[k + 1] # << >>
                         /\ Answers(j, rx[k + 1][Len(rx[k + 1])])
                         /\ j >= 2 \/ d = 0 => Len(rx[k + 1]) = 1
        BY <3>2 DEF LineInv, BufferedInv
      <3> QED BY <3>1, <3>2, <3>3
    <2> QED BY <1>6, <1>8, <2>1 DEF BufferedInv, Answers, Tuned
  <1>12. OnLinkInv(c)' /\ AwaitedInv(c)'
    BY <1>2, <1>6, <1>7, <1>8 DEF LineInv, OnLinkInv, AwaitedInv, Answers, Tuned
  <1> QED BY <1>9, <1>10, <1>11, <1>12 DEF LineInv

(* An answer that a reader refuses.                                        *)
LEMMA RefusingKeeps ==
    ASSUME ElmInv, OneAdapter, Taking, NEW s, NEW bytes, Took(s, bytes), Throws(Command, bytes),
           scan' = Failed(s)
    PROVE  ElmInv'
  <1> PICK t : t = Failed(s)
    OBVIOUS
  <1>1. /\ scan.at = "wait" /\ rx # << >> /\ rx' = Tail(rx)
        /\ scans' = scans /\ connected' = connected /\ adapter' = adapter /\ inbox' = inbox
        /\ outbox' = outbox /\ begun' = begun /\ rest' = rest
    BY DEF Taking
  <1>2. ElmTyped /\ Scanning
    BY <1>1 DEF ElmInv, Scanning
  <1>3. /\ DOMAIN s = ScanFields /\ s.n = scan.n /\ s.pids = scan.pids /\ s.behind = scan.behind
        /\ s.from = Append(scan.from, Ids(Head(rx)))
    BY DEF Took
  <1>4. /\ DOMAIN scan' = ScanFields /\ scan'.at \in {"idle", "close"} /\ scan'.outcome = "failed"
        /\ scan'.n = scan.n /\ scan'.pids = scan.pids /\ scan'.from = s.from
        /\ scan'.behind = scan.behind
    BY <1>3, FailedFields
  <1>5. IsList(scan'.from)
    <2> PICK ids : ids = Ids(Head(rx))
      OBVIOUS
    <2>1. IsAppended(scan'.from, scan.from, ids)
      BY <1>2, <1>3, <1>4, Listed DEF ElmTyped
    <2> QED BY <2>1 DEF IsAppended
  <1>6. AnswersAreRead => FailsForAReason'
    <2> SUFFICES ASSUME AnswersAreRead PROVE FailsForAReason'
      OBVIOUS
    <2>1. PICK c \in Nat, d \in 0 .. 1 : Behind(c, d) /\ LineInv(c, d)
      BY <1>2 DEF ElmInv, ScanningInv
    <2>2. CASE c > 0
      BY <1>4, <2>1, <2>2 DEF Behind, FailsForAReason, Excused
    <2>3. CASE c = 0
      <3>1. bytes = Sanitized(TextOf(Head(rx))) /\ LineInv(0, d)
        BY <2>1, <2>3 DEF Took
      <3>2. CASE scan.n >= 7 /\ adapter.honoursS0
        <4>1. Taken < VinRead
          BY <2>1, <2>3, <3>2 DEF Behind
        <4>2. scan.n = VinRead
          BY <1>1, <3>1, <3>2, <4>1, WithoutSpaces, FixedNumbers
        <4> QED BY <1>1, <1>4, <3>2, <4>2 DEF FailsForAReason
      <3>3. CASE ~(scan.n >= 7 /\ adapter.honoursS0)
        <4>1. \E p \in ToSet(scan.pids) \cap Supported : ~Decodable(p, PidBytes(p))
          BY <1>1, <3>1, <3>3, ThrowsForAReason
        <4> QED BY <1>4, <4>1 DEF FailsForAReason, Excused
      <3> QED BY <3>2, <3>3
    <2> QED BY <2>2, <2>3
  <1>7. Promised'
    BY <1>4, <1>6 DEF Promised, PublishedInSync, ScanIsTrue
  <1> QED BY <1>1, <1>2, <1>4, <1>5, <1>7, EndingStep DEF ElmTyped

(* What is learned leaves the scan where it was.                           *)
LEMMA LearningKeeps ==
    ASSUME ElmInv, scan.at = "wait", NEW s, NEW bytes, Took(s, bytes), NEW t, t = Learned(s, Command, bytes)
    PROVE  /\ Kept(t, s) /\ t.pids = scan.pids /\ t.n = scan.n /\ t.outcome = "none"
           /\ t.behind = scan.behind /\ t.lost = scan.lost
           /\ IsAppended(t.from, scan.from, Ids(Head(rx))) /\ Len(t.from) = scan.n
           /\ t.from = Append(scan.from, Ids(Head(rx)))
  <1>1. ElmTyped /\ Placed
    BY DEF ElmInv
  <1>2. /\ DOMAIN s = ScanFields /\ s.n = scan.n /\ s.pids = scan.pids /\ s.behind = scan.behind
        /\ s.from = Append(scan.from, Ids(Head(rx))) /\ s.outcome = scan.outcome /\ s.lost = scan.lost
    BY DEF Took
  <1>3. Kept(t, s)
    <2>1. scan.n \in 1 .. 6 \/ scan.n = 7 \/ scan.n \in 8 .. 10 \/ scan.n > 10
      <3>1. \A x \in Nat : x > 0 => x \in 1 .. 6 \/ x = 7 \/ x \in 8 .. 10 \/ x > 10
        OBVIOUS
      <3>2. scan.n \in Nat /\ scan.n > 0
        BY <1>1, Sizes
      <3> QED BY <3>1, <3>2
    <2> PICK command : command = Command
      OBVIOUS
    <2>2. \/ command[1] = "AT" \/ command = << "09", "02" >> \/ command \in ToSet(CodeReads)
          \/ \E pid : command = << "01", pid >>
      BY <1>1, <2>1, CommandAt
    <2>3. command[1] = "AT" => Kept(t, s)
      <3>1. command[1] = "AT" => t = s
        BY <1>2, LearnedAt
      <3> QED BY <1>2, <3>1 DEF Kept
    <2>4. t = Learned(s, command, bytes)
      OBVIOUS
    <2>5. command = << "09", "02" >> => Kept(t, s)
      BY <1>2, <2>4, LearnedAt
    <2>6. command \in ToSet(CodeReads) => Kept(t, s)
      BY <1>2, <2>4, LearnedAt
    <2>7. \A pid : command = << "01", pid >> => Kept(t, s)
      BY <1>2, <2>4, LearnedAt
    <2> QED BY <2>2, <2>3, <2>5, <2>6, <2>7
  <1> PICK ids : ids = Ids(Head(rx))
    OBVIOUS
  <1>4. t.from = s.from /\ IsAppended(t.from, scan.from, ids)
    BY <1>1, <1>2, <1>3, Listed DEF ElmTyped, Kept
  <1>5. Len(t.from) = scan.n
    <2>1. Taken = scan.n - 1 /\ Len(t.from) = Taken + 1
      BY <1>1, <1>4 DEF Placed, Scanning, IsAppended, Taken
    <2>2. \A x \in Nat, y \in Nat : x = y - 1 => x + 1 = y
      OBVIOUS
    <2> QED BY <1>1, <2>1, <2>2, Sizes
  <1> QED BY <1>1, <1>2, <1>3, <1>4, <1>5 DEF Kept, Placed, Scanning

(* An answer that is read: in step it is read right, and a scan that is    *)
(* behind has not met the reader it stumbles at.                           *)
LEMMA ReadOn ==
    ASSUME ElmInv, OneAdapter, Taking, NEW s, NEW bytes, Took(s, bytes), ~Throws(Command, bytes),
           NEW t, t = Learned(s, Command, bytes), NEW c \in Nat, NEW d \in 0 .. 1,
           Behind(c, d), LineInv(c, d)
    PROVE  /\ AnswersAreRead /\ c = 0 =>
                 KnowsVehicle(t) /\ (adapter.honoursS0 => scan.n < VinRead)
           /\ TalkIsNoData /\ c > 0 /\ scans <= LastCodeRead =>
                 scan.n + 1 <= Stumbles(c) /\ scan.n < 10
  <1>1. ElmTyped /\ Placed /\ scan.at = "wait" /\ rx # << >>
    BY DEF ElmInv, Taking
  <1>2. ASSUME AnswersAreRead, c = 0
        PROVE  KnowsVehicle(t) /\ (adapter.honoursS0 => scan.n < VinRead)
    <2>1. Len(s.from) = scan.n
      <3> PICK ids : ids = Ids(Head(rx))
        OBVIOUS
      <3>1. s.from = Append(scan.from, ids)
        BY DEF Took
      <3>2. IsAppended(s.from, scan.from, ids)
        BY <1>1, <3>1, Listed DEF ElmTyped
      <3>3. Taken = scan.n - 1 /\ Len(s.from) = Taken + 1
        BY <1>1, <3>2 DEF Placed, Scanning, IsAppended, Taken
      <3>4. \A x \in Nat, y \in Nat : x = y - 1 => x + 1 = y
        OBVIOUS
      <3> QED BY <1>1, <3>3, <3>4, Sizes
    <2>2. LineInv(0, d) /\ KnowsVehicle(scan) /\ (adapter.honoursS0 => Taken < VinRead)
      BY <1>2 DEF Behind
    <2>3. /\ bytes = Sanitized(TextOf(Head(rx))) /\ DOMAIN s = ScanFields /\ s.pids = scan.pids
          /\ s.vin = scan.vin /\ s.evidence = scan.evidence /\ s.values = scan.values
      BY DEF Took
    <2>4. scan.n >= 7 => ~adapter.honoursS0
      <3> SUFFICES ASSUME scan.n >= 7, adapter.honoursS0 PROVE FALSE
        OBVIOUS
      <3> QED BY <1>1, <1>2, <2>2, <2>3, WithoutSpaces
    <2>5. KnowsVehicle(t)
      BY <1>1, <1>2, <2>1, <2>2, <2>3, <2>4, ReadRight
    <2>6. ~(scan.n >= 7) => scan.n < VinRead
      BY <1>1, Sizes, FixedNumbers
    <2> QED BY <2>4, <2>5, <2>6
  <1>3. ASSUME TalkIsNoData, c > 0, scans <= LastCodeRead
        PROVE  scan.n + 1 <= Stumbles(c) /\ scan.n < 10
    <2>1. scan.n <= Stumbles(c)
      BY <1>3 DEF Behind
    <2>2. scan.n # Stumbles(c)
      <3>1. bytes = Sanitized(TextOf(Head(rx)))
        BY DEF Took
      <3> QED BY <1>1, <1>3, <3>1, Stumbling
    <2>3. Stumbles(c) \in Nat /\ Stumbles(c) <= 10
      BY FixedNumbers DEF Stumbles
    <2>4. scan.n \in Nat
      BY <1>1, Sizes
    <2>5. \A x \in Nat, y \in Nat : x <= y /\ x # y /\ y <= 10 => x + 1 <= y /\ x < 10
      OBVIOUS
    <2> QED BY <2>1, <2>2, <2>3, <2>4, <2>5
  <1> QED BY <1>2, <1>3

LEMMA ReadingOnKeeps ==
    ASSUME ElmInv, OneAdapter, Taking, NEW s, NEW bytes, Took(s, bytes), ~Throws(Command, bytes),
           NEW t, t = Learned(s, Command, bytes),
           DOMAIN scan' = ScanFields, scan'.pids = t.pids, scan'.vin = t.vin,
           scan'.evidence = t.evidence, scan'.values = t.values, scan'.outcome = t.outcome,
           scan'.from = t.from, scan'.behind = t.behind, scan'.lost = t.lost,
           \/ scan.n = 10 /\ scan'.n = 10 /\ scan'.at = "ask"
           \/ scan.n # 10 /\ scan.n # Len(Commands) /\ scan'.n = scan.n + 1 /\ scan'.at = "send"
    PROVE  ElmInv'
  <1>1. /\ scan.at = "wait" /\ rx # << >> /\ rx' = Tail(rx)
        /\ scans' = scans /\ connected' = connected /\ adapter' = adapter /\ inbox' = inbox
        /\ outbox' = outbox /\ begun' = begun /\ rest' = rest
    BY DEF Taking
  <1>2. ElmTyped /\ Placed /\ Scanning /\ Scanning'
    BY <1>1 DEF ElmInv, Scanning
  <1>3. /\ scan'.pids = scan.pids /\ scan'.outcome = "none" /\ scan'.behind = scan.behind
        /\ scan'.lost = scan.lost /\ IsList(scan'.from) /\ Len(scan'.from) = scan.n
        /\ scan'.from = Append(scan.from, Ids(Head(rx)))
    BY <1>1, LearningKeeps DEF IsAppended
  <1> PICK n, m : n = scan.n /\ m = Len(scan.pids)
    OBVIOUS
  <1>4. n \in Nat /\ n > 0 /\ m \in Nat /\ n <= 10 + m /\ Len(Commands) = 10 + m
    <2>1. scan.n \in 1 .. 10 + Len(scan.pids)
      BY <1>2, FixedNumbers DEF ElmTyped
    <2>2. \A x \in Nat, y \in Nat : x \in 1 .. 10 + y => x <= 10 + y
      OBVIOUS
    <2>3. scan.n \in Nat /\ scan.n > 0 /\ Len(scan.pids) \in Nat /\ Len(Commands) = 10 + Len(scan.pids)
      BY <1>2, Sizes
    <2>4. scan.n <= 10 + Len(scan.pids)
      BY <2>1, <2>2, <2>3
    <2> QED BY <2>3, <2>4
  <1>5. \/ n = 10 /\ scan'.n = 10 /\ scan'.at = "ask"
        \/ n # 10 /\ n # 10 + m /\ scan'.n = n + 1 /\ scan'.at = "send"
    BY <1>4
  <1>6. scan'.n \in 1 .. 10 + m
    BY <1>4, <1>5
  <1>7. IsList(rx')
    <2>1. IsTail(rx', rx)
      BY <1>1, <1>2, Tailed DEF ElmTyped
    <2> QED BY <2>1 DEF IsTail
  <1>8. ElmTyped'
    <2>1. scan'.n \in 1 .. LastCodeRead + Len(scan'.pids)
      BY <1>3, <1>6, FixedNumbers
    <2>2. scan'.at \in {"idle", "send", "wait", "ask", "close"}
      BY <1>5
    <2> QED BY <1>1, <1>2, <1>3, <1>7, <2>1, <2>2 DEF ElmTyped
  <1>9. Placed'
    <2>1. Taken' = n
      BY <1>3 DEF Taken
    <2>2. n = (IF scan'.at = "ask" THEN scan'.n ELSE scan'.n - 1)
      BY <1>4, <1>5
    <2>3. scan'.n <= 10 => n <= 10
      BY <1>4, <1>5
    <2>4. scan'.at = "ask" => scan'.n = LastCodeRead
      BY <1>5, FixedNumbers
    <2>5. scan'.n <= LastCodeRead => scan'.pids = << >>
      BY <1>2, <1>3, <2>3, FixedNumbers DEF Placed
    <2> QED BY <1>1, <1>2, <1>3, <2>1, <2>2, <2>4, <2>5 DEF Placed
  <1>10. Sent' = Sent
    <2>1. Sent = n
      BY <1>1 DEF Sent
    <2>2. (IF scan'.at = "send" THEN scan'.n - 1 ELSE scan'.n) = n
      BY <1>4, <1>5
    <2> QED BY <2>1, <2>2 DEF Sent
  <1>11. ScanningInv'
    <2>1. PICK c \in Nat, d \in 0 .. 1 : Behind(c, d) /\ LineInv(c, d)
      BY <1>2 DEF ElmInv, ScanningInv
    <2>2. LineInv(c, d)'
      BY <1>3, <1>10, <2>1, TakingMoves
    <2>3. /\ AnswersAreRead /\ c = 0 => KnowsVehicle(t) /\ (adapter.honoursS0 => scan.n < VinRead)
          /\ TalkIsNoData /\ c > 0 /\ scans <= LastCodeRead =>
                scan.n + 1 <= Stumbles(c) /\ scan.n < 10
      BY <2>1, ReadOn
    <2>4. AnswersAreRead /\ c = 0 => KnowsVehicle(scan') /\ (adapter.honoursS0 => Taken' < VinRead)
      <3>1. KnowsVehicle(t) => KnowsVehicle(scan')
        BY DEF KnowsVehicle
      <3>2. Taken' = scan.n
        BY <1>3 DEF Taken
      <3> QED BY <2>3, <3>1, <3>2
    <2>5. TalkIsNoData /\ c > 0 /\ scans <= LastCodeRead => scan'.at # "ask" /\ scan'.n <= Stumbles(c)
      <3>1. n < 10 => scan'.at = "send" /\ scan'.n = n + 1
        BY <1>4, <1>5
      <3> QED BY <2>3, <3>1
    <2>6. Behind(c, d)'
      BY <1>1, <1>3, <2>1, <2>4, <2>5 DEF Behind
    <2> HIDE DEF Behind, LineInv
    <2> QED BY <2>2, <2>6 DEF ScanningInv
  <1>12. Promised' /\ LeftInv'
    BY <1>2, <1>3 DEF Promised, PublishedInSync, ScanIsTrue, FailsForAReason, LeftInv
  <1> QED BY <1>8, <1>9, <1>11, <1>12 DEF ElmInv

(* A scan that is published.                                               *)
LEMMA PromiseKept ==
    ASSUME scans' = scans, IsList(scan'.pids), scan'.outcome = "published",
           Len(scan'.from) = 10 + Len(scan'.pids),
           NEW c \in Nat, TalkIsNoData /\ scans <= LastCodeRead => c = 0,
           AnswersAreRead /\ c = 0 => KnowsVehicle(scan'),
           \A k \in 7 .. 10 + Len(scan'.pids) : c = 0 => scan'.from[k] = << << scans, k >> >>
    PROVE  Promised'
  <1>1. Len(Commands') = 10 + Len(scan'.pids)
    <2>1. Commands' = CommandsFor(scan'.pids)
      BY DEF Commands, CommandsFor, FixedCommands, PidReads
    <2> QED BY <2>1, CommandsAre
  <1>2. TalkIsNoData => PublishedInSync'
    <2> SUFFICES ASSUME TalkIsNoData, scans <= LastCodeRead
                 PROVE  /\ Len(scan'.from) = Len(Commands')
                        /\ \A k \in VinRead .. Len(Commands') : scan'.from[k] = << << scans, k >> >>
      BY DEF PublishedInSync
    <2>1. c = 0
      OBVIOUS
    <2> QED BY <1>1, <2>1, FixedNumbers
  <1>3. TalkIsNoData /\ AnswersAreRead => ScanIsTrue'
    <2> SUFFICES ASSUME TalkIsNoData, AnswersAreRead, scans <= LastCodeRead PROVE ScanIsTrue'
      BY DEF ScanIsTrue
    <2>1. KnowsVehicle(scan')
      OBVIOUS
    <2> PICK t : t = scan'
      OBVIOUS
    <2>2. /\ t.vin = Vehicle.vin
          /\ t.evidence = UNION {{<< e, Status(r[1]) >> : e \in ToSet(Stored(r[1]))} : r \in ToSet(CodeReads)}
          /\ t.values = [p \in ToSet(t.pids) \cap Supported |-> PidBytes(p)]
      BY <2>1, TruthTold
    <2> QED BY <2>2 DEF ScanIsTrue
  <1>4. FailsForAReason'
    BY DEF FailsForAReason
  <1> QED BY <1>2, <1>3, <1>4 DEF Promised

LEMMA PublishingKeeps ==
    ASSUME ElmInv, OneAdapter, Taking, NEW s, NEW bytes, Took(s, bytes), ~Throws(Command, bytes),
           NEW t, t = Learned(s, Command, bytes), scan.n # 10, scan.n = Len(Commands),
           scan' = Published(t)
    PROVE  ElmInv'
  <1>1. /\ scan.at = "wait" /\ rx # << >> /\ rx' = Tail(rx)
        /\ scans' = scans /\ connected' = connected /\ adapter' = adapter /\ inbox' = inbox
        /\ outbox' = outbox /\ begun' = begun /\ rest' = rest
    BY DEF Taking
  <1>2. ElmTyped /\ Placed /\ Scanning
    BY <1>1 DEF ElmInv, Scanning
  <1> PICK ids : ids = Ids(Head(rx))
    OBVIOUS
  <1>3. /\ DOMAIN t = ScanFields /\ t.n = scan.n /\ t.pids = scan.pids /\ Len(t.from) = scan.n
        /\ IsAppended(t.from, scan.from, ids)
    BY <1>1, LearningKeeps DEF Kept
  <1>4. /\ DOMAIN scan' = ScanFields /\ scan'.at = "close" /\ scan'.outcome = "published"
        /\ scan'.n = scan.n /\ scan'.pids = scan.pids /\ scan'.vin = t.vin
        /\ scan'.evidence = t.evidence /\ scan'.values = t.values /\ scan'.from = t.from
    BY <1>3 DEF Published, ScanFields
  <1> PICK n, m : n = scan.n /\ m = Len(scan.pids)
    OBVIOUS
  <1>5. n \in Nat /\ m \in Nat /\ n = 10 + m /\ n > 10
    <2>1. scan.n \in Nat /\ Len(scan.pids) \in Nat /\ scan.n = 10 + Len(scan.pids)
      BY <1>2, Sizes
    <2>2. \A x \in Nat, y \in Nat : x = 10 + y /\ x # 10 => x > 10
      OBVIOUS
    <2> QED BY <2>1, <2>2
  <1>6. IsList(scan'.from)
    BY <1>3, <1>4 DEF IsAppended
  <1>7. Promised'
    <2>1. PICK c \in Nat, d \in 0 .. 1 : Behind(c, d) /\ LineInv(c, d)
      BY <1>2 DEF ElmInv, ScanningInv
    <2>2. /\ AnswersAreRead /\ c = 0 => KnowsVehicle(t)
          /\ TalkIsNoData /\ c > 0 /\ scans <= LastCodeRead => scan.n < 10
      BY <2>1, ReadOn
    <2>3. TalkIsNoData /\ scans <= LastCodeRead => c = 0
      <3>1. ~(n < 10)
        BY <1>5
      <3> QED BY <2>2, <3>1
    <2>4. AnswersAreRead /\ c = 0 => KnowsVehicle(scan')
      <3>1. KnowsVehicle(t) => KnowsVehicle(scan')
        BY <1>3, <1>4 DEF KnowsVehicle
      <3> QED BY <2>2, <3>1
    <2>5. ASSUME NEW k \in 7 .. n, c = 0 PROVE scan'.from[k] = << << scans, k >> >>
      <3>1. Taken = n - 1 /\ Taken \in Nat
        BY <1>1, <1>2, Sizes DEF Placed, Scanning
      <3>2. CASE k < n
        <4>1. k \in 1 .. Taken /\ k > 0 /\ k - 0 = k /\ k >= 2
          BY <1>5, <3>1, <3>2
        <4>2. scan.from[k] = << << scans, k - 0 >> >>
          BY <2>1, <2>5, <4>1 DEF LineInv, TakenInv
        <4>3. scan'.from[k] = scan.from[k]
          BY <1>3, <1>4, <4>1 DEF IsAppended, Taken
        <4> QED BY <4>1, <4>2, <4>3
      <3>3. CASE k = n
        <4>1. n \in 1 .. 10 + Len(scan.pids) /\ scan.n = 0 + n /\ n >= 2 /\ 0 \in Nat
          BY <1>5
        <4>2. LineInv(0, d)
          BY <2>1, <2>5
        <4>3. ids = << << scans, n >> >>
          BY <1>1, <4>1, <4>2, AnswerTaken
        <4>4. Taken + 1 = n
          BY <1>5, <3>1
        <4>5. scan'.from[n] = ids
          BY <1>3, <1>4, <4>4 DEF IsAppended, Taken
        <4> QED BY <3>3, <4>3, <4>5
      <3> QED BY <1>5, <3>2, <3>3
    <2>6. Len(scan'.from) = 10 + Len(scan'.pids) /\ IsList(scan'.pids)
      BY <1>2, <1>3, <1>4, <1>5 DEF ElmTyped
    <2>7. \A k \in 7 .. 10 + Len(scan'.pids) : c = 0 => scan'.from[k] = << << scans, k >> >>
      BY <1>4, <1>5, <2>5
    <2> QED BY <1>1, <1>4, <2>3, <2>4, <2>6, <2>7, PromiseKept
  <1> QED BY <1>1, <1>2, <1>4, <1>6, <1>7, EndingStep DEF ElmTyped

LEMMA TakeAnswerKeeps == ElmInv /\ OneAdapter /\ TakeAnswer => ElmInv'
  <1> SUFFICES ASSUME ElmInv, OneAdapter, TakeAnswer PROVE ElmInv'
    OBVIOUS
  <1>1. ElmTyped
    BY DEF ElmInv
  <1>2. Taking
    BY <1>1, TakeAnswerIs
  <1>3. PICK s, bytes : /\ Took(s, bytes)
                        /\ Throws(Command, bytes) => scan' = Failed(s)
                        /\ ~Throws(Command, bytes) => scan' = Onward(Learned(s, Command, bytes))
    BY <1>1, TakeAnswerIs
  <1>4. CASE Throws(Command, bytes)
    BY <1>2, <1>3, <1>4, RefusingKeeps
  <1>5. CASE ~Throws(Command, bytes)
    <2> PICK t : t = Learned(s, Command, bytes)
      OBVIOUS
    <2>1. DOMAIN t = ScanFields /\ t.n = scan.n
      BY <1>2, <1>3, LearningKeeps DEF Taking, Kept
    <2>2. scan' = Onward(t)
      BY <1>3, <1>5
    <2>3. CASE scan.n = 10
      <3>1. scan' = [t EXCEPT !.at = "ask"]
        BY <2>1, <2>2, <2>3, FixedNumbers DEF Onward
      <3>2. /\ DOMAIN scan' = ScanFields /\ scan'.pids = t.pids /\ scan'.vin = t.vin
            /\ scan'.evidence = t.evidence /\ scan'.values = t.values /\ scan'.outcome = t.outcome
            /\ scan'.from = t.from /\ scan'.behind = t.behind /\ scan'.lost = t.lost
            /\ scan'.n = 10 /\ scan'.at = "ask"
        BY <2>1, <2>3, <3>1 DEF ScanFields
      <3> QED BY <1>2, <1>3, <1>5, <2>3, <3>2, ReadingOnKeeps
    <2>4. CASE scan.n # 10 /\ scan.n = Len(Commands)
      <3>1. scan' = Published(t)
        BY <2>1, <2>2, <2>4, FixedNumbers DEF Onward
      <3> QED BY <1>2, <1>3, <1>5, <2>4, <3>1, PublishingKeeps
    <2>5. CASE scan.n # 10 /\ scan.n # Len(Commands)
      <3>1. scan' = [t EXCEPT !.n = scan.n + 1, !.at = "send"]
        BY <2>1, <2>2, <2>5, FixedNumbers DEF Onward
      <3>2. /\ DOMAIN scan' = ScanFields /\ scan'.pids = t.pids /\ scan'.vin = t.vin
            /\ scan'.evidence = t.evidence /\ scan'.values = t.values /\ scan'.outcome = t.outcome
            /\ scan'.from = t.from /\ scan'.behind = t.behind /\ scan'.lost = t.lost
            /\ scan'.n = scan.n + 1 /\ scan'.at = "send"
        BY <2>1, <3>1 DEF ScanFields
      <3> QED BY <1>2, <1>3, <1>5, <2>5, <3>2, ReadingOnKeeps
    <2> QED BY <2>3, <2>4, <2>5
  <1> QED BY <1>4, <1>5

-----------------------------------------------------------------------------
(* The backend names the PIDs to read.                                     *)
LEMMA KnowsWithPids ==
    ASSUME NEW s, IsList(s.pids), Len(s.from) = 10, KnowsVehicle(s),
           NEW t, IsList(t.pids), t.vin = s.vin, t.evidence = s.evidence, t.values = s.values, t.from = s.from
    PROVE  KnowsVehicle(t)
  <1>1. ReadUpTo(s.pids, 10) = {} /\ ReadUpTo(t.pids, 10) = {}
    BY ReadsGrow
  <1>2. ValuesUpTo(s.pids, 10) = ValuesUpTo(t.pids, 10)
    BY <1>1 DEF ValuesUpTo
  <1> QED BY <1>2 DEF KnowsVehicle

(* No place in the line is after the last one sent.                        *)
InPlace(taken, buffered, sent, untaken, c, last) ==
    taken + buffered + sent + untaken <= c + last =>
        /\ \A k \in 1 .. buffered : taken + k - c <= last /\ taken + k - c \in Int
        /\ \A k \in 1 .. sent : taken + buffered + k - c <= last /\ taken + buffered + k - c \in Int
        /\ \A k \in 1 .. untaken : taken + buffered + sent + k - c <= last /\ taken + buffered + sent + k - c \in Int

LEMMA AllInPlace ==
    ASSUME NEW taken \in Nat, NEW buffered \in Nat, NEW sent \in Nat, NEW untaken \in Nat,
           NEW c \in Nat, NEW last \in Nat
    PROVE  InPlace(taken, buffered, sent, untaken, c, last)
  BY DEF InPlace

LEMMA PlannedContinues ==
    ASSUME ElmInv, scan.at = "ask", NEW plan \in Plans, PidsToRead(plan) # << >>,
           DOMAIN scan' = ScanFields, scan'.pids = PidsToRead(plan), scan'.n = scan.n + 1,
           scan'.at = "send", scan'.vin = scan.vin, scan'.evidence = scan.evidence,
           scan'.values = scan.values, scan'.outcome = scan.outcome, scan'.from = scan.from,
           scan'.behind = scan.behind, scan'.lost = scan.lost,
           scans' = scans, connected' = connected, adapter' = adapter, inbox' = inbox,
           outbox' = outbox, begun' = begun, rx' = rx, rest' = rest
    PROVE  ElmInv'
  <1>1. ElmTyped /\ Placed /\ Scanning /\ Scanning'
    BY DEF ElmInv, Scanning
  <1>2. scan.n = 10 /\ scan.pids = << >> /\ Taken = 10 /\ Sent = 10 /\ scan'.n = 11
    <2>1. scan.n = 10
      BY <1>1, FixedNumbers DEF Placed
    <2> QED BY <1>1, <2>1, FixedNumbers DEF Placed, Sent
  <1>3. Taken' = Taken /\ Buffered' = Buffered /\ OnLink' = OnLink /\ Untaken' = Untaken
        /\ InLine' = InLine /\ Orphaned' = Orphaned
    <2>1. Taken' = Taken /\ Buffered' = Buffered /\ OnLink' = OnLink /\ Untaken' = Untaken
      BY DEF Taken, Buffered, OnLink, Untaken
    <2> QED BY <2>1 DEF InLine, Orphaned
  <1>4. Sent' = 10
    BY <1>2 DEF Sent
  <1> PICK pids : pids = PidsToRead(plan)
    OBVIOUS
  <1>5. IsList(pids) /\ Len(pids) \in Nat /\ Len(pids) >= 1 /\ Range(pids) = ToSet(pids)
    <2>1. IsList(pids)
      BY PidsToReadAreListed
    <2>2. Len(pids) \in Nat /\ Len(pids) # 0
      BY <2>1, EmptySeq, LenProperties DEF IsList
    <2>3. \A x \in Nat : x # 0 => x >= 1
      OBVIOUS
    <2>4. DOMAIN pids = 1 .. Len(pids)
      BY <2>1, LenProperties DEF IsList
    <2>5. Range(pids) = ToSet(pids)
      BY <2>4 DEF Range, ToSet
    <2> QED BY <2>1, <2>2, <2>3, <2>5
  <1>6. ElmTyped'
    <2>1. 11 \in 1 .. 10 + Len(pids)
      <3>1. \A x \in Nat : x >= 1 => 11 \in 1 .. 10 + x
        OBVIOUS
      <3> QED BY <1>5, <3>1
    <2>2. scan'.n \in 1 .. LastCodeRead + Len(scan'.pids)
      BY <1>2, <2>1, FixedNumbers
    <2>3. \A p \in Range(scan'.pids) : \E r \in Plans : p \in ToSet(PidsToRead(r))
      BY <1>5
    <2> QED BY <1>1, <1>5, <2>2, <2>3 DEF ElmTyped
  <1>7. Placed'
    <2>1. 11 - 1 = 10 /\ ~(11 <= 10)
      OBVIOUS
    <2> QED BY <1>1, <1>2, <1>3, <2>1, FixedNumbers DEF Placed, Scanning
  <1>8. \A j \in Int : j > 0 /\ j <= 10 => Request(j)' = Request(j)
    <2>1. \A j \in Int : j > 0 /\ j <= 10 => j \in 1 .. 10
      OBVIOUS
    <2>2. Commands' = CommandsFor(pids)
      BY DEF Commands, CommandsFor, FixedCommands, PidReads
    <2>3. \A j \in 1 .. 10 : Commands[j] = FixedCommands[j]
      BY <1>1, CommandsAre, ScanCommands DEF ElmTyped
    <2>4. \A j \in 1 .. 10 : Commands'[j] = FixedCommands[j]
      BY <1>5, <2>2, CommandsAre
    <2> QED BY <2>1, <2>3, <2>4 DEF Request
  <1>9. ScanningInv'
    <2>1. PICK c \in Nat, d \in 0 .. 1 : Behind(c, d) /\ LineInv(c, d)
      BY <1>1 DEF ElmInv, ScanningInv
    <2>2. Behind(c, d)'
      <3>1. AnswersAreRead /\ c = 0 => KnowsVehicle(scan')
        <4>1. Len(scan.from) = 10 /\ IsList(scan.pids) /\ IsList(scan'.pids)
          BY <1>1, <1>2, <1>5 DEF Taken, ElmTyped
        <4>2. AnswersAreRead /\ c = 0 => KnowsVehicle(scan)
          BY <2>1 DEF Behind
        <4> QED BY <4>1, <4>2, KnowsWithPids
      <3>2. adapter' = adapter
        OBVIOUS
      <3> QED BY <1>3, <2>1, <3>1, <3>2 DEF Behind
    <2>3. InPlace(Taken, Buffered, OnLink, Untaken, c, 10) /\ InLine <= c + 10
      <3>1. InPlace(Taken, Buffered, OnLink, Untaken, c, 10)
        BY <1>1, 10 \in Nat, Sizes, AllInPlace
      <3> QED BY <1>2, <2>1, <3>1 DEF LineInv, Counted
    <2>4. /\ \A k \in 1 .. Buffered : Taken + k - c <= 10 /\ Taken + k - c \in Int
          /\ \A k \in 1 .. OnLink : Taken + Buffered + k - c <= 10 /\ Taken + Buffered + k - c \in Int
          /\ \A k \in 1 .. Untaken : /\ Taken + Buffered + OnLink + k - c <= 10
                                     /\ Taken + Buffered + OnLink + k - c \in Int
      BY <2>3 DEF InPlace, InLine
    <2>5. Counted(c, d)' /\ TakenInv(c, d)'
      BY <1>2, <1>3, <1>4, <2>1 DEF LineInv, Counted, TakenInv
    <2>6. BufferedInv(c, d)'
      BY <1>3, <1>8, <2>1, <2>4 DEF LineInv, BufferedInv, Answers, Tuned
    <2>7. OnLinkInv(c)'
      BY <1>3, <1>8, <2>1, <2>4 DEF LineInv, OnLinkInv, Answers, Tuned
    <2>8. AwaitedInv(c)'
      BY <1>3, <1>8, <2>1, <2>4 DEF LineInv, AwaitedInv, Tuned
    <2>9. LineInv(c, d)'
      BY <2>5, <2>6, <2>7, <2>8 DEF LineInv
    <2> HIDE DEF Behind, LineInv
    <2> QED BY <2>2, <2>9 DEF ScanningInv
  <1>10. Promised' /\ LeftInv'
    BY <1>1 DEF Promised, PublishedInSync, ScanIsTrue, FailsForAReason, LeftInv, Placed
  <1> QED BY <1>6, <1>7, <1>9, <1>10 DEF ElmInv

LEMMA PlannedKeeps == ASSUME NEW plan \in Plans PROVE ElmInv /\ Planned(plan) => ElmInv'
  <1> SUFFICES ASSUME ElmInv, Planned(plan) PROVE ElmInv'
    OBVIOUS
  <1> PICK pids : pids = PidsToRead(plan)
    OBVIOUS
  <1>1. /\ scan.at = "ask"
        /\ scans' = scans /\ connected' = connected /\ adapter' = adapter /\ inbox' = inbox
        /\ outbox' = outbox /\ begun' = begun /\ rx' = rx /\ rest' = rest
    BY DEF Planned, link
  <1>2. ElmTyped /\ Placed /\ Scanning
    BY <1>1 DEF ElmInv, Scanning
  <1> PICK s : s = [scan EXCEPT !.pids = pids]
    OBVIOUS
  <1>3. scan' = IF s.pids = << >> THEN Published(s) ELSE [s EXCEPT !.n = @ + 1, !.at = "send"]
    BY DEF Planned
  <1>4. /\ DOMAIN s = ScanFields /\ s.pids = pids /\ s.n = scan.n /\ s.vin = scan.vin
        /\ s.evidence = scan.evidence /\ s.values = scan.values /\ s.outcome = scan.outcome
        /\ s.from = scan.from /\ s.behind = scan.behind /\ s.lost = scan.lost
    BY <1>2 DEF ElmTyped, ScanFields
  <1>5. CASE pids # << >>
    <2>1. scan' = [s EXCEPT !.n = s.n + 1, !.at = "send"]
      BY <1>3, <1>4, <1>5
    <2>2. /\ DOMAIN scan' = ScanFields /\ scan'.pids = pids /\ scan'.n = scan.n + 1
          /\ scan'.at = "send" /\ scan'.vin = scan.vin /\ scan'.evidence = scan.evidence
          /\ scan'.values = scan.values /\ scan'.outcome = scan.outcome /\ scan'.from = scan.from
          /\ scan'.behind = scan.behind /\ scan'.lost = scan.lost
      BY <1>4, <2>1 DEF ScanFields
    <2> QED BY <1>1, <1>5, <2>2, PlannedContinues
  <1>6. CASE pids = << >>
    <2>1. scan' = Published(s)
      BY <1>3, <1>4, <1>6
    <2>2. /\ DOMAIN scan' = ScanFields /\ scan'.at = "close" /\ scan'.outcome = "published"
          /\ scan'.pids = << >> /\ scan'.n = scan.n /\ scan'.vin = scan.vin
          /\ scan'.evidence = scan.evidence /\ scan'.values = scan.values /\ scan'.from = scan.from
      BY <1>4, <1>6, <2>1 DEF Published, ScanFields
    <2>3. scan.n = 10 /\ scan.pids = << >> /\ Taken = 10
      BY <1>1, <1>2, FixedNumbers DEF Placed
    <2>4. IsList(scan'.pids) /\ Len(scan'.pids) = 0 /\ Len(scan'.from) = 10 + Len(scan'.pids)
      BY <2>2, <2>3, EmptyList DEF Taken
    <2>5. Promised'
      <3>1. PICK c \in Nat, d \in 0 .. 1 : Behind(c, d) /\ LineInv(c, d)
        BY <1>2 DEF ElmInv, ScanningInv
      <3>2. TalkIsNoData /\ scans <= LastCodeRead => c = 0
        BY <1>1, <3>1 DEF Behind
      <3>3. AnswersAreRead /\ c = 0 => KnowsVehicle(scan')
        <4>1. scan'.pids = scan.pids
          BY <2>2, <2>3
        <4> QED BY <2>2, <3>1, <4>1 DEF Behind, KnowsVehicle
      <3>4. \A k \in 7 .. 10 : c = 0 => scan'.from[k] = << << scans, k >> >>
        <4>1. \A k \in 7 .. 10 : k \in 1 .. 10 /\ k > 0 /\ k - 0 = k /\ k >= 2
          OBVIOUS
        <4> QED BY <2>2, <2>3, <3>1, <4>1 DEF LineInv, TakenInv
      <3>5. \A k \in 7 .. 10 + Len(scan'.pids) : c = 0 => scan'.from[k] = << << scans, k >> >>
        BY <2>4, <3>4
      <3> QED BY <1>1, <2>2, <2>4, <3>2, <3>3, <3>5, PromiseKept
    <2>6. scan'.n \in 1 .. LastCodeRead + Len(scan'.pids)
      BY <2>2, <2>3, <2>4, FixedNumbers
    <2>7. Range(scan'.pids) = {}
      BY <2>2, EmptyList
    <2>8. IsList(scan'.from)
      BY <1>2, <2>2 DEF ElmTyped
    <2> QED BY <1>1, <1>2, <2>2, <2>4, <2>5, <2>6, <2>7, <2>8, EndingStep
  <1> QED BY <1>5, <1>6

-----------------------------------------------------------------------------
(* The theorems about the scan.                                            *)
LEMMA NextElmInv == ElmInv /\ OneAdapter /\ [ElmNext]_vars => ElmInv'
  <1> SUFFICES ASSUME ElmInv, OneAdapter, [ElmNext]_vars PROVE ElmInv'
    OBVIOUS
  <1>1. CASE Send
    BY <1>1, SendKeeps
  <1>2. CASE SendFails
    BY <1>2, SendFailsKeeps
  <1>3. CASE TakeAnswer
    BY <1>3, TakeAnswerKeeps
  <1>4. CASE Timeout
    BY <1>4, TimeoutKeeps
  <1>5. CASE BackendFails
    BY <1>5, BackendFailsKeeps
  <1>6. CASE Disconnect
    BY <1>6, DisconnectKeeps
  <1>7. CASE \E plan \in Plans : Planned(plan)
    BY <1>7, PlannedKeeps
  <1>8. CASE AdapterAnswers
    BY <1>8, AdapterAnswersKeeps
  <1>9. CASE TextNotified
    BY <1>9, TextNotifiedKeeps
  <1>10. CASE PromptNotified
    BY <1>10, PromptNotifiedKeeps
  <1>11. CASE LinkDrops
    BY <1>11, LinkDropsKeeps
  <1>12. CASE \E kept \in BOOLEAN : Connect(kept)
    BY <1>12, ConnectKeeps
  <1>13. CASE UNCHANGED vars
    <2>1. /\ scan' = scan /\ scans' = scans /\ connected' = connected /\ adapter' = adapter
          /\ inbox' = inbox /\ outbox' = outbox /\ begun' = begun /\ rx' = rx /\ rest' = rest
      BY <1>13 DEF vars
    <2>2. ElmTyped /\ LeftInv
      BY DEF ElmInv
    <2>3. /\ Taken' = Taken /\ Buffered' = Buffered /\ OnLink' = OnLink /\ Untaken' = Untaken
          /\ Orphaned' = Orphaned /\ Sent' = Sent /\ Commands' = Commands
      BY <2>1 DEF Taken, Buffered, OnLink, Untaken, Orphaned, Sent, Commands
    <2>4. ElmTyped'
      BY <2>1, <2>2 DEF ElmTyped
    <2>5. LeftInv'
      BY <2>1, <2>2, <2>3 DEF LeftInv, Scanning
    <2>6. \A c \in Nat, d \in 0 .. 1 : LineInv(c, d) => LineInv(c, d)'
      BY <2>1, <2>3 DEF LineInv, Counted, TakenInv, BufferedInv, OnLinkInv, AwaitedInv, Answers,
                        Request, Tuned, InLine
    <2> QED BY <2>1, <2>4, <2>5, <2>6, LinkStep
  <1> QED
    BY <1>1, <1>2, <1>3, <1>4, <1>5, <1>6, <1>7, <1>8, <1>9, <1>10, <1>11, <1>12, <1>13
    DEF ElmNext, Phone

(* No step brings the words of another adapter.                            *)
LEMMA NextOneAdapter == ElmInv /\ OneAdapter /\ [ElmNext]_vars => OneAdapter'
  <1> SUFFICES ASSUME ElmInv, OneAdapter, [ElmNext]_vars PROVE OneAdapter'
    OBVIOUS
  <1>1. ElmTyped
    BY DEF ElmInv
  <1>2. CASE \/ Send \/ SendFails \/ Timeout \/ BackendFails \/ (\E plan \in Plans : Planned(plan))
             \/ UNCHANGED vars
    BY <1>2 DEF OneAdapter, Said, Send, SendFails, Timeout, BackendFails, Planned, vars, link
  <1>3. CASE TakeAnswer
    <2>1. Taking /\ IsTail(rx', rx)
      BY <1>1, <1>3, TakeAnswerIs, Tailed DEF ElmTyped, Taking
    <2> QED BY <2>1 DEF Taking, IsTail, OneAdapter, Said
  <1>4. CASE Disconnect \/ LinkDrops
    <2>1. outbox' = << >> /\ adapter' = adapter /\ rx' = rx /\ rest' = rest
      BY <1>4 DEF Disconnect, LinkDrops, Cut
    <2> QED BY <2>1, EmptySeq, LenProperties DEF OneAdapter, Said
  <1>5. CASE \E kept \in BOOLEAN : Connect(kept)
    <2>1. /\ rx' = rx /\ rest' = rest /\ adapter'.honoursS0 = adapter.honoursS0
          /\ outbox' = outbox \/ outbox' = << >>
      BY <1>5 DEF Connect, Cut, PowerOn
    <2> QED BY <2>1, EmptySeq, LenProperties DEF OneAdapter, Said
  <1>6. CASE AdapterAnswers
    <2> PICK cmd : cmd = Head(inbox).cmd
      OBVIOUS
    <2> PICK answer : answer = [request |-> Head(inbox), adapter |-> Switched(adapter, cmd)]
      OBVIOUS
    <2>1. /\ adapter' = Switched(adapter, cmd) /\ outbox' = Append(outbox, answer)
          /\ rx' = rx /\ rest' = rest
      BY <1>6 DEF AdapterAnswers
    <2>2. adapter'.honoursS0 = adapter.honoursS0
      BY <1>1, <2>1 DEF ElmTyped, AdapterState, Switched
    <2>3. answer.adapter.honoursS0 = adapter.honoursS0
      BY <2>1, <2>2
    <2>4. IsAppended(outbox', outbox, answer)
      BY <1>1, <2>1, Listed DEF ElmTyped
    <2> QED BY <2>1, <2>2, <2>3, <2>4 DEF OneAdapter, Said, IsAppended
  <1>7. CASE TextNotified
    <2> PICK answer : answer = outbox[1]
      OBVIOUS
    <2>1. rest' = Append(rest, answer) /\ outbox # << >>
          /\ rx' = rx /\ outbox' = outbox /\ adapter' = adapter
      BY <1>1, <1>7, Tailed DEF TextNotified, ElmTyped, IsTail
    <2>2. IsAppended(rest', rest, answer)
      BY <1>1, <2>1, Listed DEF ElmTyped
    <2>3. Said(answer)
      BY <1>1, <2>1, EmptySeq, LenProperties DEF ElmTyped, IsList, OneAdapter
    <2> QED BY <2>1, <2>2, <2>3 DEF OneAdapter, Said, IsAppended
  <1>8. CASE PromptNotified
    <2> PICK said : said = rest
      OBVIOUS
    <2>1. /\ rx' = Append(rx, said) /\ rest' = << >> /\ outbox' = Tail(outbox) /\ adapter' = adapter
          /\ outbox # << >>
      BY <1>1, <1>8 DEF PromptNotified, ElmTyped
    <2>2. IsAppended(rx', rx, said) /\ IsTail(outbox', outbox)
      BY <1>1, <2>1, Listed, Tailed DEF ElmTyped
    <2> QED BY <2>1, <2>2, EmptySeq, LenProperties DEF OneAdapter, Said, IsAppended, IsTail
  <1> QED
    BY <1>2, <1>3, <1>4, <1>5, <1>6, <1>7, <1>8 DEF ElmNext, Phone

LEMMA ElmInvariant == ElmSpec => []ElmInv
  <1>1. ElmInit => ElmInv /\ OneAdapter
    BY InitElmInv, EmptySeq, LenProperties DEF ElmInit, OneAdapter
  <1>2. ElmInv /\ OneAdapter /\ [ElmNext]_vars => ElmInv' /\ OneAdapter'
    BY NextElmInv, NextOneAdapter
  <1> QED BY <1>1, <1>2, PTL DEF ElmSpec

(* Of an adapter whose answers to the settings hold nothing a reader takes *)
(* for its own, a published scan of the first ten reports of every command *)
(* the answer to that command of that scan, whatever was late, lost, split *)
(* or left in the buffer before (Elm327Session.transact).                  *)
THEOREM AnswersAreTheirOwn == ASSUME TalkIsNoData PROVE ElmSpec => []PublishedInSync
  <1>1. ElmInv => PublishedInSync
    BY DEF ElmInv, Promised
  <1> QED BY <1>1, ElmInvariant, PTL

(* When what such an adapter says of the vehicle is read for what it is, a *)
(* published scan of the first ten tells the truth: the VIN, every code    *)
(* with its status, the value of every PID asked for that the vehicle has  *)
(* (OBDRepository.scan).                                                   *)
THEOREM ScansTellTheTruth == ASSUME TalkIsNoData, AnswersAreRead PROVE ElmSpec => []ScanIsTrue
  <1>1. ElmInv => ScanIsTrue
    BY DEF ElmInv, Promised
  <1> QED BY <1>1, ElmInvariant, PTL

(* And no scan fails without a reason: a time run out, an answer left from *)
(* an earlier scan, an adapter or a backend that cannot be reached, a PID  *)
(* the phone has no formula for, or an adapter that leaves out the spaces  *)
(* as it was told to, at whose VIN every scan that comes so far fails      *)
(* (Elm327Protocol.kt:18, 50-69). Of either kind of adapter and any number *)
(* of scans.                                                               *)
THEOREM FailuresHaveReasons == ASSUME AnswersAreRead PROVE ElmSpec => []FailsForAReason
  <1>1. ElmInv => FailsForAReason
    BY DEF ElmInv, Promised
  <1> QED BY <1>1, ElmInvariant, PTL
=============================================================================
