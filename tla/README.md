# TLA+ models of the Glovebox OBD system

Specifications, model-checking configurations and machine-checked proofs for
the code in `src/`. They cover the dongle between a phone's request and the
frames on the vehicle's CAN bus, the phone's scan over a commodity ELM327
adapter, and the backend that turns trouble codes and observations into a
diagnosis and a repair basket.

## The system

| Part | Source | State it keeps | Operations | Interacts with |
|---|---|---|---|---|
| ISO-TP framing | `firmware/src/iso15765.c` | none | encode, decode, first-frame reaction | called by the transaction |
| ISO-TP transaction | `firmware/esp32/src/obd_client.c` `tp_transact` | locals of a call: responder, announced total, bytes so far, next sequence number | one request, one reassembled reply | CAN transport below, reads above |
| CAN transport | `firmware/esp32/src/twai_transport.c` | driver (off / installed / running), receive queue, negotiated variant | open (probe), send, recv, close | bus, ECUs |
| ECUs | vehicle; `simulator/can_ecu_sim.py` | the answer being sent, waiting for a flow control or not | answer a request, resume on flow control | bus |
| OBD client | `obd_client.c` | `obd_scan_t` | VIN, DTC lists, PID, freeze frame, scan | transaction |
| Dispatch | `firmware/src/obd_allowlist.c`, `main_esp32.c` `run_op` | none between requests | allowlist, one operation per request, reply | BLE above, client below |
| BLE service | `ble_gatt.c`, `ble_protocol.c` | connection handle | write callback, chunked notify, advertise | phone |
| Power | `firmware/src/power.c` | active / asleep | sleep, wake | called by nothing in the ESP32 build |
| Phone: ELM327 session, repository | `android/core/.../elm`, `.../scan` | receive buffer, scan result | init, reads, scan | commodity adapter |
| Diagnostic engine | `backend/app/engine.py`, `android/core/.../diagnosis` | none (functions of session state) | score, next test, repair basket, required signals | session API, phone |
| Session API | `backend/app/main.py` | dictionary of sessions, outcomes | create, set vehicle, observe, diagnose, outcome, fitment | engine |
| Fitment, capabilities | `backend/app/fitment.py`, `capabilities.py` | tables | resolve, check a graph | session API |

The parts meet in three places. *Dongle*: phone request, dispatch, client,
transaction, CAN bus. *Phone*: the scan repository drives an ELM327 session
(init, VIN, three code lists), asks the backend which signals the codes need,
and reads those PIDs. *Backend*: the session API keeps codes, observations and
flags per session; every answer (diagnosis, next test, required signals, repair
basket) is computed anew by the engine from the session and the graphs loaded
at start, which `capabilities.py` has checked against what the transports can
acquire; a repair action is turned into a part by `fitment.py`, apart from the
diagnosis.

What is hard in it:

- *On the bus*: several ECUs answer one functional request, an answer arrives
  after its deadline and is found by the *next* request (nothing empties the
  receive queue), frames are lost when that queue is full, a transfer stops
  halfway, every driver call can fail.
- *On the adapter*: the same late answer, now in a text buffer that outlives
  the scan; answers in pieces, several framings of one answer, spaces that one
  adapter leaves out and another does not, a link that drops, an adapter that
  never answers again.
- *In the backend*: handlers run in a thread pool over unlocked dictionaries;
  a rule language with its own parser; scores whose order decides what is
  recommended; parts that must not be offered on a score alone.

What makes each part correct:

- framing: decode gives back what was encoded, or nothing;
- transaction: no copy leaves its buffer, a reply is one ECU's whole answer,
  nothing but the request and one flow control is transmitted, a call returns;
- session: which answers a call may return, and when it is the right one;
- client and dispatch: a published scan attributes every value to the request
  that asked for it, tells an unread DTC list from an empty one, and nothing
  outside the allowlist is ever transmitted;
- probe: the driver is released on every path, the variant opened answered;
- ELM327 scan: what is published is the truth and of this scan, a scan fails
  only for a reason, and every scan ends;
- engine: a rule means what it says, the strongest of several rules on one
  measurement counts and once, a band never hangs on rounding, a part is
  offered only with the evidence that confirms it;
- session API: what was acknowledged stays, a stop is never answered away, an
  answer nothing interfered with is the sequential one, no family with too few
  sessions is released.

## The modules

| Module | Models | Uses |
|---|---|---|
| `IsoTp` | `isotp_encode`, `isotp_decode`, `isotp_on_first_frame` as operators. A payload is its length and the chunk of data each frame carries; all byte counts are the code's. | |
| `IsoTpChannel` | encode, a faulty link, decode of what was captured | `IsoTp` |
| `CanIds` | `obd_ids_for`, `obd_phys_for`, the identifier ranges | |
| `TpTransact` | `tp_transact`: one action per branch of the receive loop, against a bus that may deliver any frame of `BusFrame` at any time | `IsoTp`, `CanIds` |
| `TransactService` | abstract: what a caller of `tp_transact` may rely on, one step per call and answer | |
| `CanSession` | `tp_transact` composed with the TWAI receive queue and ECUs; implements `TransactService` | `TpTransact` |
| `ObdClient` | `run_op`, `obd_dispatch`, the reads and `obd_scan`, over `TransactService` | `TransactService` |
| `VariantProbe` | `twai_transport_open` and `probe_variant` | `CanIds` |
| `Rules` | the rule language of `engine.py` (`_Parser`, `eval_rule`): recursive descent over tokens, evaluating as it parses, exceptions included | |
| `Engine` | the rest of `engine.py`: graph selection, scoring, deduplication, code context, guided tests, bands, ranking, next test, required signals, repair basket | `Rules` |
| `Capabilities` | `capabilities.py`: what the transports can acquire, the check of a graph | |
| `Fitment` | `fitment.py`: VIN prefixes, the catalogue, resolving an action for a car | |
| `Diagnosis` | one session whose requests do not overlap, and what every GET answers in it | `Engine`, `Capabilities`, `Fitment` |
| `GoldenVectors` | the vectors of `golden_vectors.py` and of `tests/golden/diagnostic_vectors.json`, with what they expect | `Diagnosis` |
| `SessionApi` | `main.py` with overlapping requests, a step per access to shared state | `Engine` |
| `Elm327` | what the adapter answers (`elm327_sim.py`) and how the phone reads it (`Elm327Protocol.kt`) | |
| `ElmSession` | `OBDRepository.scan` over `Elm327Session`, the adapter and the link | `Elm327` |
| `Lists` | lemmas about lists and least elements that the proofs share | |
| `TpTransactProofs`, `IsoTpChannelProofs`, `CanSessionProofs`, `ObdClientProofs`, `SessionApiProofs`, `DiagnosisProofs` | theorems about the module named | `Lists`; `CanSessionProofs` also `TpTransactProofs` |
| `TransportProofs` | theorems about the two ways to a vehicle, `VariantProbe` and `ElmSession` | `Lists` |
| `MCGraphs` | the six graphs of `diagnostic-graphs/*.json`, an authored graph and one that must not load | `Engine`, `Capabilities` |

State and actions follow the code. In `TpTransact` the variables `responder`,
`total`, `got`, `expectSeq`, `payload` are the C locals; `OnSingle`,
`RefuseFirst` / `AcceptFirst` / `FlowControlFails`, `RefuseNext` /
`AcceptNext` and `Skip` are the branches on the PCI nibble with their early
returns; `Timeout` is both ways recv ends a call. `used` is history: the frames
whose bytes make up the reply. In `CanSession`, `recv` takes the oldest frame
of `rxq` (`ClientFrame`), turns a remote frame into a timeout (`ClientRemote`,
as `twai_recv` does) and times out only when the queue is empty
(`ClientTimeout`). An ECU answers as `can_ecu_sim.py` does: it stops after its
first frame until the next frame addressed to it, and takes whatever that is
for the flow control. In `ObdClient` an operation is a *program*, the list of
requests it makes; `at` is the position of `obd_scan`'s control flow in it;
`Transmit`, `GateRefuses` and `CallReturned` are the allowlist gate, the call
and what is made of its outcome; `Record` fills `obd_scan_t`, and every field
carries the answer it was decoded from, so that the properties can ask where a
value came from. In `VariantProbe`, `pc` is the position in `probe_variant` /
`twai_transport_open`, and `driver` the state of the TWAI driver.

Numbers in the backend are exact: a field, a literal and a product are
fractions, a multiplier is an integer of hundredths (as all of them are in the
graphs), the weights of a graph are integers with no common divisor, and a
score is a weight over their sum. The code uses floating point; `BandsAreClear`
shows where that could make a difference. `|log m|`, by which the code compares
multipliers, is compared by the larger of m and 1/m. A JSON graph is a record
with the fields the code reads; rules are kept as tokens, so the parser is
checked on the text the graphs contain.

In `Diagnosis` the variables are the session dictionary; an action is a POST,
and the answers to the GETs are operators over the state (`Diagnoses`,
`Basket`, `SignalsAsked`). In `SessionApi` a thread holds the
locals of the handler it runs, and `at` is its position: writing the VIN and
the codes are two steps (`SetVin`, `SetDtcs`), so are an observation and its
flags (`Record`, `Flag`), and a loop over a set or a dictionary takes a step per
element and raises once something was added (`FlagsChanged`, `ScanChanged`,
`WalkChanged`), as CPython does. `acked`, `held` and `version` are history.
`Begin` is the arrival of a request; any request may arrive at any time.

In `ElmSession`, `inbox` and `outbox` are what is on its way to the adapter and
from it, and `rx` and `rest` are the buffer of `Elm327Session`, kept for all its
scans: for each prompt in it the answers whose text stands before it, and those
behind the last prompt. `AdapterAnswers` is one turn of the adapter's loop;
`TextNotified` and `PromptNotified` are two notifications of one answer, so that
a deadline can pass, or the link drop, between its text and its prompt. `n`
counts the commands of the scan: `Send` writes one (`SendFails` without a
connection), `TakeAnswer` is `awaitPrompt` finding `>` and the parsing of all
text before it, by the operators of `Elm327` on tokens, and `Timeout` is its
deadline passing without one. A text is lines of tokens, a token what stands
between two spaces. There are two kinds of adapter, and a session meets either:
one obeys `ATS0` and from then on sends ECU data without spaces, so that each
line is one long token (`Squeezed`); the other answers OK and leaves them in, as
the simulators do (`PowerOn(honoursS0)`, `Switched`, `Spaced`). `Sanitized`
splits at spaces only and drops every token that is no byte, so of a squeezed
line it keeps nothing. After the last code list the backend answers
(`Planned`) or does not (`BackendFails`); `Disconnect` is the `finally`, and what
is on its way then is lost, while the buffer stays. `Connect(kept)` begins a scan
on a new connection, or on the one an earlier failure of the init sequence left
open. `from`, `behind`, `timedOut`, `refused` and `lost` are history.

Operators whose names tell of a bug (`EncodeUnwrapped`, `IgnoredAnyResponder`,
`BeginUncleared`, ...) are mutations: a changed copy of the definition that
follows them, under which the property PROJECT.json names is violated. No
specification uses them.

## The runs

| Run | Question | Bounds | States |
|---|---|---|---|
| `isotp_channel` | can a faulty link make decode return a payload that was not sent? | 15 lengths at every boundary (0, 7/8, 13/14, 118/119 where numbering wraps, 446/447/448 at 64 frames), 2 faults, bursts of 1, 16 and 32 frames | 1.3 million |
| `tp_transact` | does any sequence of frames break a call? | 4 identifiers (two ECUs, a foreign id, a wrong format), announced lengths 7, 8, 20, 256, 257, dlc 0 / 3 / 4 / 8, calls unbounded | 4 thousand |
| `can_session` | which answers do calls return? does a call end? | 3 calls, 2 ECUs, answers of 14, 8 and 3 bytes, queue of 2, 1 remote frame | 662 thousand |
| `can_remote` | "ignore remote frames" | the same | violation |
| `obd_client` | what does a scan say, and is everything replied to? | 2 phone requests, 1 scan, 2 default PIDs (one not allowlisted), 2 late answers or lost frames | 296 thousand |
| `obd_absent` | "present=false means the ECU stayed silent" | the same | violation |
| `variant_probe` | does boot end with the right variant and the driver released? | 8 vehicles: one per variant, silent, noisy, both formats | 163 |
| `diagnosis` | is every score, band, basket, part and stop of a session what it should be? | 7 graphs that load, 4 posts per session, readings on both sides of every threshold and on it, each outcome of each test, the flag overheat | 54 thousand |
| `diagnosis_stop` | "safety flags end diagnosis immediately" | the same | violation |
| `session_api` | what can overlapping requests lose, mix or release? | 3 threads (symmetric), 3 requests, 2 sessions at the start, privacy count 2 (5 in the code) | 0.7 million |
| `elm_session` | is a published scan true, does a failed one have a reason, does every scan end? | 4 scans, plans with PIDs present, absent and without a formula, one vehicle, both kinds of adapter | 345 thousand |
| `elm_spaces` | "we re-insert them when parsing" | 1 scan, the rest the same | violation |

Why the bounds are enough. The numbering wraps after 16 consecutive frames, so
bursts of 16 and 32 are the losses the sequence check cannot see; 448 bytes is
the first length the encoder refuses. In `tp_transact` the number of calls is
not bounded, and the proofs remove the other bounds. Three calls let an answer
to the first be met by the second and its successor by the third; a queue of
two overflows with two ECUs. In `obd_client`, `DefaultPids` holds one PID that
passes the gate and one that does not, because the scan treats each PID alike;
`MaxFaults` counts answers left pending outside their own call and lost frames,
and `MissFrom` lets frames be lost only late in the second operation, where a
scan's answers can still be garbled. Deadlock is not checked where the bounded
system stops: all runs but `tp_transact`, whose caller may always call again.

In `diagnosis` a session of four posts reaches a vehicle, two tests of one
graph and a change of vehicle or of an answer, which is what baskets and stops
depend on; the graphs are those of the repository, not smaller ones, because
what they say is part of what is checked. The authored graph holds what they
happen not to contain (nested brackets, division by zero, unary minus, a rule
that is no expression, equal multipliers in one group), and the one that must
not load has a part only a planned signal can confirm. Without its check
(`GatedCanBeConfirmed`'s mutant) it loads. In `session_api` three threads are enough for a reader that
two writers interfere with, and for a walk during which a session moves between
families; a privacy count of 2 is reached, and just missed, by the sessions
that exist. In `elm_session` the answers of one scan can be met by the next
three. Scans are unbounded in the code: `PublishedInSync` is stated of the first
ten with one session object, because after ten late answers, as many as there
are commands up to the last code list, an eleventh scan can take all of them
for its own; smaller instances (fewer commands) show both the bound and the
failure beyond it, and the proof takes the bound from there: `ScanIsTrue` shares
it, `FailsForAReason` has none. The run has four scans: the eleventh that goes
wrong was only ever seen in those smaller instances, which are not kept here.

What the runs show beyond "no error":

- `WholeMessage` and `RightlyAttributed` hold *while no frame was dropped by a
  full receive queue*. Without that premise they fail: a stale first frame and
  the consecutive frames of the next answer carry consistent numbers, and two
  answers are joined into one that passes every check.
- `InStep` says when a reply answers the call that returns it: while every
  earlier call got a reply and one ECU had an answer to each request. One
  answer after its deadline, or a second ECU's answer to a functional request,
  leaves every later read one answer behind; `PromptScanIsFresh` is the same
  boundary for scans, and `RightlyAttributed` shows that even then no value is
  published under another PID or DTC service, since every read compares the
  service and PID of what it got.
- So two hazards have no guarantee to check, only a boundary: after frames are
  lost, two answers joined into one are neither excluded by `WholeMessage` nor by
  `RightlyAttributed`; after a late answer, `PromptScanIsFresh` says nothing, and
  `RightlyAttributed` is what is left.
- After a late answer a scan's PIDs are read one behind, so each read fails
  validation: the scan is published with everything absent (`obd_absent`).
- `OnlyAllowlistedSent` holds although `full_scan` bypasses `obd_dispatch`: the
  gate in the client is what makes it hold (its mutant removes that gate).

- `StopSticks` and `RecordedIsKept` hold without any lock: each handler's
  writes are additions to a set and to a dictionary, atomic in CPython. What
  overlapping requests can do is make a reader raise (a 500), and make it
  answer from codes of one moment and observations of another;
  `UndisturbedAgrees` says that without a write in between an answer is the
  sequential one, exactly.
- `BandsAreClear` shows that no reachable session of the run has a score on a
  boundary of the bands, and that a hypothesis that is moderate or better has no
  equal: neither rounding nor the order of observations decides what is sold.
  Ties occur below, where the order of the hypotheses in the graph decides.
- The committed golden vectors are sixteen, of which about half are not made
  by `build_vectors` any more; the engine meets all of them.
- A flag that no matched graph lists has no effect at all, and a flag stays for
  all codes posted later (`diagnosis_stop`, `StopIsForGood`).

### Disagreements with the documentation

1. `can_remote`: `twai_transport.c:103` says remote frames are ignored and
   `obd_client.h:41` that a timeout means no usable response; a remote frame is
   returned as a timeout and ends the call while its answer is in the queue.
2. `obd_absent`: `obd_client.h:60-61` says `present=false` means the ECU stayed
   silent; it is also published for a PID the ECU answered in time.
3. `diagnosis_stop`: the repository's `README.md:32-34` says four safety flags
   end diagnosis immediately; each graph has its own list and ends only for
   what is on it. P0133 lists none.
4. `elm_spaces`: `Elm327Protocol.kt:18` says of `ATS0` "spaces off in ECU data
   (we re-insert them when parsing)"; `sanitize` (50-69) splits at white space
   and drops every token of more than two digits. Over an adapter that obeys
   `ATS0` each scan that gets so far fails at the VIN, with nothing late, lost
   or refused. No test shows it: `elm327_sim.py:105` and `web/index.html:255`
   accept `ATS0` and keep the spaces. `FailsForAReason` has this as a reason of
   its own, confined to that adapter and to the VIN.

Seen while modelling, without a run of their own: `obd_client.h:38-39` and `:91`
say FORBIDDEN is returned before any frame is transmitted, but PIDs 43-47 and 4C
pass the allowlist (`obd_allowlist.c:42-47`), are transmitted, and are then
refused with that code by `pid_decode` (`obd_client.c:317`); `obd_client` has
such a read. The app module's copy of
`Elm327Protocol.parseDtcs` looks for the header 43 in the answers to services
07 and 0A, where the core module looks for 47 and 4A. A session keeps its
observations and flags when its vehicle is replaced. An observation with an
empty outcome and the answer 1 counts as "yes" for `requires_any` but changes no
weight, and the phone's engine treats it differently. `signal_acquirable` calls any service but 06 acquirable when no PID
is named.

## Fairness

- `FairSession`: weak fairness of the client's steps only. The scan task runs,
  and recv returns with a frame or at its deadline. Nothing is assumed of the
  ECUs: `CallReturns` holds if they stop for ever.
- `FairObd`: weak fairness of the task, and of the end of a call. The second is
  `CallReturns`, shown for `CanSession`.
- `ProbeSpec`: weak fairness of the boot task, which includes that listening
  ends. The loop reads its clock but leaves only when a receive finds the queue
  empty; emptying it takes microseconds per frame and a frame takes at least a
  hundred on the bus, so a receive with no time left does find it empty.

- `ElmSpec`: weak fairness of `Phone`, the steps of the scan's coroutine: it
  writes, takes an answer whose prompt is there, or its deadline passes
  (`awaitPrompt` waits for at most `responseTimeoutMs`), and the backend answers
  or fails. Nothing is assumed of the adapter or the link: `ScanEnds` holds if
  they stop for ever.
- `Diagnosis` and `SessionApi` state no fairness: no property of theirs is
  about what must happen, and a handler has nothing to wait for.

## The proofs

The proof modules state their results for every value of the constants; the
runs check the same formulas on small instances. Each module has the same
shape: an inductive invariant made of named parts, the lemmas about the helpers
it needs, one lemma per action (with one step per part the action can disturb),
`Init` and `Next` lemmas that collect them, and the theorems last. `Lists` has
what all of them need about sequences that are only known to be lists
(appending, taking the tail, concatenating), about least elements and about
places in a strict order.

| Theorem | States | For every |
|---|---|---|
| `TransactTypeCorrect`, `NoOverflow`, `ReplyIsDecoding`, `FirstResponderWins`, `WireAudit` | the five properties of `tp_transact` | variant, buffer size, set of frames, number of calls |
| `ProbeTypeCorrect`, `DriverIsReleased`, `VariantIsRight` | the probe | set of vehicles, failing driver calls |
| `AnswersAreTheirOwn` | `TalkIsNoData => (ElmSpec => []PublishedInSync)` | vehicle, plans, number of scans, adapter whose settings' answers hold no data |
| `ScansTellTheTruth` | `TalkIsNoData /\ AnswersAreRead => (ElmSpec => []ScanIsTrue)` | the same, for an adapter that is read for what it says |
| `FailuresHaveReasons` | `AnswersAreRead => (ElmSpec => []FailsForAReason)` | the same, and an adapter that obeys `ATS0`; scans without number |
| `ChannelTyped`, `CleanDecodes`, `NothingCorrupted` | `TypeOK`, `RoundTrip`, and `MaxFaults < SeqCount => (Spec => []NeverCorrupt)` | payload lengths, frame sizes, burst lengths, modulus |
| `SessionWellFormed`, `RepliesAreWhole`, `CallsStayInStep` | `SessionTypeOK`, `WholeMessage`, `InStep` | ECUs and answers, queue size, number of calls and remote frames |
| `SessionRunsTransact` | `SessionSpec => Spec` of `TpTransact`: what is proved of the receive loop holds in sessions | the same |
| `SessionServes` | `Ecu # {} => (SessionSpec => ImplementsService)`: the refinement of `TransactService` | the same |
| `ClientWellFormed`, `OnlyAllowlisted`, `ScanAttributed`, `IncompleteIsTold`, `PromptIsFresh` | the client's five invariants | operations, answers, default PIDs, number of requests, late answers and missed frames |
| `SessionsWellFormed`, `ObservationsKept`, `StopFlagsStick`, `DemandKeepsPrivacy`, `UndisturbedIsSequential` | the session API: its inductive invariant, `RecordedIsKept`, `StopSticks`, `DemandIsPrivate`, `UndisturbedAgrees` | threads, requests, graphs, privacy count |
| `StoppedForGood`, `SoldOnEvidence` | `StopIsForGood`, and `OutcomesFavour => (DiagnosisSpec => []PartsAreConfirmed)` | graphs that load, posts, readings |
| `OffersResolve` | `PartsAreStocked => (DiagnosisSpec => []BasketResolves)` | graphs that sell what the catalogue has, posts, readings, vehicles |
| `StrongestCounts` | `DiagnosisSpec => []StrongestRuleCounts` | graphs, rules, evidence groups, measurements |
| `WithheldCanBeConfirmed` | `GraphsAreChecked /\ EvidenceCanBePosted => (DiagnosisSpec => []GatedCanBeConfirmed)` | graphs that pass the check, posts, readings |
| `EveryMatchIsSelected` | `GraphsForDtcs` selects each graph that has a code, once, and no other, the best match first | graphs that load, codes |
| `HeaviestIsFirst` | `Ranked` has each hypothesis once, the heavier first, equals in file order: the one that parts are sold for is outweighed by none | graph of the schema, weights |
| `CheckedPartsCanBeConfirmed` | what `check_graph` is for: a graph without a complaint leaves each part it sells a test that can be answered | graph of the schema |

What is assumed. `IsoTpAssumption`, `ChannelAssumption`, `TransactAssumption`
and `ObdAssumption` say that sizes are positive, that frames have the fields of
`can_frame_t` and that `ISOTP_MAX_FRAMES` is large enough for
`TP_MAX_PAYLOAD`, and that the phone's reads are requests of the kinds
`run_op` can build. `SessionAssumption` of `CanSession` gives ECUs identifiers
in the variant's range and answers that fit the caller's buffer;
`BusAssumption` says that the frames these ECUs send are among `BusFrame`.
`SessionAssumption` of `SessionApi` lists the endpoints and says that sessions
and graphs are finite in number. `GraphsAssumption` is what
`diagnostic-graphs/schema.json` says of a graph that loads. TLC evaluates all of
them in the runs. Eight theorems have a hypothesis of their own; those about
graphs are properties of the data, which `MCDiagnosis` has TLC evaluate on the
graphs that load (`LoadedGraphsFavour`, `LoadedGraphsStocked`,
`LoadedGraphsChecked`, `EvidenceIsPosted`), those about texts properties of the
vehicle and the plans, which `MCElmSession` has it evaluate (`SettingsAreNoData`,
`VehicleIsRead`):

- `SessionServes` needs an ECU. Without one `TransactService` has nobody to
  answer, and no choice of one would be a refinement of its `answer`.
- `NothingCorrupted` needs fewer faults than the sequence number has values.
  The bound is exact: with two faults and numbers modulo 2, or three and
  modulo 3, TLC finds a corrupted payload. With the code's 16 numbers up to
  fifteen separate faults, each of any size, are harmless.
- `SoldOnEvidence` needs that no graph asks for an outcome that speaks against
  the hypothesis its part repairs (`OutcomesFavour`). That an item rests on a
  *recorded* test with the required outcome needs no hypothesis.
- `OffersResolve` needs that replacements are actions the fitment catalogue
  has, and that no action is both a part and an inspection (`PartsAreStocked`).
  No code checks either: `resolve` answers an unknown action with a 422.
- The three theorems about the phone's scan need to know how texts are read,
  which no prover can compute: what the adapter prints is put together with
  `\o`, and taken apart by parsers that search. `TalkIsNoData` says that in no
  answer to a setting, echoed or not, with headers or without, a reader finds a
  VIN or the header of a code list; it is about the init sequence alone and true
  of every vehicle and both kinds of adapter. `AnswersAreRead` says that, set up
  as the session does it, an adapter that leaves the spaces in is read for what it
  says (`Reading`: the vehicle's VIN, its codes, the value of a PID it has, and none
  of a PID it does not have), and one that obeys `ATS0` is not read even for a VIN.
  It does not say which kind is there: the theorems are about either, and
  `FailuresHaveReasons` about what happens to the second. Not every vehicle is such
  a one: a code P0000 ends the list it stands in. All the
  rest that the theorems say, for all orders of events, follows from these two.
  `PlansAssumption` only says that plans are lists.
- `WithheldCanBeConfirmed` needs that the graphs pass the capability check,
  which the tests run over the graphs of a build
  (`test_signal_capabilities.py:24-29`), and agree on which signals are
  supported (`GraphsAreChecked`); and that for each piece of evidence a graph
  asks for some answer to its test counts as that evidence
  (`EvidenceCanBePosted`).

Why the invariants have to be strengthened:

- `TpTransact`. That a call is not past its buffer needs that the bytes
  collected are what so many chunks carry; that a reply is a decoding needs
  that the frames used *so far* are the beginning of one. `IInv` adds
  `Transferring`: between a first frame and the end of its transfer, `used` is
  a first frame announcing `total` and then consecutive frames numbered 1, 2,
  ..., all from `responder`; `payload` is their data;
  `got = Carried(total, Len(payload))`.
- `VariantProbe`: `DriverFollows` ties the driver to the position in the
  function, `WinnerHeard` the winner to a frame on the bus.
- `IsoTpChannel`. A frame with the right number in a wrong place belongs
  `SeqCount` or more places away, and it can only get there with others: a fault
  takes frames away or moves one by one place against its neighbour.
  `LinkInv`, `OrderInv` and `BehindInv` say by how much the link, what was
  captured, and the one against the other can be out of order after so many
  faults; `UntouchedInv` that nothing is before the first.
- `ElmSession`. What an answer is taken for depends on how many are ahead of
  it, left behind by earlier scans. `LineInv` puts everything between the phone
  and the adapter into one line (answers taken, buffered, on the link, and
  commands the adapter has not taken), of which the first `c` are other scans'
  and the k-th after them is the answer to this scan's command k, given by an
  adapter that was set up so far (`Tuned`), which is the same one all along
  (`OneAdapter`). A connection cut between the text of
  an answer and its prompt leaves an orphan (`d`), whose text the next answer
  runs into. `LeftInv` says that `n` scans leave at most `n` answers behind, the
  orphan included, because a scan waits for one at a time; so `c + d` is less than
  the scan's number. A scan with `c > 0` meets an answer to a setting where it
  reads the VIN or codes, at the latest at the command `Stumbles(c)`, and throws
  before it asks the backend, unless `c` is ten: this is where the first ten
  scans come from. A scan with `c = 0` has learned what the vehicle said
  (`KnowsVehicle`), nothing when the adapter leaves out the spaces, except that its first answer may have the orphan before it,
  which is to `ATZ`, and nobody reads it. `Promised` carries the properties of the
  scan that ended.
- `CanSession`. A frame of an answer can be in four places: not sent yet,
  queued, part of the payload, or part of the reply. `OrderInv` says that along
  these places the frames of one ECU are in the order it sent them, `ChainInv`
  that none is missing while no frame was lost, `ReceivingInv` that an answer
  is not returned twice, `CleanInv` that while every call was answered nothing
  of an earlier call is anywhere, the request in an ECU's inbox included.
- `ObdClient`. `ScanInv` says of a scan up to position `n` of its program what
  the properties say of a published one; `InTimeInv` says where the answer to
  the call in progress is, as long as none was late; `PlaceInv` that the
  program's position and the transaction layer agree.
- `SessionApi`. Each answer is put together over many steps while others
  write. `ScoreInv`, `SearchInv` and `WalkInv` say, by the position in the
  handler, what the partial answer already reflects of everything acknowledged
  before the request began (`EarlierFlags`, `used`, `Counted`); they are stable
  under other threads because sessions only grow (`Grows`). For
  `UndisturbedAgrees`, `PaceInv` says the exact thing: as long as nothing was
  written since the request began (`version` against `began`), what a handler has
  put together so far is what `Engine`'s operators make of the session as it
  stands, up to the handler's position (`Follows`, `WalkFollows`). The walk over
  the graphs needs that the tests of the selected graphs are one list
  (`Flattened`, `TestsAreList`) and that each graph selected is a loaded one
  that matches (`SelectedAreGraphs`); the latter rests on `Ranking` of `Lists`,
  proved by a least counterexample, since induction theorems cannot be used.
- `Diagnosis`. `StopIsForGood` needs no invariant but that posts add flags
  (`FlagsStay`); `PartsAreConfirmed` follows from how the basket is computed in
  any state, so the theorem is about the operators: which tests
  `EvidenceSatisfied` counts (`EvidenceIs`), and that the primary graph is one
  of those loaded (`PrimaryIsLoaded`). The same holds of the other three. What
  the rules of a measurement leave in their groups is a recursion over the
  rules: `Settled` says what the groups hold after the first n (for each matched
  rule its own multiplier or a stronger one of its group, and nothing that no
  rule said), `JoinSettles` that one more rule keeps it, and `BucketsSettled`
  that it holds at the end, by a least counterexample. For `OffersResolve` the
  catalogue is gone through entry by entry (`CatalogIsStocked`). For
  `WithheldCanBeConfirmed` the recipe a client is given comes from the first
  graph that asks for the signal (`AskedHasRecipe`), which need not be the one
  that sells the part: that is what the agreement of the graphs is needed for.
  `InOrder` picks the element with so many before it; that this lists each
  element once is counted (`RankedList` of `Lists`), and both orders are strict
  because hypotheses and graphs are told apart by their places (`PlacesDiffer`).

Only model-checked, and why:

- liveness (`CallReturns`, `Replied`, `BootEnds`, `ScanEnds`): fairness and
  ENABLED are out of the proof system's reach. `FairSession` and `FairObd` are
  conjunctions of the specifications above with fairness, so the safety
  theorems hold of them too.
- `RulesMeanWhatTheySay`, `GoldenVectorsHold`, `BandsAreClear`: the first is
  about a parser and a recursive evaluation and needs induction over data, the
  second compares what is computed with recorded answers, and the third is a
  fact about the numbers in these graphs and false for others.
- `TalkIsNoData` and `AnswersAreRead`, the hypotheses about texts above:
  evaluated by TLC on the vehicle and the plans of `elm_session`. The first does
  not depend on either; it would need the parsers computed on strings.
- that the weights the engine computes are positive numbers: they are divided
  by their greatest common divisor, a recursion on two numbers. `HeaviestIsFirst`
  takes any weights.
- `NeverCorrupt` for as many faults as there are sequence numbers: false.

## What is not modelled

- Time as a number. A deadline is a timeout that may happen whenever no frame
  is waiting. The 32-bit wrap of `deadline` (`obd_client.c:120-123`) is covered
  only in that an early timeout is possible.
- Bytes. A first frame with fewer than 8 bytes is read without a dlc check
  (`obd_client.c:148-169`); `BusFrame` stands for the bytes then read.
- The conversions of the dongle: DTC and PID formulas, JSON, base64.
  `obd_scan_to_json` needs under 1.2 KB of its 2 KB for the largest scan. In
  `Elm327` a code is its two bytes and a value the bytes its formula is given.
- Floating point, see above; labels, messages, prices and links.
- Two operations at once on one `Elm327Session`, and notifications lost within
  a connection: the scan sends one command at a time, and BLE delivers
  notifications of a connection in order. `initialize` sets its notification
  handler anew for each scan; the new one is taken to replace the old.
- Framing without CAN ids is in `Elm327` but not reached by a scan, whose init
  sequence switches them on. Freeze frames over the adapter: the scan reads none.
- The PIDs of a vehicle post and the VIN: stored, and read by no handler.
- Other traffic on the bus while a call waits. After its deadline `tp_transact`
  still receives, with a wait of 0 (`obd_client.c:122`), so that a bus which never
  lets the queue be empty at that moment holds the call; `CallReturns` is about
  ECUs that stop, not about such a bus.
- What joins `OBDRepository` to `Elm327Session`: the repository scans over an
  interface that only a test double implements. The model takes the missing class
  to forward each call.
- The collision of two session ids (32 random bits).
- `DiagnosticEngine.kt`, the phone's engine: a second text of what `Engine`
  models; the two are held together by the golden vectors.
- The BLE service and codec, see the plan.
- The probe is not composed with the session: it consumes an ECU's VIN first
  frame without a flow control, and `CanSession` starts with idle ECUs.
- `twai_receive` failing with an error that is not a timeout: it does so only
  without an installed driver.
- `tcp_transport.c` and `obd_sim.py` (test doubles), the web pages
  (presentation), `power.c` (called by nothing).

## Plan

In order:

1. `BleLink`: the GATT service with the NimBLE host task's event queue (write,
   connect, disconnect), `glovebox_on_ble_write`, chunks with dropped
   notifies, and a phone that puts chunks together.
2. `VariantProbe` composed with `CanSession`'s ECUs.

## Running

    tlc -config can_session.cfg MCCanSession
    tlapm CanSessionProofs.tla
