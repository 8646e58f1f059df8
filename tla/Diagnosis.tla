----------------------------- MODULE Diagnosis ------------------------------
(***************************************************************************)
(* One diagnosis session as its client sees it when requests do not        *)
(* overlap (backend/app/main.py over engine.py, capabilities.py and        *)
(* fitment.py): the posts that change the session, and what each GET       *)
(* answers in a state. SessionApi is the same with overlapping requests.   *)
(***************************************************************************)
EXTENDS Engine, Capabilities, Fitment

CONSTANTS
    DtcPosts,       \* the sets of trouble codes a client posts
    Readings,       \* [test id -> observations a client posts for it]
    FlagPosts,      \* the sets of flags posted with an observation
    Cars,           \* vehicles parts are looked up for
    MaxPosts        \* bound: posts of one session

VARIABLES
    dtcs,           \* codes of the session (their status is only echoed)
    observations,   \* [recorded test -> its latest observation]
    flags,          \* safety flags reported so far
    posts           \* bound counter

vars == << dtcs, observations, flags, posts >>

DiagnosisInit ==
    /\ dtcs = {}
    /\ observations = << >>
    /\ flags = {}
    /\ posts = 0

(* The observations of an earlier set of codes stay.                       *)
SetVehicle(codes) ==
    /\ posts < MaxPosts
    /\ posts' = posts + 1
    /\ dtcs' = codes
    /\ UNCHANGED << observations, flags >>

MatchedGraphs == GraphsForDtcs(dtcs)
KnownTests == {t.id : t \in ToSet(TestsOf(MatchedGraphs))}

Recorded(test, obs) ==
    [t \in DOMAIN observations \cup {test} |-> IF t = test THEN obs ELSE observations[t]]

AddObservationFlagsReplaced(test, obs, reported) ==
    /\ posts < MaxPosts
    /\ posts' = posts + 1
    /\ observations' = Recorded(test, obs)
    /\ flags' = reported
    /\ UNCHANGED dtcs

(* Of a known test; any other is refused with 422 and without effect.      *)
AddObservation(test, obs, reported) ==
    /\ posts < MaxPosts
    /\ posts' = posts + 1
    /\ observations' = Recorded(test, obs)
    /\ flags' = flags \cup reported
    /\ UNCHANGED dtcs

DiagnosisNext ==
    \/ \E codes \in DtcPosts : SetVehicle(codes)
    \/ \E test \in KnownTests : \E obs \in Readings[test], reported \in FlagPosts :
           AddObservation(test, obs, reported)

DiagnosisSpec == DiagnosisInit /\ [][DiagnosisNext]_vars

-----------------------------------------------------------------------------
(* What the GETs answer; with no matching graph they are refused.          *)
Answerable == MatchedGraphs # << >>
Primary == Head(MatchedGraphs)

Diagnoses == ScoreAll(MatchedGraphs, observations, flags, dtcs)
PrimaryScore == Score(Primary, observations, flags, dtcs)
Basket == RepairBasket(Primary, PrimaryScore, observations)
SignalsAsked == RequiredSignals(MatchedGraphs, DOMAIN observations)

(* POST /v1/fitment/resolve: inspections have no parts to resolve.         *)
DiagnosticActions ==
    {r.action : r \in UNION {{q \in ToSet(Graphs[k].repairs) : q.class = "diagnostic"} : k \in DOMAIN Graphs}}

NoPartsRequired == [resolved |-> TRUE, purchasable |-> FALSE, sku |-> "none"]

ResolveInCatalog(action, car) == ResolveFitment(action, car)

Resolve(action, car) ==
    IF action \in DiagnosticActions THEN NoPartsRequired ELSE ResolveFitment(action, car)

-----------------------------------------------------------------------------
(* What is kept and what is dropped of the rules that match a measurement. *)
StrongestKept(test, fields) ==
    LET matched == Matched(test, fields)
        buckets == Buckets(test, fields)
        dropped == Deduped(test, fields)
        Says(i, h) == h \in DOMAIN test.rules[i].updates
        Rivals(i, h) == {j \in matched : GroupOf(test, j) = GroupOf(test, i) /\ Says(j, h)}
    IN  /\ DOMAIN buckets = {GroupOf(test, i) : i \in matched}
        /\ \A i \in matched : \A h \in DOMAIN test.rules[i].updates :
              LET kept == buckets[GroupOf(test, i)][h]
              IN  /\ ~Less(Strength(kept), Strength(test.rules[i].updates[h]))
                  /\ \E j \in Rivals(i, h) : kept = test.rules[j].updates[h]
                  /\ Cardinality({x \in dropped :
                                    x[2] = h /\ GroupOf(test, x[1]) = GroupOf(test, i)})
                     = Cardinality(Rivals(i, h)) - 1

(* Of several matching rules of one evidence group the strongest counts,   *)
(* once, for each hypothesis: no matched rule is forgotten, none counts    *)
(* twice, and what is reported as deduplicated is exactly the rest         *)
(* (engine.py score, the buckets and evidence_deduped).                    *)
StrongestRuleCounts ==
    \A test \in {t \in ToSet(TestsOf(MatchedGraphs)) : Live(t) /\ t.id \in DOMAIN observations} :
        StrongestKept(test, observations[test.id].fields)

ClearCut(w, top) ==
    LET total == Sum(w)
    IN  \A h \in DOMAIN w : /\ 4 * w[h] # 3 * total /\ 20 * w[h] # 9 * total
                            /\ 20 * w[h] > 9 * total => h = top

(* No session reaches a score on the edge of a band, and a hypothesis that *)
(* is moderate or better is the first of the ranking, with no equal: so    *)
(* neither the rounding of the float products nor the order of the         *)
(* observations can change what is sold (engine.py confidence_band, the    *)
(* sort in score).                                                         *)
BandsAreClear ==
    \A i \in DOMAIN MatchedGraphs :
        LET g == MatchedGraphs[i]
        IN  ~Stops(g, flags) =>
                ClearCut(Weights(g, observations, dtcs),
                         Score(g, observations, flags, dtcs).ranked[1])

(* A test's outcome favours a hypothesis: it multiplies its weight by more *)
(* than one.                                                               *)
InFavour(test, outcome, hypothesis) ==
    LET updates == GuidedUpdates(test, [fields |-> [answer |-> Truth(TRUE)],
                                        outcome |-> outcome]).updates
    IN  hypothesis \in DOMAIN updates /\ updates[hypothesis] > 100

(* A required outcome speaks for the hypothesis its part repairs.          *)
OutcomesFavour ==
    \A k \in DOMAIN Graphs : \A r \in ToSet(Graphs[k].repairs) : \A q \in r.requires :
        Len(q) = 2 => InFavour(TestOf(Graphs[k], q[1]), q[2], r.hypothesis)

(* What a graph sells is in the catalogue, and no graph has it inspected.  *)
PartsAreStocked ==
    \A k \in DOMAIN Graphs : \A r \in ToSet(Graphs[k].repairs) :
        r.class = "replacement" => r.action \in DOMAIN Catalog \ DiagnosticActions

(* "A score alone never sells a part": what the basket offers rests on a   *)
(* recorded test, and where the graph asks for an outcome, on that outcome *)
(* recorded and in favour of the hypothesis (engine.py repair_basket).     *)
PartsAreConfirmed ==
    Answerable => \A r \in Basket.items :
        /\ r.class = "replacement"
        /\ \E q \in r.requires :
              /\ q[1] \in DOMAIN observations
              /\ Len(q) = 2 =>
                    /\ \/ observations[q[1]].outcome = q[2]
                       \/ q[2] = "yes" /\ Answered(observations[q[1]].fields)
                    /\ InFavour(TestOf(Primary, q[1]), q[2], r.hypothesis)

(* The graphs pass the capability check, and what one of them has as       *)
(* planned no other has as supported.                                      *)
GraphsAreChecked ==
    /\ \A k \in DOMAIN Graphs : CheckGraph(Graphs[k]) = {}
    /\ \A j, k \in DOMAIN Graphs :
          \A s \in ToSet(Graphs[j].signals), t \in ToSet(Graphs[k].signals) :
             s.signal = t.signal => s.status = t.status

(* A client can post every piece of evidence a part asks for.              *)
EvidenceCanBePosted ==
    \A k \in DOMAIN Graphs : \A r \in ToSet(Graphs[k].repairs) : \A q \in r.requires :
        \E obs \in Readings[q[1]] : q \in EvidenceSatisfied([t \in {q[1]} |-> obs])

(* A part that is withheld can still be confirmed, by a test of its graph: *)
(* a question that can be put to the user, or a reading all of whose       *)
(* signals the client is asked for and its transport can acquire           *)
(* (repair_basket's gated, capabilities.py check_graph, required_signals). *)
GatedCanBeConfirmed ==
    Answerable => \A r \in Basket.gated : \E test \in ToSet(Primary.tests) :
        /\ \E obs \in Readings[test.id] : r.requires \cap EvidenceSatisfied(Recorded(test.id, obs)) # {}
        /\ Live(test) => \A name \in test.signals : \E a \in SignalsAsked :
              a.recipe.signal = name /\ SignalAcquirable(a.recipe.service, a.recipe.pids)

(* The two layers fit together: what a basket offers resolves to a part,   *)
(* which can be bought only where it fits, and what it advises to inspect  *)
(* is answered with no part; no federal converter is in stock for a        *)
(* Californian car (main.py resolve_fitment_endpoint, fitment.py).         *)
BasketResolves ==
    Answerable => LET basket == Basket IN \A car \in Cars :
        /\ \A r \in basket.items :
              LET found == Resolve(r.action, car)
              IN  /\ found.resolved /\ found.sku # "none"
                  /\ found.purchasable <=> VehicleOf(car) \in DOMAIN Catalog[r.action].fits
                  /\ Californian(car) /\ found.note # "none" => found.stock = "not_available_ca"
        /\ \A r \in basket.guidance : Resolve(r.action, car) = NoPartsRequired

(* Once the primary graph has stopped the diagnosis, nothing posted later  *)
(* about the same codes brings hypotheses or parts back.                   *)
StopIsForGood ==
    [][dtcs' = dtcs /\ Answerable /\ Stops(Primary, flags)
         => PrimaryScore'.stopped /\ Basket' = EmptyBasket]_vars

(* README.md:32-34: "Safety flags (flashing_mil, severe_misfire,           *)
(* fuel_leak, overheat) end diagnosis immediately with a stop-driving      *)
(* message". False: a flag stops only the graphs that list it.             *)
SafetyFlags == {"flashing_mil", "severe_misfire", "fuel_leak", "overheat"}

SafetyFlagsEndDiagnosis ==
    Answerable /\ flags \cap SafetyFlags # {} => \A i \in DOMAIN Diagnoses : Diagnoses[i].stopped
=============================================================================
