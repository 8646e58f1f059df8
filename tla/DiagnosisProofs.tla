-------------------------- MODULE DiagnosisProofs ---------------------------
(***************************************************************************)
(* What a diagnosis may sell and when it must not, for every set of graphs *)
(* (any number of families, hypotheses, tests and rules, whatever their    *)
(* numbers), every set of posted codes, every reading and any number of    *)
(* posts.                                                                  *)
(***************************************************************************)
EXTENDS Diagnosis, Lists

-----------------------------------------------------------------------------
(* Nothing takes a safety flag back.                                       *)
LEMMA FlagsStay ==
    ASSUME [DiagnosisNext]_vars
    PROVE  flags \subseteq flags'
  <1>1. CASE \E codes \in DtcPosts : SetVehicle(codes)
    BY <1>1 DEF SetVehicle
  <1>2. CASE \E test \in KnownTests : \E obs \in Readings[test], reported \in FlagPosts :
                 AddObservation(test, obs, reported)
    BY <1>2 DEF AddObservation
  <1>3. CASE UNCHANGED vars
    BY <1>3 DEF vars
  <1> QED
    BY <1>1, <1>2, <1>3 DEF DiagnosisNext

(* StopIsForGood: once the primary graph has stopped the diagnosis, no     *)
(* post about the same codes brings a hypothesis or a part back, whatever  *)
(* the graphs say and however many other graphs the codes select.          *)
THEOREM StoppedForGood == DiagnosisSpec => StopIsForGood
  <1>1. [DiagnosisNext]_vars
        => [dtcs' = dtcs /\ Answerable /\ Stops(Primary, flags)
              => PrimaryScore'.stopped /\ Basket' = EmptyBasket]_vars
    <2> SUFFICES ASSUME [DiagnosisNext]_vars, dtcs' = dtcs, Stops(Primary, flags)
                 PROVE  PrimaryScore'.stopped /\ Basket' = EmptyBasket
      OBVIOUS
    <2> PICK g : g = Primary
      OBVIOUS
    <2>1. Primary' = g
      BY DEF Primary, MatchedGraphs
    <2>2. Stops(g, flags')
      BY FlagsStay DEF Stops
    <2>3. PrimaryScore' = StoppedScore(g)
      BY <2>1, <2>2 DEF PrimaryScore, Score
    <2>4. StoppedScore(g).stopped
      BY DEF StoppedScore
    <2>5. Basket' = EmptyBasket
      BY <2>1, <2>3, <2>4 DEF Basket, RepairBasket
    <2> QED
      BY <2>3, <2>4, <2>5
  <1> QED
    BY <1>1, PTL DEF DiagnosisSpec, StopIsForGood

-----------------------------------------------------------------------------
(* What a set of codes selects is a list of loaded graphs.                 *)
LEMMA SelectedAreGraphs ==
    ASSUME NEW codes
    PROVE  /\ IsList(GraphsForDtcs(codes))
           /\ \A at \in DOMAIN GraphsForDtcs(codes) :
                 \E k \in DOMAIN Graphs : GraphsForDtcs(codes)[at] = Graphs[k]
  <1> DEFINE matched == {k \in DOMAIN Graphs : Matching(k, codes) > 0}
             before(j, k) == \/ Matching(j, codes) > Matching(k, codes)
                             \/ Matching(j, codes) = Matching(k, codes) /\ j < k
             order == InOrder(matched, before)
             gs == [i \in DOMAIN order |-> Graphs[order[i]]]
             R == {pair \in matched \X matched : before(pair[1], pair[2])}
             Below(x) == {y \in matched : << y, x >> \in R}
             n == Cardinality(matched)
  <1>1. DOMAIN Graphs = 1 .. Len(Graphs) /\ Len(Graphs) \in Nat
    BY GraphsAssumption, LenProperties
  <1>2. \A k \in matched : k \in Nat /\ Matching(k, codes) \in Nat
    <2>1. \A k \in DOMAIN Graphs : k \in Nat /\ IsFiniteSet(Graphs[k].dtcs)
      BY <1>1, GraphsAssumption DEF WellFormed
    <2> QED BY <2>1, FS_Intersection, FS_CardinalityType DEF Matching
  <1>3. IsFiniteSet(matched) /\ n \in Nat
    <2>1. IsFiniteSet(1 .. Len(Graphs))
      BY <1>1, FS_Interval
    <2>2. IsFiniteSet(matched)
      BY <1>1, <2>1, FS_Subset
    <2> QED BY <2>2, FS_CardinalityType
  <1>4. GraphsForDtcs(codes) = gs
    BY DEF GraphsForDtcs, GraphsIn
  <1>5. DOMAIN order = 1 .. n
    BY DEF InOrder
  <1>6. \A i \in 1 .. n :
           order[i] = CHOOSE x \in matched : Cardinality({y \in matched : before(y, x)}) = i - 1
    BY DEF InOrder
  <1>7. \A x \in matched : {y \in matched : before(y, x)} = Below(x)
    OBVIOUS
  <1>8. \A i \in 1 .. n : \E x \in matched : Cardinality(Below(x)) = i - 1
    <2>1. \A x \in matched : << x, x >> \notin R
      BY <1>2
    <2>2. \A x, y \in matched : x # y => << x, y >> \in R \/ << y, x >> \in R
      BY <1>2
    <2>3. \A x, y, z \in matched : << x, y >> \in R /\ << y, z >> \in R => << x, z >> \in R
      BY <1>2
    <2> HIDE DEF R, matched
    <2> QED
      BY <1>3, <2>1, <2>2, <2>3, Ranking, Zenon
  <1>9. ASSUME NEW i \in 1 .. n PROVE order[i] \in matched
    <2>1. \E x \in matched : Cardinality({y \in matched : before(y, x)}) = i - 1
      BY <1>7, <1>8
    <2> HIDE DEF matched, order
    <2> QED BY <1>6, <2>1
  <1>10. gs = [i \in 1 .. n |-> gs[i]] /\ DOMAIN gs = 1 .. n
    <2> HIDE DEF order, n
    <2> QED BY <1>5
  <1>11. \A at \in DOMAIN gs : \E k \in DOMAIN Graphs : gs[at] = Graphs[k]
    <2>1. \A i \in DOMAIN order : gs[i] = Graphs[order[i]]
      OBVIOUS
    <2>2. \A i \in 1 .. n : order[i] \in DOMAIN Graphs
      BY <1>9
    <2> HIDE DEF order, gs
    <2> QED BY <1>5, <1>10, <2>1, <2>2
  <1> HIDE DEF gs, n
  <1>12. IsList(gs)
    BY <1>3, <1>10, ListOf
  <1> QED
    BY <1>4, <1>11, <1>12

(* The primary graph is the first of them.                                 *)
LEMMA PrimaryIsLoaded ==
    ASSUME Answerable
    PROVE  /\ 1 \in DOMAIN MatchedGraphs /\ Primary = MatchedGraphs[1]
           /\ \E k \in DOMAIN Graphs : Primary = Graphs[k]
  <1>1. IsList(MatchedGraphs) /\ MatchedGraphs # << >>
    BY SelectedAreGraphs DEF Answerable, MatchedGraphs
  <1>2. Primary = MatchedGraphs[1] /\ 1 \in DOMAIN MatchedGraphs
    BY <1>1, Tailed DEF IsTail, Primary
  <1> QED
    BY <1>2, SelectedAreGraphs DEF MatchedGraphs

(* What an evidence id of a recorded test says.                            *)
LEMMA EvidenceIs ==
    ASSUME NEW obs, NEW q \in EvidenceSatisfied(obs)
    PROVE  /\ q[1] \in DOMAIN obs
           /\ Len(q) = 2 => \/ obs[q[1]].outcome = q[2]
                            \/ q[2] = "yes" /\ Answered(obs[q[1]].fields)
  <1>1. CASE \E t \in DOMAIN obs : q = << t >>
    BY <1>1
  <1>2. CASE \E t \in DOMAIN obs : q = << t, obs[t].outcome >>
    BY <1>2
  <1>3. CASE \E t \in DOMAIN obs : q = << t, "yes" >> /\ Answered(obs[t].fields)
    BY <1>3
  <1> QED
    BY <1>1, <1>2, <1>3 DEF EvidenceSatisfied

(* PartsAreConfirmed: a part is offered only on evidence somebody recorded *)
(* - a test done, or the very outcome the graph asks for, which favours    *)
(* the hypothesis the part repairs. What the graphs must see to is only    *)
(* that they do not ask for an outcome that speaks against it.             *)
THEOREM SoldOnEvidence == OutcomesFavour => (DiagnosisSpec => []PartsAreConfirmed)
  <1> SUFFICES ASSUME OutcomesFavour PROVE DiagnosisSpec => []PartsAreConfirmed
    OBVIOUS
  <1>1. PartsAreConfirmed
    <2> SUFFICES ASSUME Answerable, NEW r \in Basket.items
                 PROVE  /\ r.class = "replacement"
                        /\ \E q \in r.requires :
                              /\ q[1] \in DOMAIN observations
                              /\ Len(q) = 2 =>
                                    /\ \/ observations[q[1]].outcome = q[2]
                                       \/ q[2] = "yes" /\ Answered(observations[q[1]].fields)
                                    /\ InFavour(TestOf(Primary, q[1]), q[2], r.hypothesis)
      BY DEF PartsAreConfirmed
    <2>1. PICK k \in DOMAIN Graphs : Primary = Graphs[k]
      BY PrimaryIsLoaded
    <2>2. r \in ToSet(Primary.repairs) /\ r.class # "diagnostic" /\ Confirmed(r, observations)
      <3>1. Basket # EmptyBasket
        BY DEF EmptyBasket
      <3> QED
        BY <3>1 DEF Basket, RepairBasket, Reached
    <2>3. r.class = "replacement"
      BY <2>1, <2>2, GraphsAssumption DEF WellFormed
    <2>4. PICK q \in r.requires : q \in EvidenceSatisfied(observations)
      BY <2>2 DEF Confirmed
    <2>5. Len(q) = 2 => InFavour(TestOf(Primary, q[1]), q[2], r.hypothesis)
      BY <2>1, <2>2 DEF OutcomesFavour
    <2> QED
      BY <2>3, <2>4, <2>5, EvidenceIs
  <1> QED
    BY <1>1, PTL

-----------------------------------------------------------------------------
(* A test that can be answered gives a piece of evidence r asks for.       *)
CanBeConfirmed(g, r) ==
    \E q \in r.requires : \E t \in ToSet(g.tests) :
        /\ q[1] = t.id
        /\ Live(t) => /\ t.signals # {}
                      /\ \A name \in t.signals : \E s \in ToSet(g.signals) :
                            s.signal = name /\ SignalAcquirable(s.service, s.pids)

(* In a checked graph "supported" means what the transports can acquire.   *)
LEMMA CheckedSignals ==
    \A g : CheckGraph(g) = {} =>
        \A s \in ToSet(g.signals) : s.status = "supported" <=> SignalAcquirable(s.service, s.pids)
  <1> SUFFICES ASSUME NEW g, CheckGraph(g) = {}, NEW s \in ToSet(g.signals)
               PROVE  s.status = "supported" <=> SignalAcquirable(s.service, s.pids)
    OBVIOUS
  <1>1. SignalProblems(g) = {}
    BY DEF CheckGraph
  <1>2. (s.status = "supported") = SignalAcquirable(s.service, s.pids)
    BY <1>1 DEF SignalProblems
  <1> QED BY <1>2

(* A part a checked graph sells can be confirmed: the capability check     *)
(* leaves a test it asks for that is a question to the user, or a reading  *)
(* each of whose signals has a recipe the transports can acquire           *)
(* (capabilities.py check_graph).                                          *)
THEOREM CheckedPartsCanBeConfirmed ==
    \A g : WellFormed(g) /\ CheckGraph(g) = {} =>
        \A r \in ToSet(g.repairs) : r.class = "replacement" => CanBeConfirmed(g, r)
  <1> SUFFICES ASSUME NEW g, WellFormed(g), CheckGraph(g) = {},
                      NEW r \in ToSet(g.repairs), r.class = "replacement"
               PROVE  CanBeConfirmed(g, r)
    OBVIOUS
  <1>1. TestProblems(g) = {} /\ SignalProblems(g) = {} /\ RepairProblems(g) = {}
    BY DEF CheckGraph
  <1>2. PICK q \in r.requires : SatisfiableWithoutPlanned(g, q)
    <2>1. r.requires # {}
      BY <1>1 DEF RepairProblems
    <2> QED BY <1>1, <2>1 DEF RepairProblems
  <1>3. PICK t \in ToSet(g.tests) : t = NamedTest(g, q[1]) /\ t.id = q[1]
    <2> DEFINE ts == g.tests
               I == {i \in 1 .. Len(ts) : ts[i].id = q[1]}
    <2>1. DOMAIN ts = 1 .. Len(ts) /\ Len(ts) \in Nat
      BY LenProperties DEF WellFormed
    <2>2. I # {} /\ I \subseteq Nat
      BY <1>2, <2>1 DEF SatisfiableWithoutPlanned, TestIds
    <2>3. SelectInSeq(ts, LAMBDA x : x.id = q[1]) = Min(I)
      BY <2>2 DEF SelectInSeq
    <2>4. Min(I) \in I
      <3> HIDE DEF I
      <3>1. \E x \in I : \A y \in I : x <= y
        BY <2>2, LeastOf
      <3> QED BY <3>1 DEF Min
    <2>5. NamedTest(g, q[1]) = ts[Min(I)]
      BY <2>3 DEF NamedTest
    <2> QED
      BY <2>1, <2>4, <2>5 DEF ToSet
  <1>4. ASSUME Live(t)
        PROVE  /\ t.signals # {} /\ t.signals \cap Planned(g) = {}
               /\ t.signals \subseteq Declared(g)
    BY <1>1, <1>2, <1>3, <1>4 DEF SatisfiableWithoutPlanned, Live, TestProblems
  <1>5. ASSUME Live(t), NEW name \in t.signals
        PROVE  \E s \in ToSet(g.signals) : s.signal = name /\ SignalAcquirable(s.service, s.pids)
    <2>1. PICK s \in ToSet(g.signals) : s.signal = name
      BY <1>4, <1>5 DEF Declared, ToSet
    <2>2. s.status # "planned"
      BY <1>4, <1>5, <2>1 DEF Planned
    <2>3. s.status = "supported"
      BY <2>1, <2>2 DEF WellFormed
    <2> QED
      BY <2>1, <2>3, CheckedSignals
  <1> QED
    BY <1>3, <1>4, <1>5 DEF CanBeConfirmed

-----------------------------------------------------------------------------
(* What the catalogue may say of a part, by the action it is bought for:   *)
(* it has a number, and only the converter carries a note, the federal     *)
(* one, in place of which California is refused (fitment.py CATALOG).      *)
Sellable(action, part) ==
    /\ part.sku # "none"
    /\ part.note # "none" => action = "replace_catalytic_converter_bank1"

AllSellable(action, entry) ==
    /\ Sellable(action, entry.default)
    /\ \A v \in DOMAIN entry.fits : Sellable(action, entry.fits[v])

(* An entry made of such parts says nothing else.                         *)
LEMMA PartsAreSellable ==
    ASSUME NEW a, NEW v, NEW w, NEW p, NEW q, NEW d,
           Sellable(a, p), Sellable(a, q), Sellable(a, d)
    PROVE  /\ AllSellable(a, Entry(FitsNone, d))
           /\ AllSellable(a, Entry(FitsOne(v, p), d))
           /\ AllSellable(a, Entry(FitsEither(v, p, w, q), d))
  BY DEF AllSellable, Entry, FitsNone, FitsOne, FitsEither

(* The catalogue is made of such entries.                                  *)
LEMMA CatalogIsStocked == \A a \in DOMAIN Catalog : AllSellable(a, Catalog[a])
  <1>1. \A a, sku : sku # "none" => Sellable(a, Part(sku))
    BY DEF Sellable, Part
  <1>2. \A sku : sku # "none" => Sellable("replace_catalytic_converter_bank1", FederalConverter(sku))
    BY DEF Sellable, FederalConverter
  <1>3. \A a, x : x # "none" => AllSellable(a, Entry(FitsNone, Part(x)))
    BY <1>1, PartsAreSellable
  <1>4. \A a, v, x, y : x # "none" /\ y # "none" => AllSellable(a, Entry(FitsOne(v, Part(x)), Part(y)))
    BY <1>1, PartsAreSellable
  <1>5. \A a, v, w, x, y, z : x # "none" /\ y # "none" /\ z # "none"
            => AllSellable(a, Entry(FitsEither(v, Part(x), w, Part(y)), Part(z)))
    BY <1>1, PartsAreSellable
  <1>6. \A v, x, y : x # "none" /\ y # "none"
            => AllSellable("replace_catalytic_converter_bank1",
                           Entry(FitsOne(v, FederalConverter(x)), FederalConverter(y)))
    BY <1>2, PartsAreSellable
  <1>7. /\ AllSellable("replace_ect_sensor", Catalog["replace_ect_sensor"])
      /\ AllSellable("repair_exhaust_leak", Catalog["repair_exhaust_leak"])
      /\ AllSellable("repair_evap_hose", Catalog["repair_evap_hose"])
      /\ AllSellable("repair_manifold_gasket", Catalog["repair_manifold_gasket"])
      /\ AllSellable("repair_o2_wiring", Catalog["repair_o2_wiring"])
    BY <1>3 DEF Catalog
  <1>8. /\ AllSellable("service_maf_sensor", Catalog["service_maf_sensor"])
      /\ AllSellable("replace_spark_plugs", Catalog["replace_spark_plugs"])
      /\ AllSellable("replace_thermostat", Catalog["replace_thermostat"])
      /\ AllSellable("replace_downstream_o2_sensor", Catalog["replace_downstream_o2_sensor"])
      /\ AllSellable("replace_gas_cap", Catalog["replace_gas_cap"])
      /\ AllSellable("replace_vent_valve", Catalog["replace_vent_valve"])
      /\ AllSellable("replace_upstream_o2_sensor", Catalog["replace_upstream_o2_sensor"])
    BY <1>4 DEF Catalog
  <1>9. /\ AllSellable("replace_intake_pcv_hose", Catalog["replace_intake_pcv_hose"])
      /\ AllSellable("replace_ignition_coil", Catalog["replace_ignition_coil"])
    BY <1>5 DEF Catalog
  <1>10. AllSellable("replace_catalytic_converter_bank1", Catalog["replace_catalytic_converter_bank1"])
    BY <1>6 DEF Catalog
  <1>11. DOMAIN Catalog =
           {"replace_intake_pcv_hose", "service_maf_sensor", "replace_ignition_coil",
            "replace_spark_plugs", "replace_thermostat", "replace_ect_sensor",
            "replace_catalytic_converter_bank1", "replace_downstream_o2_sensor",
            "repair_exhaust_leak", "replace_gas_cap", "repair_evap_hose", "replace_vent_valve",
            "replace_upstream_o2_sensor", "repair_manifold_gasket", "repair_o2_wiring"}
    BY DEF Catalog
  <1> QED
    BY <1>7, <1>8, <1>9, <1>10, <1>11

(* A part of the catalogue resolves for every car, to itself where it fits *)
(* and never to a federal converter in stock in California.                *)
LEMMA StockedResolves ==
    ASSUME NEW action \in DOMAIN Catalog, NEW car
    PROVE  LET found == ResolveFitment(action, car)
           IN  /\ found.resolved /\ found.sku # "none"
               /\ found.purchasable <=> VehicleOf(car) \in DOMAIN Catalog[action].fits
               /\ Californian(car) /\ found.note # "none" => found.stock = "not_available_ca"
  <1> DEFINE entry == Catalog[action]
             exact == VehicleOf(car) \in DOMAIN entry.fits
             part  == IF exact THEN entry.fits[VehicleOf(car)] ELSE entry.default
             banned == action = "replace_catalytic_converter_bank1" /\ Californian(car)
             found == ResolveFitment(action, car)
  <1>1. found = [resolved |-> TRUE, vehicle |-> VehicleOf(car), sku |-> part.sku,
                 confirmed |-> exact, purchasable |-> exact,
                 stock |-> IF banned THEN "not_available_ca" ELSE part.stock,
                 note |-> IF banned THEN "not_for_california" ELSE part.note]
    BY DEF ResolveFitment
  <1>2. AllSellable(action, entry)
    BY CatalogIsStocked
  <1> HIDE DEF entry
  <1>3. Sellable(action, part)
    BY <1>2 DEF AllSellable
  <1> HIDE DEF part, found, exact
  <1>4. found.resolved /\ found.sku # "none" /\ (found.purchasable <=> exact)
    BY <1>1, <1>3 DEF Sellable
  <1>5. Californian(car) /\ found.note # "none" => found.stock = "not_available_ca"
    BY <1>1, <1>3 DEF Sellable
  <1> QED
    BY <1>4, <1>5 DEF found, exact, entry

(* BasketResolves: what a basket offers is a part for every car, to be     *)
(* bought only where it fits and not where it is illegal, and what it      *)
(* advises to inspect is no part. What the graphs must see to is only that *)
(* the parts they sell are in the catalogue.                               *)
THEOREM OffersResolve == PartsAreStocked => (DiagnosisSpec => []BasketResolves)
  <1> SUFFICES ASSUME PartsAreStocked PROVE DiagnosisSpec => []BasketResolves
    OBVIOUS
  <1>1. BasketResolves
    <2> SUFFICES ASSUME Answerable, NEW car \in Cars
                 PROVE  /\ \A r \in Basket.items :
                              LET found == Resolve(r.action, car)
                              IN  /\ found.resolved /\ found.sku # "none"
                                  /\ found.purchasable <=> VehicleOf(car) \in DOMAIN Catalog[r.action].fits
                                  /\ Californian(car) /\ found.note # "none" => found.stock = "not_available_ca"
                        /\ \A r \in Basket.guidance : Resolve(r.action, car) = NoPartsRequired
      BY DEF BasketResolves
    <2>1. PICK k \in DOMAIN Graphs : Primary = Graphs[k]
      BY PrimaryIsLoaded
    <2>2. ASSUME NEW r \in Basket.items
          PROVE  r.action \in DOMAIN Catalog /\ r.action \notin DiagnosticActions
      <3>1. Basket # EmptyBasket
        BY <2>2 DEF EmptyBasket
      <3>2. r \in ToSet(Graphs[k].repairs) /\ r.class # "diagnostic"
        BY <2>1, <2>2, <3>1 DEF Basket, RepairBasket, Reached
      <3>3. r.class = "replacement"
        BY <3>2, GraphsAssumption DEF WellFormed
      <3> QED BY <3>2, <3>3 DEF PartsAreStocked
    <2>3. ASSUME NEW r \in Basket.guidance
          PROVE  r.action \in DiagnosticActions
      <3>1. Basket # EmptyBasket
        BY <2>3 DEF EmptyBasket
      <3>2. r \in ToSet(Graphs[k].repairs) /\ r.class = "diagnostic"
        BY <2>1, <2>3, <3>1 DEF Basket, RepairBasket, Reached
      <3> QED BY <3>2 DEF DiagnosticActions
    <2> QED
      BY <2>2, <2>3, StockedResolves DEF Resolve
  <1> QED
    BY <1>1, PTL

-----------------------------------------------------------------------------
(* Strengths are fractions of positive numbers, compared crosswise.        *)
LEMMA FractionOrder ==
    ASSUME NEW p1 \in Nat \ {0}, NEW q1 \in Nat \ {0}, NEW p2 \in Nat \ {0}, NEW q2 \in Nat \ {0},
           NEW p3 \in Nat \ {0}, NEW q3 \in Nat \ {0},
           p1 * q2 < p2 * q1, ~(p1 * q3 < p3 * q1)
    PROVE  ~(p2 * q3 < p3 * q2)
  <1> SUFFICES ASSUME p2 * q3 < p3 * q2 PROVE FALSE
    OBVIOUS
  <1>1. \A a, b \in Nat, c \in Nat \ {0} : a < b => a * c < b * c
    OBVIOUS
  <1>2. \A a, b, c \in Nat : a <= b => a * c <= b * c
    OBVIOUS
  <1>3. \A a, b, c \in Nat : (a * b) * c = (a * c) * b /\ a * b \in Nat
    OBVIOUS
  <1>4. (p1 * q2) * q3 < (p2 * q1) * q3
    BY <1>1, <1>3
  <1>5. (p3 * q1) * q2 <= (p1 * q3) * q2
    <2>1. p3 * q1 <= p1 * q3
      BY <1>3
    <2> QED BY <1>2, <1>3, <2>1
  <1>6. (p2 * q3) * q1 < (p3 * q2) * q1
    BY <1>1, <1>3
  <1> DEFINE x == (p1 * q2) * q3
             y == (p2 * q1) * q3
             z == (p3 * q1) * q2
  <1>7. x \in Nat /\ y \in Nat /\ z \in Nat
    BY <1>3
  <1>8. x < y /\ z <= x /\ y < z
    BY <1>3, <1>4, <1>5, <1>6
  <1> HIDE DEF x, y, z
  <1> QED
    BY <1>7, <1>8

(* The stronger of two multipliers is as strong as what the other one beat.*)
LEMMA StrengthOrder ==
    ASSUME NEW a \in Nat \ {0}, NEW b \in Nat \ {0}, NEW c \in Nat \ {0}
    PROVE  /\ ~Less(Strength(a), Strength(a))
           /\ Less(Strength(a), Strength(b)) /\ ~Less(Strength(a), Strength(c))
                => ~Less(Strength(b), Strength(c))
  <1>1. \A m \in Nat \ {0} : \E p, q \in Nat \ {0} : Strength(m) = << p, q >>
    BY DEF Strength
  <1> PICK p1 \in Nat \ {0}, q1 \in Nat \ {0} : Strength(a) = << p1, q1 >>
    BY <1>1
  <1> PICK p2 \in Nat \ {0}, q2 \in Nat \ {0} : Strength(b) = << p2, q2 >>
    BY <1>1
  <1> PICK p3 \in Nat \ {0}, q3 \in Nat \ {0} : Strength(c) = << p3, q3 >>
    BY <1>1
  <1>2. ~Less(Strength(a), Strength(a))
    BY DEF Less
  <1>3. ASSUME Less(Strength(a), Strength(b)), ~Less(Strength(a), Strength(c))
        PROVE  ~Less(Strength(b), Strength(c))
    <2>1. p1 * q2 < p2 * q1 /\ ~(p1 * q3 < p3 * q1)
      BY <1>3 DEF Less
    <2>2. ~(p2 * q3 < p3 * q2)
      BY <2>1, FractionOrder
    <2> QED BY <2>2 DEF Less
  <1> QED BY <1>2, <1>3

-----------------------------------------------------------------------------
(* The rules of a measurement, joining their groups one after the other.   *)
HasRules(test) ==
    /\ test.rules \in Seq(Range(test.rules))
    /\ \A i \in DOMAIN test.rules : \A h \in DOMAIN test.rules[i].updates :
          test.rules[i].updates[h] \in Nat \ {0}

(* The groups after so many rules, the last of them what Buckets makes.    *)
LEMMA RulesJoin ==
    ASSUME NEW test, HasRules(test), NEW fields
    PROVE  \E after :
              /\ after[0] = << >> /\ Buckets(test, fields) = after[Len(test.rules)]
              /\ \A n \in 1 .. Len(test.rules) :
                    after[n] = IF n \in Matched(test, fields) THEN JoinGroup(test, after[n - 1], n)
                               ELSE after[n - 1]
  <1> DEFINE matched == Matched(test, fields)
             size == Len(test.rules)
             Joins(f, m) == f = [n \in 0 .. m |-> IF n = 0 THEN << >>
                                                  ELSE IF n \in matched THEN JoinGroup(test, f[n - 1], n)
                                                  ELSE f[n - 1]]
  <1>1. size \in Nat
    BY LenProperties DEF HasRules
  <1>2. \A m \in Nat : \E f : Joins(f, m)
    <2> HIDE DEF Joins, matched
    <2> DEFINE bad == {m \in Nat : \A f : ~Joins(f, m)}
    <2>1. SUFFICES ASSUME bad # {} PROVE FALSE
      OBVIOUS
    <2>2. PICK m \in bad : \A y \in bad : m <= y
      BY <2>1, LeastOf
    <2>3. m \in Nat /\ \A f : ~Joins(f, m)
      OBVIOUS
    <2>4. m # 0
      <3> DEFINE f == [n \in 0 .. 0 |-> << >>]
      <3>1. f = [n \in 0 .. 0 |-> IF n = 0 THEN << >>
                                  ELSE IF n \in matched THEN JoinGroup(test, f[n - 1], n)
                                  ELSE f[n - 1]]
        OBVIOUS
      <3> HIDE DEF f
      <3>2. Joins(f, 0)
        BY <3>1 DEF Joins
      <3> QED BY <2>3, <3>2
    <2>5. m - 1 \in Nat /\ m - 1 \notin bad
      <3> HIDE DEF bad
      <3> QED BY <2>2, <2>3, <2>4
    <2>6. PICK f : Joins(f, m - 1)
      BY <2>5
    <2> DEFINE g == [n \in 0 .. m |-> IF n = 0 THEN << >>
                                      ELSE IF n \in matched THEN JoinGroup(test, f[n - 1], n)
                                      ELSE f[n - 1]]
    <2>7. \A n \in 0 .. m : n # 0 => g[n - 1] = f[n - 1]
      <3> SUFFICES ASSUME NEW n \in 0 .. m, n # 0 PROVE g[n - 1] = f[n - 1]
        OBVIOUS
      <3>1. n - 1 \in 0 .. m /\ n - 1 \in 0 .. m - 1
        BY <2>3
      <3>2. f[n - 1] = IF n - 1 = 0 THEN << >>
                       ELSE IF n - 1 \in matched THEN JoinGroup(test, f[n - 1 - 1], n - 1)
                       ELSE f[n - 1 - 1]
        BY <2>6, <3>1 DEF Joins
      <3> QED BY <3>1, <3>2
    <2>8. g = [n \in 0 .. m |-> IF n = 0 THEN << >>
                                ELSE IF n \in matched THEN JoinGroup(test, g[n - 1], n)
                                ELSE g[n - 1]]
      BY <2>7
    <2> HIDE DEF g
    <2>9. Joins(g, m)
      BY <2>8 DEF Joins
    <2> QED BY <2>3, <2>9
  <1> DEFINE after == CHOOSE f : Joins(f, size)
  <1>3. Buckets(test, fields) = after[size]
    BY DEF Buckets
  <1>4. Joins(after, size)
    <2>1. \E f : Joins(f, size)
      BY <1>1, <1>2
    <2> HIDE DEF Joins, size
    <2> QED BY <2>1
  <1> PICK flow : flow = after
    OBVIOUS
  <1>5. /\ flow[0] = << >>
        /\ \A n \in 1 .. size : flow[n] = IF n \in matched THEN JoinGroup(test, flow[n - 1], n) ELSE flow[n - 1]
    <2> HIDE DEF after, matched, size
    <2> QED BY <1>1, <1>4
  <1>6. Buckets(test, fields) = flow[size]
    BY <1>3
  <1> HIDE DEF after, Joins
  <1> QED
    BY <1>5, <1>6

(* What the groups hold once the first n rules have joined them: of every  *)
(* rule that matched its own multiplier or a stronger one, and nothing     *)
(* that is not a multiplier of a rule that matched.                        *)
Settled(test, matched, groups, n) ==
    /\ DOMAIN groups = {GroupOf(test, i) : i \in matched \cap (1 .. n)}
    /\ \A i \in matched \cap (1 .. n) : \A h \in DOMAIN test.rules[i].updates :
          /\ h \in DOMAIN groups[GroupOf(test, i)]
          /\ ~Less(Strength(groups[GroupOf(test, i)][h]), Strength(test.rules[i].updates[h]))
    /\ \A k \in DOMAIN groups : \A h \in DOMAIN groups[k] : \E j \in matched \cap (1 .. n) :
          /\ GroupOf(test, j) = k /\ h \in DOMAIN test.rules[j].updates
          /\ groups[k][h] = test.rules[j].updates[h]

(* One more rule keeps it so.                                              *)
LEMMA JoinSettles ==
    ASSUME NEW test, HasRules(test), NEW matched, matched \subseteq DOMAIN test.rules,
           NEW n \in matched, NEW groups, Settled(test, matched, groups, n - 1)
    PROVE  Settled(test, matched, JoinGroup(test, groups, n), n)
  <1> DEFINE key == GroupOf(test, n)
             bucket == IF key \in DOMAIN groups THEN groups[key] ELSE << >>
             news == test.rules[n].updates
             joined == Keep(bucket, news)
             more == JoinGroup(test, groups, n)
             before == matched \cap (1 .. n - 1)
  <1>1. n \in Nat \ {0} /\ DOMAIN test.rules = 1 .. Len(test.rules)
    BY LenProperties DEF HasRules
  <1>2. matched \cap (1 .. n) = before \cup {n} /\ n \notin before
    BY <1>1
  <1>3. DOMAIN more = DOMAIN groups \cup {key} /\ more[key] = joined
        /\ \A k \in DOMAIN groups \ {key} : more[k] = groups[k]
    BY DEF JoinGroup
  <1>4. DOMAIN groups = {GroupOf(test, i) : i \in before}
    BY DEF Settled
  <1>5. \A i \in before : \A h \in DOMAIN test.rules[i].updates :
           /\ h \in DOMAIN groups[GroupOf(test, i)]
           /\ ~Less(Strength(groups[GroupOf(test, i)][h]), Strength(test.rules[i].updates[h]))
    BY DEF Settled
  <1>6. \A k \in DOMAIN groups : \A h \in DOMAIN groups[k] : \E j \in before :
           /\ GroupOf(test, j) = k /\ h \in DOMAIN test.rules[j].updates
           /\ groups[k][h] = test.rules[j].updates[h]
    BY DEF Settled
  <1>7. \A i \in matched : \A h \in DOMAIN test.rules[i].updates : test.rules[i].updates[h] \in Nat \ {0}
    BY DEF HasRules
  <1>8. \A h \in DOMAIN bucket : \E j \in before :
           /\ key \in DOMAIN groups
           /\ GroupOf(test, j) = key /\ h \in DOMAIN test.rules[j].updates
           /\ bucket[h] = test.rules[j].updates[h]
    BY <1>6
  <1>9. /\ DOMAIN joined = DOMAIN bucket \cup DOMAIN news
        /\ \A h \in DOMAIN joined :
              joined[h] = IF h \notin DOMAIN news THEN bucket[h]
                          ELSE IF h \notin DOMAIN bucket THEN news[h]
                          ELSE IF Less(Strength(bucket[h]), Strength(news[h])) THEN news[h]
                          ELSE bucket[h]
    BY DEF Keep
  <1>10. \A h \in DOMAIN bucket : bucket[h] \in Nat \ {0}
    BY <1>7, <1>8
  <1> HIDE DEF key, bucket, news, joined, more, before
  <1>11. \A h \in DOMAIN news : ~Less(Strength(joined[h]), Strength(news[h]))
    <2> SUFFICES ASSUME NEW h \in DOMAIN news PROVE ~Less(Strength(joined[h]), Strength(news[h]))
      OBVIOUS
    <2>1. news[h] \in Nat \ {0}
      BY <1>7 DEF news
    <2>2. ~Less(Strength(news[h]), Strength(news[h]))
      BY <2>1, StrengthOrder
    <2> QED BY <1>9, <2>2
  <1>12. \A h \in DOMAIN bucket, m \in Nat \ {0} :
            ~Less(Strength(bucket[h]), Strength(m)) => ~Less(Strength(joined[h]), Strength(m))
    <2> SUFFICES ASSUME NEW h \in DOMAIN bucket, NEW m \in Nat \ {0},
                        ~Less(Strength(bucket[h]), Strength(m))
                 PROVE  ~Less(Strength(joined[h]), Strength(m))
      OBVIOUS
    <2>1. CASE h \in DOMAIN news /\ Less(Strength(bucket[h]), Strength(news[h]))
      <3>1. news[h] \in Nat \ {0} /\ bucket[h] \in Nat \ {0}
        BY <1>7, <1>10, <2>1 DEF news
      <3>2. ~Less(Strength(news[h]), Strength(m))
        BY <2>1, <3>1, StrengthOrder
      <3> QED BY <1>9, <2>1, <3>2
    <2>2. CASE ~(h \in DOMAIN news /\ Less(Strength(bucket[h]), Strength(news[h])))
      BY <1>9, <2>2
    <2> QED BY <2>1, <2>2
  <1>13. DOMAIN more = {GroupOf(test, i) : i \in before \cup {n}}
    BY <1>3, <1>4 DEF key
  <1>14. ASSUME NEW i \in before \cup {n}, NEW h \in DOMAIN test.rules[i].updates
         PROVE  /\ h \in DOMAIN more[GroupOf(test, i)]
                /\ ~Less(Strength(more[GroupOf(test, i)][h]), Strength(test.rules[i].updates[h]))
    <2>1. CASE i = n
      BY <1>3, <1>9, <1>11, <1>14, <2>1 DEF key, news
    <2>2. CASE i \in before /\ GroupOf(test, i) # key
      <3>1. more[GroupOf(test, i)] = groups[GroupOf(test, i)]
        BY <1>3, <1>4, <2>2
      <3> QED BY <1>5, <1>14, <2>2, <3>1
    <2>3. CASE i \in before /\ GroupOf(test, i) = key
      <3>1. groups[key] = bucket
        BY <1>4, <2>3 DEF bucket
      <3>2. h \in DOMAIN bucket /\ ~Less(Strength(bucket[h]), Strength(test.rules[i].updates[h]))
        BY <1>5, <1>14, <2>3, <3>1
      <3>3. test.rules[i].updates[h] \in Nat \ {0}
        BY <1>7, <1>14, <2>3 DEF before
      <3>4. ~Less(Strength(joined[h]), Strength(test.rules[i].updates[h]))
        BY <1>12, <3>2, <3>3
      <3> QED BY <1>3, <1>9, <2>3, <3>2, <3>4
    <2> QED BY <2>1, <2>2, <2>3
  <1>15. ASSUME NEW k \in DOMAIN more, NEW h \in DOMAIN more[k]
         PROVE  \E j \in before \cup {n} :
                   /\ GroupOf(test, j) = k /\ h \in DOMAIN test.rules[j].updates
                   /\ more[k][h] = test.rules[j].updates[h]
    <2>1. CASE k # key
      BY <1>3, <1>6, <1>15, <2>1
    <2>2. CASE k = key
      <3>1. h \in DOMAIN joined /\ more[k][h] = joined[h]
        BY <1>3, <1>15, <2>2
      <3>2. \/ h \in DOMAIN news /\ joined[h] = news[h]
            \/ h \in DOMAIN bucket /\ joined[h] = bucket[h]
        BY <1>9, <3>1
      <3> QED BY <1>8, <2>2, <3>1, <3>2 DEF key, news
    <2> QED BY <2>1, <2>2
  <1> QED
    BY <1>2, <1>13, <1>14, <1>15 DEF Settled, more, before

(* So it holds of the buckets.                                             *)
LEMMA BucketsSettled ==
    ASSUME NEW test, HasRules(test), NEW fields
    PROVE  Settled(test, Matched(test, fields), Buckets(test, fields), Len(test.rules))
  <1> DEFINE matched == Matched(test, fields)
             size == Len(test.rules)
  <1>1. matched \subseteq DOMAIN test.rules /\ DOMAIN test.rules = 1 .. size /\ size \in Nat
    BY LenProperties DEF HasRules, Matched
  <1>2. PICK after :
           /\ after[0] = << >> /\ Buckets(test, fields) = after[size]
           /\ \A n \in 1 .. size : after[n] = IF n \in matched THEN JoinGroup(test, after[n - 1], n)
                                              ELSE after[n - 1]
    BY RulesJoin
  <1> HIDE DEF matched, size
  <1>3. \A n \in 0 .. size : Settled(test, matched, after[n], n)
    <2> DEFINE bad == {n \in 0 .. size : ~Settled(test, matched, after[n], n)}
    <2>1. SUFFICES ASSUME bad # {} PROVE FALSE
      OBVIOUS
    <2>2. PICK n \in bad : \A y \in bad : n <= y
      <3>1. bad \subseteq Nat
        BY <1>1
      <3> HIDE DEF bad
      <3> QED BY <2>1, <3>1, LeastOf
    <2>3. n \in 0 .. size /\ ~Settled(test, matched, after[n], n)
      OBVIOUS
    <2>4. n # 0
      <3>1. matched \cap (1 .. 0) = {} /\ DOMAIN << >> = {}
        OBVIOUS
      <3>2. Settled(test, matched, << >>, 0)
        BY <3>1 DEF Settled
      <3> QED BY <1>2, <2>3, <3>2
    <2>5. n - 1 \in 0 .. size /\ n - 1 \notin bad
      <3> HIDE DEF bad
      <3> QED BY <1>1, <2>2, <2>3, <2>4
    <2>6. Settled(test, matched, after[n - 1], n - 1)
      BY <2>5
    <2> HIDE DEF bad
    <2>7. CASE n \in matched
      <3>1. Settled(test, matched, JoinGroup(test, after[n - 1], n), n)
        BY <1>1, <2>6, <2>7, JoinSettles
      <3> QED BY <1>1, <1>2, <2>3, <2>4, <2>7, <3>1
    <2>8. CASE n \notin matched
      <3>1. matched \cap (1 .. n) = matched \cap (1 .. n - 1)
        BY <1>1, <2>3, <2>8
      <3>2. after[n] = after[n - 1]
        BY <1>1, <1>2, <2>3, <2>4, <2>8
      <3>3. Settled(test, matched, after[n], n)
        BY <2>6, <3>1, <3>2 DEF Settled
      <3> QED BY <2>3, <3>3
    <2> QED BY <2>7, <2>8
  <1>4. size \in 0 .. size
    BY <1>1
  <1> QED
    BY <1>2, <1>3, <1>4 DEF matched, size

(* One rule of those that have a say in a group on a hypothesis is not     *)
(* reported: the others are, each once.                                    *)
LEMMA OthersAreDropped ==
    ASSUME NEW S, S \subseteq Nat, IsFiniteSet(S), S # {}, NEW h, NEW D,
           \A x : x \in D <=> \E j \in S : x = << j, h >> /\ \E i \in S : i < j
    PROVE  Cardinality(D) = Cardinality(S) - 1
  <1>1. PICK least \in S : \A y \in S : least <= y
    BY LeastOf
  <1> DEFINE rest == S \ {least}
  <1>2. IsFiniteSet(rest) /\ Cardinality(rest) = Cardinality(S) - 1
    BY FS_RemoveElement
  <1>3. {j \in S : \E i \in S : i < j} = rest
    <2>1. \A j \in rest : least < j
      BY <1>1
    <2>2. ~\E i \in S : i < least
      BY <1>1
    <2> QED BY <2>1, <2>2
  <1>4. D = {<< j, h >> : j \in rest}
    BY <1>3
  <1> HIDE DEF rest
  <1> DEFINE pair == [j \in rest |-> << j, h >>]
  <1>5. pair \in [rest -> D] /\ IsInjective(pair) /\ \A x \in D : \E j \in rest : pair[j] = x
    BY <1>4 DEF IsInjective
  <1> HIDE DEF pair
  <1>6. pair \in Bijection(rest, D)
    BY <1>5 DEF Bijection, Injection, Surjection
  <1>7. Cardinality(D) = Cardinality(rest)
    BY <1>2, <1>6, FS_Bijection DEF ExistsBijection
  <1> QED
    BY <1>2, <1>7

(* Some of the numbers from 1 to n are finitely many.                      *)
LEMMA SomeOfFirst ==
    ASSUME NEW n \in Nat, NEW S, S \subseteq 1 .. n
    PROVE  S \subseteq Nat /\ IsFiniteSet(S)
  <1>1. IsFiniteSet(1 .. n)
    BY FS_Interval
  <1>2. IsFiniteSet(S)
    BY <1>1, FS_Subset
  <1>3. S \subseteq Nat
    OBVIOUS
  <1> QED
    BY <1>2, <1>3

(* What StrongestRuleCounts says, of one test with whatever rules.         *)
LEMMA StrongestIsKept ==
    ASSUME NEW test, HasRules(test), NEW fields
    PROVE  StrongestKept(test, fields)
  <1> DEFINE matched == Matched(test, fields)
             buckets == Buckets(test, fields)
             dropped == Deduped(test, fields)
             Says(i, h) == h \in DOMAIN test.rules[i].updates
             Rivals(i, h) == {j \in matched : GroupOf(test, j) = GroupOf(test, i) /\ Says(j, h)}
             Told(i, h) == {x \in dropped : x[2] = h /\ GroupOf(test, x[1]) = GroupOf(test, i)}
  <1>1. matched \subseteq 1 .. Len(test.rules) /\ Len(test.rules) \in Nat
    BY LenProperties DEF HasRules, Matched
  <1>2. matched \subseteq Nat /\ IsFiniteSet(matched)
    <2> HIDE DEF matched
    <2> QED BY <1>1, SomeOfFirst
  <1>3. matched \cap (1 .. Len(test.rules)) = matched
    BY <1>1
  <1>4. Settled(test, matched, buckets, Len(test.rules))
    BY BucketsSettled
  <1> HIDE DEF matched, buckets
  <1>5. DOMAIN buckets = {GroupOf(test, i) : i \in matched}
    BY <1>3, <1>4 DEF Settled
  <1>6. ASSUME NEW i \in matched, NEW h \in DOMAIN test.rules[i].updates
        PROVE  /\ ~Less(Strength(buckets[GroupOf(test, i)][h]), Strength(test.rules[i].updates[h]))
               /\ \E j \in Rivals(i, h) : buckets[GroupOf(test, i)][h] = test.rules[j].updates[h]
    <2>1. /\ h \in DOMAIN buckets[GroupOf(test, i)]
          /\ ~Less(Strength(buckets[GroupOf(test, i)][h]), Strength(test.rules[i].updates[h]))
      BY <1>3, <1>4, <1>6 DEF Settled
    <2>2. GroupOf(test, i) \in DOMAIN buckets
      BY <1>5
    <2>3. PICK j \in matched : /\ GroupOf(test, j) = GroupOf(test, i) /\ Says(j, h)
                               /\ buckets[GroupOf(test, i)][h] = test.rules[j].updates[h]
      BY <1>3, <1>4, <2>1, <2>2 DEF Settled
    <2> QED BY <2>1, <2>3
  <1>7. ASSUME NEW i \in matched, NEW h \in DOMAIN test.rules[i].updates
        PROVE  Cardinality(Told(i, h)) = Cardinality(Rivals(i, h)) - 1
    <2>1. Rivals(i, h) \subseteq matched /\ i \in Rivals(i, h)
      BY <1>7
    <2>2. Rivals(i, h) \subseteq Nat /\ IsFiniteSet(Rivals(i, h)) /\ Rivals(i, h) # {}
      <3> PICK rivals : rivals = Rivals(i, h)
        OBVIOUS
      <3>1. rivals \subseteq matched /\ i \in rivals
        BY <2>1
      <3> HIDE DEF Rivals
      <3>2. rivals \subseteq Nat /\ IsFiniteSet(rivals) /\ rivals # {}
        BY <1>2, <3>1, FS_Subset
      <3> QED BY <3>2
    <2>3. \A x : x \in dropped <=>
             \E a \in matched : \E g \in DOMAIN test.rules[a].updates :
                /\ x = << a, g >>
                /\ \E b \in matched : b < a /\ GroupOf(test, b) = GroupOf(test, a) /\ Says(b, g)
      BY DEF Deduped, matched
    <2> HIDE DEF dropped
    <2>4. \A x : x \in Told(i, h) <=>
             \E j \in Rivals(i, h) : x = << j, h >> /\ \E b \in Rivals(i, h) : b < j
      BY <2>3
    <2> HIDE DEF Told, Rivals
    <2> QED BY <2>1, <2>2, <2>4, OthersAreDropped
  <1> QED
    BY <1>5, <1>6, <1>7 DEF StrongestKept, matched, buckets

(* The tests of the selected graphs are those of loaded graphs, in a list. *)
LEMMA TestsAreLoaded ==
    ASSUME NEW codes
    PROVE  LET gs == GraphsForDtcs(codes)
               tests == TestsOf(gs)
           IN  /\ IsList(tests)
               /\ ToSet(tests) = UNION {ToSet(gs[i].tests) : i \in DOMAIN gs}
  <1> DEFINE gs == GraphsForDtcs(codes)
             lists == [i \in DOMAIN gs |-> gs[i].tests]
             T == UNION {Range(gs[i].tests) : i \in DOMAIN gs}
  <1>1. PICK n \in Nat : DOMAIN gs = 1 .. n
    BY SelectedAreGraphs, LenProperties DEF IsList
  <1>2. \A i \in DOMAIN gs : gs[i].tests \in Seq(T)
    <2> SUFFICES ASSUME NEW i \in DOMAIN gs PROVE gs[i].tests \in Seq(T)
      OBVIOUS
    <2>1. PICK k \in DOMAIN Graphs : gs[i] = Graphs[k]
      BY SelectedAreGraphs
    <2>2. gs[i].tests \in Seq(Range(gs[i].tests))
      BY <2>1, GraphsAssumption DEF WellFormed
    <2>3. Range(gs[i].tests) \subseteq T
      OBVIOUS
    <2> HIDE DEF T, gs
    <2> QED BY <2>2, <2>3, SeqMonotonic
  <1>3. lists \in Seq(Seq(T)) /\ DOMAIN lists = DOMAIN gs
    <2>1. lists \in [1 .. n -> Seq(T)] /\ DOMAIN lists = DOMAIN gs
      BY <1>1, <1>2
    <2> HIDE DEF lists, T, gs
    <2> QED BY <2>1, SeqDef
  <1>4. TestsOf(gs) = FlattenSeq(lists)
    BY DEF TestsOf
  <1>5. \A i \in DOMAIN gs : lists[i] = gs[i].tests
    OBVIOUS
  <1> HIDE DEF T, gs, lists
  <1>6. /\ TestsOf(gs) \in Seq(T)
        /\ Range(TestsOf(gs)) = UNION {Range(lists[i]) : i \in DOMAIN gs}
    BY <1>3, <1>4, Flattened
  <1>7. UNION {Range(lists[i]) : i \in DOMAIN gs} = UNION {ToSet(gs[i].tests) : i \in DOMAIN gs}
    BY <1>5 DEF Range, ToSet
  <1>8. IsList(TestsOf(gs))
    <2> PICK t : t = TestsOf(gs)
      OBVIOUS
    <2>1. t \in [1 .. Len(t) -> T] /\ Len(t) \in Nat
      BY <1>6, LenProperties
    <2>2. t \in [1 .. Len(t) -> Range(t)]
      BY <2>1 DEF Range
    <2> QED BY <2>1, <2>2, SeqDef DEF IsList
  <1>9. Range(TestsOf(gs)) = ToSet(TestsOf(gs))
    BY DEF Range, ToSet
  <1> QED
    BY <1>6, <1>7, <1>8, <1>9 DEF gs

(* StrongestRuleCounts: whatever rules a test has, in whatever groups, and *)
(* whatever was measured, the strongest matching multiplier of a group     *)
(* counts once for each hypothesis and the others are reported.            *)
THEOREM StrongestCounts == DiagnosisSpec => []StrongestRuleCounts
  <1>1. StrongestRuleCounts
    <2> SUFFICES ASSUME NEW test \in ToSet(TestsOf(MatchedGraphs))
                 PROVE  StrongestKept(test, observations[test.id].fields)
      BY DEF StrongestRuleCounts
    <2>1. PICK i \in DOMAIN MatchedGraphs : test \in ToSet(MatchedGraphs[i].tests)
      BY TestsAreLoaded DEF MatchedGraphs
    <2>2. PICK k \in DOMAIN Graphs : MatchedGraphs[i] = Graphs[k]
      BY SelectedAreGraphs DEF MatchedGraphs
    <2>3. HasRules(test)
      BY <2>1, <2>2, GraphsAssumption DEF WellFormed, HasRules
    <2> QED BY <2>3, StrongestIsKept
  <1> QED
    BY <1>1, PTL

-----------------------------------------------------------------------------
(* A non-empty set of the first numbers has a greatest element.            *)
LEMMA GreatestOf ==
    ASSUME NEW n \in Nat, NEW S, S \subseteq 1 .. n, S # {}
    PROVE  Max(S) \in S
  <1> DEFINE T == {n - x : x \in S}
  <1>1. T \subseteq Nat /\ T # {}
    <2>1. \A x \in S : n - x \in Nat
      OBVIOUS
    <2> QED BY <2>1
  <1>2. PICK t \in T : \A u \in T : t <= u
    <2> HIDE DEF T
    <2> QED BY <1>1, LeastOf
  <1>3. PICK x \in S : t = n - x
    OBVIOUS
  <1>4. \A y \in S : n - x <= n - y
    BY <1>2, <1>3
  <1>5. \A y \in S : x >= y
    BY <1>4
  <1> QED
    BY <1>5 DEF Max

(* A signal somebody asks for has a recipe: one of the graph that asks for *)
(* it first.                                                               *)
LEMMA AskedHasRecipe ==
    ASSUME NEW codes, NEW name \in SignalsOf(GraphsForDtcs(codes)), NEW recorded
    PROVE  LET recipe == Measurement(GraphsForDtcs(codes), name, recorded).recipe
           IN  \E k \in DOMAIN Graphs : recipe \in ToSet(Graphs[k].signals) /\ recipe.signal = name
  <1> PICK gs : gs = GraphsForDtcs(codes)
    OBVIOUS
  <1> DEFINE Asking == {at \in Places(gs) : name \in Asks(gs, at)}
             Firsts == {at[1] : at \in Asking}
  <1>1. PICK n \in Nat : DOMAIN gs = 1 .. n
    BY SelectedAreGraphs, LenProperties DEF IsList
  <1>2. \A i \in DOMAIN gs : \E k \in DOMAIN Graphs : gs[i] = Graphs[k]
    BY SelectedAreGraphs
  <1>3. \A i \in DOMAIN gs : \E m \in Nat : DOMAIN gs[i].tests = 1 .. m
    <2> SUFFICES ASSUME NEW i \in DOMAIN gs PROVE \E m \in Nat : DOMAIN gs[i].tests = 1 .. m
      OBVIOUS
    <2>1. gs[i].tests \in Seq(Range(gs[i].tests))
      BY <1>2, GraphsAssumption DEF WellFormed
    <2> QED BY <2>1, LenProperties
  <1>4. \A at \in Places(gs) : at[1] \in DOMAIN gs /\ at[2] \in DOMAIN gs[at[1]].tests
                               /\ at = << at[1], at[2] >>
    BY DEF Places
  <1>5. \A at \in Asking : at[1] \in Nat /\ at[2] \in Nat
    BY <1>1, <1>3, <1>4
  <1>6. Asking # {}
    BY DEF SignalsOf
  <1> HIDE DEF Asking
  <1>7. PICK i \in Firsts : \A j \in Firsts : i <= j
    <2>1. Firsts \subseteq Nat /\ Firsts # {}
      BY <1>5, <1>6
    <2> HIDE DEF Firsts
    <2> QED BY <2>1, LeastOf
  <1> DEFINE Seconds == {at[2] : at \in {at \in Asking : at[1] = i}}
  <1>8. PICK j \in Seconds : \A l \in Seconds : j <= l
    <2>1. Seconds \subseteq Nat /\ Seconds # {}
      BY <1>5, <1>7
    <2> HIDE DEF Seconds
    <2> QED BY <2>1, LeastOf
  <1>9. PICK at \in Asking : at[1] = i /\ at[2] = j
    BY <1>8
  <1>10. \A other \in Asking : at[1] < other[1] \/ (at[1] = other[1] /\ at[2] <= other[2])
    <2> SUFFICES ASSUME NEW other \in Asking
                 PROVE  at[1] < other[1] \/ (at[1] = other[1] /\ at[2] <= other[2])
      OBVIOUS
    <2>1. at[1] <= other[1]
      BY <1>7, <1>9
    <2>2. at[1] = other[1] => at[2] <= other[2]
      BY <1>8, <1>9
    <2> QED BY <1>5, <2>1, <2>2
  <1>11. FirstToAsk(gs, name) \in Asking
    BY <1>10 DEF FirstToAsk, Asking
  <1> DEFINE first == FirstToAsk(gs, name)
             g == gs[first[1]]
             declared == {d \in DOMAIN g.signals : g.signals[d].signal = name}
             recipe == Measurement(gs, name, recorded).recipe
  <1>12. first \in Places(gs) /\ name \in Asks(gs, first)
    BY <1>11 DEF Asking
  <1>13. PICK k \in DOMAIN Graphs : g = Graphs[k]
    BY <1>2, <1>4, <1>12
  <1>14. recipe = g.signals[Max(declared)]
    BY DEF Measurement
  <1>15. declared # {}
    <2>1. name \in {s.signal : s \in ToSet(g.signals)}
      BY <1>12 DEF Asks
    <2> QED BY <2>1 DEF ToSet
  <1>16. PICK m \in Nat : DOMAIN g.signals = 1 .. m
    BY <1>13, GraphsAssumption, LenProperties DEF WellFormed
  <1>17. Max(declared) \in declared
    <2>1. declared \subseteq 1 .. m
      BY <1>16
    <2> PICK S : S = declared
      OBVIOUS
    <2> HIDE DEF declared
    <2>2. Max(S) \in S
      BY <1>15, <2>1, GreatestOf
    <2> QED BY <2>2
  <1>18. recipe \in ToSet(g.signals) /\ recipe.signal = name
    <2>1. PICK d : d = Max(declared)
      OBVIOUS
    <2>2. d \in DOMAIN g.signals /\ g.signals[d].signal = name
      BY <1>17, <2>1
    <2> HIDE DEF declared
    <2>3. recipe = g.signals[d]
      BY <1>14, <2>1
    <2> HIDE DEF recipe, g
    <2> QED BY <2>2, <2>3 DEF ToSet
  <1> QED
    BY <1>13, <1>18

(* GatedCanBeConfirmed: for every set of graphs that passes the capability *)
(* check, a part that is withheld can be confirmed by a test of its graph, *)
(* a live one by signals the client is told how to acquire.                *)
THEOREM WithheldCanBeConfirmed ==
    GraphsAreChecked /\ EvidenceCanBePosted => (DiagnosisSpec => []GatedCanBeConfirmed)
  <1> SUFFICES ASSUME GraphsAreChecked, EvidenceCanBePosted
               PROVE  DiagnosisSpec => []GatedCanBeConfirmed
    OBVIOUS
  <1>1. GatedCanBeConfirmed
    <2> SUFFICES ASSUME Answerable, NEW r \in Basket.gated
                 PROVE  \E test \in ToSet(Primary.tests) :
                           /\ \E obs \in Readings[test.id] :
                                 r.requires \cap EvidenceSatisfied(Recorded(test.id, obs)) # {}
                           /\ Live(test) => \A name \in test.signals : \E a \in SignalsAsked :
                                 a.recipe.signal = name /\ SignalAcquirable(a.recipe.service, a.recipe.pids)
      BY DEF GatedCanBeConfirmed
    <2>1. PICK k \in DOMAIN Graphs : Primary = Graphs[k]
      BY PrimaryIsLoaded
    <2>2. WellFormed(Graphs[k]) /\ CheckGraph(Graphs[k]) = {}
      BY GraphsAssumption DEF GraphsAreChecked
    <2>3. r \in ToSet(Graphs[k].repairs) /\ r.class = "replacement"
      <3>1. Basket # EmptyBasket
        BY DEF EmptyBasket
      <3>2. r \in ToSet(Graphs[k].repairs) /\ r.class # "diagnostic"
        BY <2>1, <3>1 DEF Basket, RepairBasket, Reached
      <3> QED BY <2>2, <3>2 DEF WellFormed
    <2>4. PICK q \in r.requires, test \in ToSet(Graphs[k].tests) :
              /\ q[1] = test.id
              /\ Live(test) => \A name \in test.signals : \E s \in ToSet(Graphs[k].signals) :
                    s.signal = name /\ SignalAcquirable(s.service, s.pids)
      <3>1. CanBeConfirmed(Graphs[k], r)
        BY <2>2, <2>3, CheckedPartsCanBeConfirmed
      <3> QED BY <3>1 DEF CanBeConfirmed
    <2>5. \E obs \in Readings[test.id] : r.requires \cap EvidenceSatisfied(Recorded(test.id, obs)) # {}
      <3>1. PICK obs \in Readings[test.id] : q \in EvidenceSatisfied([t \in {test.id} |-> obs])
        BY <2>3, <2>4 DEF EvidenceCanBePosted
      <3>2. /\ DOMAIN Recorded(test.id, obs) = DOMAIN observations \cup {test.id}
            /\ Recorded(test.id, obs)[test.id] = obs
        BY DEF Recorded
      <3>3. q \in EvidenceSatisfied(Recorded(test.id, obs))
        BY <3>1, <3>2 DEF EvidenceSatisfied
      <3> QED BY <3>3
    <2>6. ASSUME Live(test), NEW name \in test.signals
          PROVE  \E a \in SignalsAsked :
                    a.recipe.signal = name /\ SignalAcquirable(a.recipe.service, a.recipe.pids)
      <3>1. PICK s \in ToSet(Graphs[k].signals) : s.signal = name /\ SignalAcquirable(s.service, s.pids)
        BY <2>4, <2>6
      <3>2. name \in SignalsOf(MatchedGraphs)
        <4>1. PICK j \in DOMAIN Graphs[k].tests : test = Graphs[k].tests[j]
          BY <2>4 DEF ToSet
        <4> DEFINE at == << 1, j >>
        <4>2. at \in Places(MatchedGraphs) /\ TestAt(MatchedGraphs, at) = test
          BY <2>1, <4>1, PrimaryIsLoaded DEF Places, TestAt
        <4>3. name \in Asks(MatchedGraphs, at)
          BY <2>1, <2>6, <3>1, <4>2, PrimaryIsLoaded DEF Asks
        <4> QED BY <4>2, <4>3 DEF SignalsOf
      <3> DEFINE a == Measurement(MatchedGraphs, name, DOMAIN observations)
      <3>3. a \in SignalsAsked
        BY <3>2 DEF SignalsAsked, RequiredSignals
      <3>4. PICK j \in DOMAIN Graphs : a.recipe \in ToSet(Graphs[j].signals) /\ a.recipe.signal = name
        BY <3>2, AskedHasRecipe DEF MatchedGraphs
      <3> HIDE DEF a
      <3>5. s.status = "supported"
        BY <2>2, <3>1, CheckedSignals
      <3>6. a.recipe.status = "supported"
        BY <3>1, <3>4, <3>5 DEF GraphsAreChecked
      <3>7. SignalAcquirable(a.recipe.service, a.recipe.pids)
        BY <3>4, <3>6, CheckedSignals DEF GraphsAreChecked
      <3> QED BY <3>3, <3>4, <3>7
    <2> QED BY <2>1, <2>4, <2>5, <2>6
  <1> QED
    BY <1>1, PTL
-----------------------------------------------------------------------------
(* Which graphs a set of codes selects, and in which order.                *)
Matches(codes) == {k \in DOMAIN Graphs : Matching(k, codes) > 0}

BetterMatch(j, k, codes) ==
    \/ Matching(j, codes) > Matching(k, codes)
    \/ Matching(j, codes) = Matching(k, codes) /\ j < k

(* Whatever codes are posted, every loaded graph that has one of them is   *)
(* selected, once, and no other: those that match more codes first, and    *)
(* of equals the one that is first by family. So the primary graph, whose  *)
(* parts are sold, is a best match (engine.py graphs_for_dtcs).            *)
THEOREM EveryMatchIsSelected ==
    ASSUME NEW codes
    PROVE  \E order \in Bijection(1 .. Cardinality(Matches(codes)), Matches(codes)) :
              /\ GraphsForDtcs(codes) = GraphsIn(order)
              /\ \A i, j \in DOMAIN order : i < j => BetterMatch(order[i], order[j], codes)
  <1> DEFINE S == Matches(codes)
             R == {pair \in S \X S : BetterMatch(pair[1], pair[2], codes)}
             order == InOrder(S, LAMBDA j, k : BetterMatch(j, k, codes))
  <1>1. DOMAIN Graphs = 1 .. Len(Graphs) /\ Len(Graphs) \in Nat
    BY GraphsAssumption, LenProperties
  <1>2. \A k \in S : k \in Nat /\ Matching(k, codes) \in Nat
    <2>1. \A k \in DOMAIN Graphs : k \in Nat /\ IsFiniteSet(Graphs[k].dtcs)
      BY <1>1, GraphsAssumption DEF WellFormed
    <2> QED BY <2>1, FS_Intersection, FS_CardinalityType DEF Matching, Matches
  <1>3. IsFiniteSet(S)
    BY <1>1, SomeOfFirst DEF Matches
  <1>4. LinedUp(order, S, R)
    <2>1. \A x \in S : << x, x >> \notin R
      BY <1>2 DEF BetterMatch
    <2>2. \A x, y \in S : x # y => << x, y >> \in R \/ << y, x >> \in R
      BY <1>2 DEF BetterMatch
    <2>3. \A x, y, z \in S : << x, y >> \in R /\ << y, z >> \in R => << x, z >> \in R
      BY <1>2 DEF BetterMatch
    <2>4. \A x \in S : {y \in S : << y, x >> \in R} = {y \in S : BetterMatch(y, x, codes)}
      OBVIOUS
    <2> HIDE DEF R, S
    <2>5. \A n \in 1 .. Cardinality(S) : \E x \in S : Cardinality({y \in S : << y, x >> \in R}) = n - 1
      BY <1>3, <2>1, <2>2, <2>3, Ranking, Zenon
    <2>6. ASSUME NEW n \in 1 .. Cardinality(S)
          PROVE  order[n] \in S /\ Cardinality({y \in S : << y, order[n] >> \in R}) = n - 1
      <3>1. order[n] = CHOOSE x \in S : Cardinality({y \in S : BetterMatch(y, x, codes)}) = n - 1
        BY DEF InOrder
      <3>2. \E x \in S : Cardinality({y \in S : BetterMatch(y, x, codes)}) = n - 1
        BY <2>4, <2>5
      <3> HIDE DEF order
      <3>3. order[n] \in S /\ Cardinality({y \in S : BetterMatch(y, order[n], codes)}) = n - 1
        BY <3>1, <3>2, Zenon
      <3> QED BY <2>4, <3>3
    <2>7. order \in [1 .. Cardinality(S) -> S]
      <3> DEFINE At(n) == CHOOSE x \in S : Cardinality({y \in S : BetterMatch(y, x, codes)}) = n - 1
      <3>1. order = [n \in 1 .. Cardinality(S) |-> At(n)]
        BY DEF InOrder
      <3> HIDE DEF order, At
      <3> QED BY <2>6, <3>1
    <2> HIDE DEF order
    <2> QED BY <1>3, <2>1, <2>2, <2>3, <2>6, <2>7, RankedList, Zenon
  <1>5. GraphsForDtcs(codes) = GraphsIn(order)
    BY DEF GraphsForDtcs, Matches, BetterMatch
  <1> HIDE DEF order, R, S
  <1>6. order \in Bijection(1 .. Cardinality(S), S) /\ DOMAIN order = 1 .. Cardinality(S)
    BY <1>4 DEF LinedUp, Bijection, Injection
  <1>7. \A i, j \in DOMAIN order : i < j => BetterMatch(order[i], order[j], codes)
    BY <1>4, <1>6 DEF LinedUp, R
  <1> QED
    BY <1>5, <1>6, <1>7 DEF S

(* The hypotheses of a graph are told apart by their place in the file.    *)
LEMMA PlacesDiffer ==
    ASSUME NEW g, WellFormed(g)
    PROVE  /\ IsFiniteSet(IdsOf(g.hyps))
           /\ \A h \in IdsOf(g.hyps) : Position(g, h) \in DOMAIN g.hyps /\ g.hyps[Position(g, h)].id = h
           /\ DOMAIN g.hyps \subseteq Nat
  <1> DEFINE hyps == g.hyps
  <1>1. hyps \in Seq(Range(hyps))
    BY DEF WellFormed
  <1>2. DOMAIN hyps = 1 .. Len(hyps) /\ Len(hyps) \in Nat
    BY <1>1, LenProperties
  <1>3. IsFiniteSet(IdsOf(hyps))
    <2> DEFINE name == [i \in DOMAIN hyps |-> hyps[i].id]
    <2>1. name \in Surjection(DOMAIN hyps, IdsOf(hyps))
      BY DEF Surjection, IdsOf
    <2>2. IsFiniteSet(DOMAIN hyps)
      BY <1>2, SomeOfFirst
    <2> HIDE DEF name, hyps
    <2> QED BY <2>1, <2>2, FS_Surjection
  <1>4. ASSUME NEW h \in IdsOf(hyps)
        PROVE  Position(g, h) \in DOMAIN hyps /\ hyps[Position(g, h)].id = h
    <2> DEFINE I == {i \in 1 .. Len(hyps) : hyps[i].id = h}
    <2>1. I # {} /\ I \subseteq Nat
      BY <1>2 DEF IdsOf
    <2>2. Position(g, h) = Min(I)
      BY <2>1 DEF Position, SelectInSeq
    <2>3. Min(I) \in I
      <3>1. \E x \in I : \A y \in I : x <= y
        BY <2>1, LeastOf
      <3> HIDE DEF I
      <3> QED BY <3>1 DEF Min
    <2> QED BY <1>2, <2>2, <2>3
  <1> QED
    BY <1>2, <1>3, <1>4

(* Whatever the weights are, a ranking has every hypothesis once, heavier  *)
(* ones first, equals in the order of the file: the first of a ranking,    *)
(* for which alone parts are sold, is outweighed by none (engine.py score, *)
(* ranked).                                                                *)
THEOREM HeaviestIsFirst ==
    ASSUME NEW g, WellFormed(g), NEW w \in [IdsOf(g.hyps) -> Int]
    PROVE  /\ Ranked(g, w) \in Bijection(1 .. Cardinality(IdsOf(g.hyps)), IdsOf(g.hyps))
           /\ \A i, j \in DOMAIN Ranked(g, w) : i < j =>
                 LET a == Ranked(g, w)[i]
                     b == Ranked(g, w)[j]
                 IN  w[a] > w[b] \/ (w[a] = w[b] /\ Position(g, a) < Position(g, b))
           /\ \A h \in IdsOf(g.hyps) : w[Ranked(g, w)[1]] >= w[h]
  <1> DEFINE S == IdsOf(g.hyps)
             Before(a, b) == w[a] > w[b] \/ (w[a] = w[b] /\ Position(g, a) < Position(g, b))
             R == {pair \in S \X S : Before(pair[1], pair[2])}
             order == Ranked(g, w)
  <1>1. DOMAIN w = S /\ \A h \in S : w[h] \in Int
    OBVIOUS
  <1>2. IsFiniteSet(S) /\ \A h \in S : Position(g, h) \in Nat
    BY PlacesDiffer
  <1>3. ASSUME NEW a \in S, NEW b \in S, Position(g, a) = Position(g, b) PROVE a = b
    BY <1>3, PlacesDiffer
  <1>4. LinedUp(order, S, R)
    <2>1. \A x \in S : << x, x >> \notin R
      BY <1>1, <1>2
    <2>2. \A x, y \in S : x # y => << x, y >> \in R \/ << y, x >> \in R
      BY <1>1, <1>2, <1>3
    <2>3. \A x, y, z \in S : << x, y >> \in R /\ << y, z >> \in R => << x, z >> \in R
      BY <1>1, <1>2
    <2>4. \A x \in S : {y \in S : << y, x >> \in R} = {y \in S : Before(y, x)}
      OBVIOUS
    <2>5. order = [n \in 1 .. Cardinality(S) |->
                      CHOOSE x \in S : Cardinality({y \in S : Before(y, x)}) = n - 1]
      BY <1>1 DEF Ranked, InOrder
    <2> HIDE DEF R, S, order, Before
    <2>6. \A n \in 1 .. Cardinality(S) : \E x \in S : Cardinality({y \in S : << y, x >> \in R}) = n - 1
      BY <1>2, <2>1, <2>2, <2>3, Ranking, Zenon
    <2>7. ASSUME NEW n \in 1 .. Cardinality(S)
          PROVE  order[n] \in S /\ Cardinality({y \in S : << y, order[n] >> \in R}) = n - 1
      <3>1. order[n] = CHOOSE x \in S : Cardinality({y \in S : Before(y, x)}) = n - 1
        BY <2>5
      <3>2. \E x \in S : Cardinality({y \in S : Before(y, x)}) = n - 1
        BY <2>4, <2>6
      <3>3. order[n] \in S /\ Cardinality({y \in S : Before(y, order[n])}) = n - 1
        BY <3>1, <3>2, Zenon
      <3> QED BY <2>4, <3>3
    <2>8. order \in [1 .. Cardinality(S) -> S]
      <3> DEFINE At(n) == CHOOSE x \in S : Cardinality({y \in S : Before(y, x)}) = n - 1
      <3>1. order = [n \in 1 .. Cardinality(S) |-> At(n)]
        BY <2>5
      <3> HIDE DEF At
      <3> QED BY <2>7, <3>1
    <2> QED BY <1>2, <2>1, <2>2, <2>3, <2>7, <2>8, RankedList, Zenon
  <1> HIDE DEF order, R, S, Before
  <1>5. order \in Bijection(1 .. Cardinality(S), S) /\ DOMAIN order = 1 .. Cardinality(S)
    BY <1>4 DEF LinedUp, Bijection, Injection
  <1>6. \A i, j \in DOMAIN order : i < j => Before(order[i], order[j])
    BY <1>4, <1>5 DEF LinedUp, R
  <1>7. ASSUME NEW h \in S PROVE w[order[1]] >= w[h]
    <2>1. PICK n \in 1 .. Cardinality(S) : order[n] = h
      BY <1>5 DEF Bijection, Surjection
    <2>2. Cardinality(S) \in Nat
      BY <1>2, FS_CardinalityType
    <2>3. 1 \in DOMAIN order /\ order[1] \in S
      BY <1>5, <2>1, <2>2 DEF Bijection, Injection
    <2>4. n = 1 \/ Before(order[1], h)
      BY <1>5, <1>6, <2>1, <2>2, <2>3
    <2> QED BY <1>1, <2>1, <2>3, <2>4 DEF Before
  <1> QED
    BY <1>5, <1>6, <1>7 DEF S, Before, order
=============================================================================
