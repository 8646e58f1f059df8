------------------------------- MODULE Engine -------------------------------
(***************************************************************************)
(* The diagnostic engine (backend/app/engine.py): which graphs a set of    *)
(* trouble codes selects, how recorded tests weigh their hypotheses, what  *)
(* is asked next, and what may be sold. Pure functions of a session's      *)
(* state.                                                                  *)
(*                                                                         *)
(* Priors and multipliers are the graphs' decimals in hundredths. Weights  *)
(* are kept up to a common factor, which is all a score w / total depends  *)
(* on: natural numbers without a common divisor. The order in which the    *)
(* code multiplies them does not matter for exact numbers.                 *)
(*                                                                         *)
(* An observation is [fields: name -> value, outcome]; observations is a   *)
(* function from the recorded tests to theirs. An evidence id of the code, *)
(* "test" or "test:outcome", is the tuple <<test>> or <<test, outcome>>.   *)
(***************************************************************************)
EXTENDS Rules, FiniteSets, SequencesExt

CONSTANT Graphs   \* the loaded graphs, in the order of their families' names

NoOutcome == "None"     \* an observation without a categorical outcome
Unrelated == ""         \* a rule without an evidence_group

IdsOf(seq) == {seq[i].id : i \in DOMAIN seq}

(* What the JSON schema of the graphs demands, as far as it matters here,  *)
(* and ids that are unique in their list.                                  *)
WellFormed(g) ==
    /\ g.hyps # << >> /\ \A i \in DOMAIN g.hyps : g.hyps[i].prior \in 1 .. 100
    /\ Cardinality(IdsOf(g.hyps)) = Len(g.hyps)
    /\ Cardinality(IdsOf(g.tests)) = Len(g.tests)
    /\ IsFiniteSet(g.dtcs)
    /\ \A list \in {g.hyps, g.tests, g.repairs, g.signals} : list \in Seq(Range(list))
    /\ \A t \in ToSet(g.tests) :
          /\ {"id", "kind"} \subseteq DOMAIN t
          /\ t.rules \in Seq(Range(t.rules))
          /\ \A i \in DOMAIN t.rules : \A h \in DOMAIN t.rules[i].updates :
                t.rules[i].updates[h] \in Nat \ {0}
    /\ \A r \in ToSet(g.repairs) : r.class \in {"diagnostic", "replacement"}
    /\ \A s \in ToSet(g.signals) : s.status \in {"supported", "planned"}

ASSUME GraphsAssumption ==
    Graphs \in Seq(Range(Graphs)) /\ \A k \in DOMAIN Graphs : WellFormed(Graphs[k])

(* The elements of a finite set in a strict order (SetToSortSeq looks      *)
(* through all arrangements).                                              *)
InOrder(S, Before(_, _)) ==
    [n \in 1 .. Cardinality(S) |->
        CHOOSE x \in S : Cardinality({y \in S : Before(y, x)}) = n - 1]

-----------------------------------------------------------------------------
(* Selecting graphs: most codes matched first, then by family.             *)
Matching(k, codes) == Cardinality(codes \cap Graphs[k].dtcs)

GraphsIn(order) == [i \in DOMAIN order |-> Graphs[order[i]]]

GraphsForDtcs(codes) ==
    LET matched == {k \in DOMAIN Graphs : Matching(k, codes) > 0}
        before(j, k) == \/ Matching(j, codes) > Matching(k, codes)
                        \/ Matching(j, codes) = Matching(k, codes) /\ j < k
    IN  GraphsIn(InOrder(matched, before))

TestOf(g, id) == g.tests[SelectInSeq(g.tests, LAMBDA t : t.id = id)]

-----------------------------------------------------------------------------
(* What was recorded, as evidence.                                         *)
Answered(fields) == "answer" \in DOMAIN fields /\ Same(fields["answer"], Truth(TRUE))

Categorical(obs) == obs.outcome \notin {NoOutcome, ""}

EvidenceSatisfied(observations) ==
    {<< t >> : t \in DOMAIN observations}
    \cup {<< t, observations[t].outcome >> :
            t \in {u \in DOMAIN observations : Categorical(observations[u])}}
    \cup {<< t, "yes" >> :
            t \in {u \in DOMAIN observations : /\ ~Categorical(observations[u])
                                               /\ Answered(observations[u].fields)}}

-----------------------------------------------------------------------------
(* Weights.                                                                *)
Gcd[a \in Nat, b \in Nat] == IF b = 0 THEN a ELSE Gcd[b, a % b]

Lowest(w) == LET d == FoldFunction(LAMBDA x, y : Gcd[x, y], 0, w)
             IN  [h \in DOMAIN w |-> w[h] \div d]

(* weights[hid] = weights.get(hid, 0.0) * m for every update.              *)
Reweigh(w, updates) ==
    Lowest([h \in DOMAIN w \cup DOMAIN updates |->
              IF h \notin DOMAIN w THEN 0
              ELSE w[h] * (IF h \in DOMAIN updates THEN updates[h] ELSE 100)])

Priors(g) == [h \in IdsOf(g.hyps) |->
                g.hyps[SelectInSeq(g.hyps, LAMBDA x : x.id = h)].prior]

(* |log m|, up to a monotone function.                                     *)
Strength(m) == IF m >= 100 THEN << m, 100 >> ELSE << 100, m >>

KeepLast(bucket, updates) ==
    [h \in DOMAIN bucket \cup DOMAIN updates |->
        IF h \in DOMAIN updates THEN updates[h] ELSE bucket[h]]

(* One matched rule joins the bucket of its evidence group: per hypothesis *)
(* the strongest multiplier stays, the first of equals.                    *)
Keep(bucket, updates) ==
    [h \in DOMAIN bucket \cup DOMAIN updates |->
        IF h \notin DOMAIN updates THEN bucket[h]
        ELSE IF h \notin DOMAIN bucket THEN updates[h]
        ELSE IF Less(Strength(bucket[h]), Strength(updates[h])) THEN updates[h]
        ELSE bucket[h]]

GroupOf(test, i) ==
    IF test.rules[i].group = Unrelated THEN << "rule", i >> ELSE << test.rules[i].group, 0 >>

Matched(test, fields) == {i \in DOMAIN test.rules : EvalRule(test.rules[i].when, fields)}

(* Rule i joins the bucket of its group, which the first of them opens.    *)
JoinGroup(test, groups, i) ==
    LET key    == GroupOf(test, i)
        bucket == IF key \in DOMAIN groups THEN groups[key] ELSE << >>
    IN  [k \in DOMAIN groups \cup {key} |->
            IF k = key THEN Keep(bucket, test.rules[i].updates) ELSE groups[k]]

(* The buckets of one measurement, and what was dropped on the way.        *)
Buckets(test, fields) ==
    LET matched == Matched(test, fields)
        after[n \in 0 .. Len(test.rules)] ==
            IF n = 0 THEN << >>
            ELSE IF n \in matched THEN JoinGroup(test, after[n - 1], n)
            ELSE after[n - 1]
    IN  after[Len(test.rules)]

(* <<rule, hypothesis>> pairs with an earlier matched rule in their group: *)
(* each drops one multiplier, its own or the one kept so far.              *)
Deduped(test, fields) ==
    LET matched == Matched(test, fields)
        Rivals(j, i) == j < i /\ GroupOf(test, j) = GroupOf(test, i)
        Updated(i) == DOMAIN test.rules[i].updates
    IN  UNION {{<< i, h >> : h \in Updated(i) \cap
                                 UNION {Updated(j) : j \in {j \in matched : Rivals(j, i)}}} :
                 i \in matched}

(* A guided test: the recorded outcome's updates, or the legacy yes.       *)
GuidedUpdates(test, obs) ==
    LET listed == Categorical(obs) /\ obs.outcome \in DOMAIN test.outcomes
        legacy == /\ obs.outcome \in {NoOutcome, "yes"}
                  /\ Answered(obs.fields) /\ test.ifYes # << >>
    IN  CASE listed              -> [updates |-> test.outcomes[obs.outcome], resolved |-> obs.outcome]
          [] ~listed /\ legacy   -> [updates |-> test.ifYes, resolved |-> "yes"]
          [] ~listed /\ ~legacy  -> [updates |-> << >>, resolved |-> obs.outcome]

Live(test) == test.kind = "obd_live"
Guided(test) == test.kind \in {"guided_visual", "guided_manual"}

ApplyTest(w, test, obs) ==
    IF Live(test)
    THEN FoldFunction(LAMBDA bucket, v : Reweigh(v, bucket), w, Buckets(test, obs.fields))
    ELSE IF Guided(test) THEN Reweigh(w, GuidedUpdates(test, obs).updates)
    ELSE w

InContextBoosts(g, codes, w) ==
    SelectSeq(g.boosts, LAMBDA e : e.dtc \in codes /\ e.hypothesis \in DOMAIN w)

(* Companion codes, about hypotheses that have a weight.                   *)
InContext(g, codes, w) ==
    SelectSeq(g.boosts \o g.reduces,
              LAMBDA e : e.dtc \in codes /\ e.hypothesis \in DOMAIN w)

Weights(g, observations, codes) ==
    LET recorded == SelectSeq(g.tests, LAMBDA t : t.id \in DOMAIN observations)
        tested   == FoldLeft(LAMBDA w, t : ApplyTest(w, t, observations[t.id]),
                             Lowest(Priors(g)), recorded)
    IN  FoldLeft(LAMBDA w, e : Reweigh(w, [h \in {e.hypothesis} |-> e.multiplier]),
                 tested, InContext(g, codes, tested))

-----------------------------------------------------------------------------
(* Scores.                                                                 *)
Sum(w) == FoldFunction(LAMBDA x, y : x + y, 0, w)

(* w / total against the thresholds 0.75 and 0.45.                         *)
ConfidenceBand(w, total) ==
    IF 4 * w > 3 * total THEN "strong"
    ELSE IF 20 * w >= 9 * total THEN "moderate"
    ELSE "insufficient"

Position(g, h) == SelectInSeq(g.hyps, LAMBDA x : x.id = h)

RankedLowestFirst(g, w) ==
    InOrder(DOMAIN w, LAMBDA a, b : \/ w[a] < w[b]
                                    \/ w[a] = w[b] /\ Position(g, a) < Position(g, b))

(* Highest score first; sorted() is stable, so equals stay in file order.  *)
Ranked(g, w) ==
    InOrder(DOMAIN w, LAMBDA a, b : \/ w[a] > w[b]
                                    \/ w[a] = w[b] /\ Position(g, a) < Position(g, b))

Stops(g, flags) == flags \cap g.stopIf # {}

StoppedScore(g) ==
    [family |-> g.family, stopped |-> TRUE, ranked |-> << >>, score |-> Zero,
     confidence |-> "insufficient", applied |-> << >>, outcomes |-> << >>]

Guidance(g, observations) ==
    LET guided == {t \in IdsOf(g.tests) \cap DOMAIN observations : Guided(TestOf(g, t))}
    IN  [t \in guided |-> GuidedUpdates(TestOf(g, t), observations[t]).resolved]

Verdict(g, observations, codes, w, total, ranked) ==
    [family |-> g.family, stopped |-> FALSE, ranked |-> ranked,
     score |-> << w[ranked[1]], total >>, confidence |-> ConfidenceBand(w[ranked[1]], total),
     applied |-> InContext(g, codes, w), outcomes |-> Guidance(g, observations)]

Weighed(g, observations, codes, w) == Verdict(g, observations, codes, w, Sum(w), Ranked(g, w))

Score(g, observations, flags, codes) ==
    IF Stops(g, flags) THEN StoppedScore(g)
    ELSE Weighed(g, observations, codes, Weights(g, observations, codes))

(* a[1]/a[2] < b[1]/b[2] by continued fractions: the products would leave  *)
(* TLC's integers.                                                         *)
Lower[a \in Nat \X Nat, b \in Nat \X Nat] ==
    LET qa == a[1] \div a[2]
        qb == b[1] \div b[2]
        ra == a[1] % a[2]
        rb == b[1] % b[2]
    IN  IF qa # qb THEN qa < qb
        ELSE IF rb = 0 THEN FALSE
        ELSE IF ra = 0 THEN TRUE
        ELSE Lower[<< b[2], rb >>, << a[2], ra >>]

FamilyAt(family) == SelectInSeq(Graphs, LAMBDA g : g.family = family)

ByScore(scored) ==
    InOrder(scored,
        LAMBDA s, t : \/ Lower[t.score, s.score]
                      \/ ~Lower[s.score, t.score] /\ FamilyAt(s.family) < FamilyAt(t.family))

ScoreAll(gs, observations, flags, codes) ==
    ByScore({Score(gs[i], observations, flags, codes) : i \in DOMAIN gs})

-----------------------------------------------------------------------------
(* What to do next.                                                        *)
NoTest == [id |-> "no_test"]

TestsOf(gs) == FlattenSeq([i \in DOMAIN gs |-> gs[i].tests])

NextTest(gs, recorded) ==
    LET tests    == TestsOf(gs)
        untested == {i \in DOMAIN tests : tests[i].id \notin recorded}
    IN  IF untested = {} THEN NoTest ELSE tests[Min(untested)]

(* The signals the live tests of the graphs ask for, as far as their graph *)
(* declares them.                                                          *)
Places(gs) == UNION {{k} \X DOMAIN gs[k].tests : k \in DOMAIN gs}
TestAt(gs, at) == gs[at[1]].tests[at[2]]
Asks(gs, at) ==
    IF Live(TestAt(gs, at))
    THEN TestAt(gs, at).signals \cap {s.signal : s \in ToSet(gs[at[1]].signals)} ELSE {}

SignalsOf(gs) == UNION {Asks(gs, at) : at \in Places(gs)}

(* The first test to ask for a signal says by which recipe it is measured, *)
(* the last its graph declares, and whether it is acquired.                *)
FirstToAsk(gs, signal) ==
    CHOOSE at \in Places(gs) :
        /\ signal \in Asks(gs, at)
        /\ \A other \in Places(gs) : signal \in Asks(gs, other) =>
              at[1] < other[1] \/ (at[1] = other[1] /\ at[2] <= other[2])

Measurement(gs, signal, recorded) ==
    LET at == FirstToAsk(gs, signal)
        g  == gs[at[1]]
    IN  [recipe   |-> g.signals[Max({j \in DOMAIN g.signals : g.signals[j].signal = signal})],
         family   |-> g.family,
         test     |-> TestAt(gs, at).id,
         acquired |-> TestAt(gs, at).id \in recorded]

RequiredSignals(gs, recorded) == {Measurement(gs, x, recorded) : x \in SignalsOf(gs)}

-----------------------------------------------------------------------------
(* The repair basket of one graph.                                         *)
BandOrder == [strong |-> 2, moderate |-> 1, insufficient |-> 0]

EmptyBasket == [confidence |-> "insufficient", items |-> {}, guidance |-> {}, gated |-> {}]

(* Repairs of the top hypothesis whose band is reached.                    *)
Reached(g, scored) ==
    {r \in ToSet(g.repairs) : /\ r.hypothesis = scored.ranked[1]
                              /\ BandOrder[scored.confidence] >= BandOrder[r.minConfidence]}

ConfirmedByTest(r, observations) ==
    \E q \in r.requires : << q[1] >> \in EvidenceSatisfied(observations)

Confirmed(r, observations) == r.requires \cap EvidenceSatisfied(observations) # {}

RepairBasket(g, scored, observations) ==
    IF scored.stopped \/ scored.ranked = << >> \/ DOMAIN observations = {} THEN EmptyBasket
    ELSE LET reached == Reached(g, scored)
             parts   == {r \in reached : r.class # "diagnostic"}
             sold    == {r \in parts : Confirmed(r, observations)}
         IN  [confidence |-> scored.confidence, items |-> sold,
              guidance |-> reached \ parts, gated |-> parts \ sold]
=============================================================================
