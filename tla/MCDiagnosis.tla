---------------------------- MODULE MCDiagnosis -----------------------------
EXTENDS GoldenVectors, MCGraphs

MCGraphs == LoadedGraphs
MCLiterals == LiteralTable

(* Alone and in clusters, as scans report them; P1998's graph does not     *)
(* pass the capability check and matches nothing.                          *)
MCDtcPosts ==
    {{"P0128"}, {"P0133"}, {"P0171"}, {"P0171", "P0174"}, {"P0302", "P0171"}, {"P0420"},
     {"P0420", "P0171"}, {"P0442"}, {"P1998"}, {"P1999"}}

Measured(fields) == [fields |-> fields, outcome |-> NoOutcome]
Tenths(n) == << n, 10 >>
Whole(n) == << n, 1 >>
Nothing == Measured(<< >>)

(* Values on both sides of, and on, every threshold of the rules, and an   *)
(* observation without fields.                                             *)
LiveReadings ==
    "warmup_curve" :> {Measured([ect_after_10min_c |-> Whole(e), ect_rise_c |-> Whole(r), ect_fluctuates |-> Whole(f)]) :
                          e \in {69, 70}, r \in {2, 3}, f \in {0, 1}} @@
    "o2_response_time" :> {Measured([o2_switches_per_10s |-> Whole(s), o2_amplitude_v |-> Tenths(a)]) :
                              s \in {5, 6, 9}, a \in {2, 3}} @@
    "fuel_trim_idle_vs_2500" :> {Measured([trim_idle |-> Whole(p[1]), trim_2500 |-> Whole(p[2])]) :
                              p \in {<< 33, 12 >>, << 12, 4 >>, << 4, 4 >>, << 4, -4 >>, << 9, 5 >>}} @@
    "mode06_misfire_counts" :> {Measured([dominant_share |-> Tenths(d)]) : d \in {3, 5, 7}} @@
    "cruise_o2_trace" :> {Measured([switch_ratio |-> << p[1], 100 >>, downstream_swing_v |-> Tenths(p[2])]) :
                             p \in ({30, 35, 75} \X {1, 3, 5}) \cup {<< 85, 6 >>}} @@
    "authored_reading" :> {Measured([a |-> Whole(p[1]), b |-> Whole(p[2]), c |-> Whole(p[3])]) :
                              p \in {<< 0, 0, 0 >>, << 1, 0, 0 >>, << 0, 1, 1 >>, << 0, 1, 0 >>, << 0, 2, 1 >>,
                                     << 1, 1, 0 >>, << 1, 1, 1 >>, << 2, 1, 1 >>, << 2, 2, 2 >>}}

Yes == Measured([answer |-> Whole(1)])
Told(outcome) == [fields |-> << >>, outcome |-> outcome]

AllTests == UNION {ToSet(AllGraphs[k].tests) : k \in DOMAIN AllGraphs}

(* A guided test is answered with an outcome, or with the legacy yes.      *)
TestReadings ==
    [t \in {x.id : x \in AllTests} |->
        {Nothing} \cup
        IF t \in DOMAIN LiveReadings THEN LiveReadings[t]
        ELSE {Yes} \cup {Told(o) : o \in UNION {DOMAIN x.outcomes : x \in {x \in AllTests : x.id = t}}}]

MCReadings == TestReadings

ASSUME LoadedGraphsFavour == OutcomesFavour
ASSUME LoadedGraphsStocked == PartsAreStocked
ASSUME LoadedGraphsChecked == GraphsAreChecked
ASSUME EvidenceIsPosted == EvidenceCanBePosted

MCFlagPosts == {{}, {"overheat"}}

MCCars ==
    {[vin |-> v, described |-> d, state |-> s] :
        v \in {"2HKRW", "unknown"}, d \in {NoVehicle, "2013_Toyota_Corolla_1.8L"}, s \in {"CA", "TX"}}

-----------------------------------------------------------------------------
(* What the text of a rule stands for: its syntax tree, read as            *)
(* arithmetic. No value where the code raises: an unknown field, a         *)
(* division by zero, a rule that is no expression.                         *)
NoValue == << 0, 0 >>

RECURSIVE Meaning(_, _)
Meaning(tree, fields) ==
    LET op == tree[1]
        l  == Meaning(tree[2], fields)
        r  == Meaning(tree[3], fields)
    IN  CASE op = "malformed" -> NoValue
          [] op = "number" -> tree[2]
          [] op = "field"  -> IF tree[2] \in DOMAIN fields THEN fields[tree[2]] ELSE NoValue
          [] op = "minus"  -> IF l = NoValue THEN NoValue ELSE Minus(l)
          [] op = "not"    -> IF l = NoValue THEN NoValue ELSE Truth(l[1] = 0)
          [] op \notin {"malformed", "number", "field", "minus", "not"} ->
                 IF NoValue \in {l, r} THEN NoValue
                 ELSE CASE op = "or"  -> Truth(l[1] # 0 \/ r[1] # 0)
                        [] op = "and" -> Truth(l[1] # 0 /\ r[1] # 0)
                        [] op = "+"   -> Plus(l, r)
                        [] op = "-"   -> Plus(l, Minus(r))
                        [] op = "*"   -> Times(l, r)
                        [] op = "/"   -> IF r[1] = 0 THEN NoValue ELSE Over(l, r)
                        [] op \in Comparisons -> Truth(Compared(op, l, r))

(* The evaluator takes every rule of every recorded reading for what its   *)
(* text says, whatever its operators, precedence and brackets, and a rule  *)
(* that cannot be evaluated does not match (engine.py _Parser, eval_rule). *)
RulesMeanWhatTheySay ==
    \A test \in {t \in ToSet(TestsOf(MatchedGraphs)) : Live(t) /\ t.id \in DOMAIN observations} :
        \A i \in DOMAIN test.rules :
            LET v == Meaning(test.rules[i].tree, observations[test.id].fields)
            IN  EvalRule(test.rules[i].when, observations[test.id].fields)
                <=> v # NoValue /\ v[1] # 0
=============================================================================
