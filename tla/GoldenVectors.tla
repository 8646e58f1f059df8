--------------------------- MODULE GoldenVectors ----------------------------
(***************************************************************************)
(* The parity vectors the engines are tested against: the cases            *)
(* backend/app/golden_vectors.py builds, with what it asserts of each, and *)
(* the vectors committed in tests/golden/diagnostic_vectors.json, with     *)
(* every value the test suites compare. Scores are in millionths.          *)
(***************************************************************************)
EXTENDS Diagnosis

Fields(fields) == [fields |-> fields, outcome |-> NoOutcome]
Outcome(outcome) == [fields |-> << >>, outcome |-> outcome]

Vector(codes, family, recorded, reported, expects) ==
    [codes |-> codes, family |-> family, observations |-> recorded, flags |-> reported,
     expects |-> expects]

-----------------------------------------------------------------------------
(* build_vectors, (a) to (g).                                              *)
LeanTrims == Fields([trim_idle |-> << 33, 1 >>, trim_2500 |-> << 12, 1 >>])

BuiltVectors ==
  { Vector({"P0420"}, "P0420_CATALYST_EFFICIENCY_BANK1",
           "cruise_o2_trace" :> Fields([switch_ratio |-> << 17, 20 >>,
                                        downstream_swing_v |-> << 3, 5 >>]), {},
           [top |-> "failing_catalytic_converter", confidence |-> "moderate", dedupedAtLeast |-> 1]),
    Vector({"P0171"}, "P0171_LEAN_BANK_1",
           "fuel_trim_idle_vs_2500" :> LeanTrims @@ "inspect_intake" :> Outcome("no_leak_found"), {},
           [top |-> "vacuum_leak", confidence |-> "insufficient",
            outcomes |-> [inspect_intake |-> "no_leak_found"]]),
    Vector({"P0420"}, "P0420_CATALYST_EFFICIENCY_BANK1",
           "exhaust_leak_check" :> Fields([answer |-> << 1, 1 >>]), {},
           [top |-> "exhaust_leak", outcomes |-> [exhaust_leak_check |-> "yes"]]),
    Vector({"P0171", "P0174"}, "P0171_LEAN_BANK_1", << >>, {},
           [top |-> "vacuum_leak", applied |-> 1]),
    Vector({"P0302", "P0171"}, "P0171_LEAN_BANK_1", << >>, {},
           [ranking |-> << "P0171_LEAN_BANK_1", "P030X_MISFIRE" >>]),
    Vector({"P0171"}, "P0171_LEAN_BANK_1",
           "fuel_trim_idle_vs_2500" :> LeanTrims @@ "inspect_intake" :> Outcome("leak_found"), {},
           [items |-> {"replace-intake-pcv-hose"}]),
    Vector({"P0171"}, "P0171_LEAN_BANK_1", "fuel_trim_idle_vs_2500" :> LeanTrims, {},
           [items |-> {}, gated |-> {"replace-intake-pcv-hose"}]),
    Vector({"P0171"}, "P0171_LEAN_BANK_1", << >>, {"flashing_mil"}, [stopped |-> TRUE]) }

(* tests/golden/diagnostic_vectors.json                                    *)
CommittedVectors ==
  { (* dedup_cruise_o2_trace_strongest_rule_wins *)
     Vector({"P0420"}, "P0420_CATALYST_EFFICIENCY_BANK1",
          "cruise_o2_trace" :> Fields([downstream_swing_v |-> << 3, 5 >>, switch_ratio |-> << 4, 5 >>]), {},
          [top |-> "failing_catalytic_converter",
           scores |-> [downstream_o2_sensor_fault |-> 89069, engine_misfire_history |-> 60729, exhaust_leak |-> 75574, failing_catalytic_converter |-> 666667, other |-> 107962],
           deduped |-> 2,
           confidence |-> "moderate",
           applied |-> 0]),
     (* dedup_plus_code_context_reduce *)
     Vector({"P0420", "P0171"}, "P0420_CATALYST_EFFICIENCY_BANK1",
          "cruise_o2_trace" :> Fields([downstream_swing_v |-> << 3, 5 >>, switch_ratio |-> << 4, 5 >>]), {},
          [top |-> "failing_catalytic_converter",
           scores |-> [downstream_o2_sensor_fault |-> 121457, engine_misfire_history |-> 82812, exhaust_leak |-> 103055, failing_catalytic_converter |-> 545455, other |-> 147221],
           deduped |-> 2,
           confidence |-> "moderate",
           applied |-> 1]),
     (* categorical_negative_no_leak_found *)
     Vector({"P0302"}, "P030X_MISFIRE",
          "coil_swap" :> Outcome("stays_on_cylinder"), {},
          [top |-> "spark_plug",
           scores |-> [compression |-> 83770, fuel_injector |-> 219895, ignition_coil |-> 47120, other |-> 125654, spark_plug |-> 418848, vacuum_leak |-> 104712],
           deduped |-> 0,
           confidence |-> "insufficient",
           applied |-> 0,
           outcomes |-> [coil_swap |-> "stays_on_cylinder"]]),
     (* categorical_no_leak *)
     Vector({"P0171"}, "P0171_LEAN_BANK_1",
          "inspect_intake" :> Outcome("no_leak_found"), {},
          [top |-> "maf_bias",
           scores |-> [exhaust_or_o2 |-> 126263, fuel_delivery |-> 252525, maf_bias |-> 303030, other |-> 176768, vacuum_leak |-> 141414],
           deduped |-> 0,
           confidence |-> "insufficient",
           applied |-> 0,
           outcomes |-> [inspect_intake |-> "no_leak_found"]]),
     (* evap_guided_categorical *)
     Vector({"P0442"}, "P0442_EVAP_SMALL_LEAK",
          "gas_cap_condition" :> Outcome("cap_damaged"), {},
          [top |-> "loose_or_faulty_gas_cap",
           scores |-> [evap_hose_or_canister_leak |-> 91340, loose_or_faulty_gas_cap |-> 711744, other |-> 130486, purge_or_vent_valve |-> 66429],
           deduped |-> 0,
           confidence |-> "moderate",
           applied |-> 0,
           outcomes |-> [gas_cap_condition |-> "cap_damaged"]]),
     (* legacy_yes_no_guided_fallback *)
     Vector({"P0171"}, "P0171_LEAN_BANK_1",
          "inspect_intake" :> Fields([answer |-> << 1, 1 >>]), {},
          [top |-> "vacuum_leak",
           scores |-> [exhaust_or_o2 |-> 60976, fuel_delivery |-> 121951, maf_bias |-> 146341, other |-> 85366, vacuum_leak |-> 585366],
           deduped |-> 0,
           confidence |-> "moderate",
           applied |-> 0,
           outcomes |-> [inspect_intake |-> "yes"]]),
     (* legacy_no_answer *)
     Vector({"P0171"}, "P0171_LEAN_BANK_1",
          "inspect_intake" :> Fields([answer |-> << 0, 1 >>]), {},
          [top |-> "vacuum_leak",
           scores |-> [exhaust_or_o2 |-> 100000, fuel_delivery |-> 200000, maf_bias |-> 240000, other |-> 140000, vacuum_leak |-> 320000],
           deduped |-> 0,
           confidence |-> "insufficient",
           applied |-> 0,
           outcomes |-> [inspect_intake |-> "None"]]),
     (* code_context_p0171_p0174_boosts_vacuum_leak *)
     Vector({"P0171", "P0174"}, "P0171_LEAN_BANK_1",
          << >>, {},
          [top |-> "vacuum_leak",
           scores |-> [exhaust_or_o2 |-> 79618, fuel_delivery |-> 159236, maf_bias |-> 191083, other |-> 111465, vacuum_leak |-> 458599],
           deduped |-> 0,
           confidence |-> "moderate",
           applied |-> 1]),
     (* multi_graph_p0302_p0171_ranked *)
     Vector({"P0302", "P0171"}, "P030X_MISFIRE",
          "mode06_misfire_counts" :> Fields([dominant_share |-> << 17, 20 >>]), {},
          [top |-> "ignition_coil",
           scores |-> [compression |-> 62943, fuel_injector |-> 94414, ignition_coil |-> 377655, other |-> 94414, spark_plug |-> 295043, vacuum_leak |-> 75531],
           deduped |-> 0,
           confidence |-> "insufficient",
           applied |-> 1,
           ranking |-> << "P030X_MISFIRE", "P0171_LEAN_BANK_1" >>]),
     (* multi_graph_ranking_lean_catalyst *)
     Vector({"P0420", "P0171"}, "P0171_LEAN_BANK_1",
          << >>, {},
          [top |-> "vacuum_leak",
           scores |-> [exhaust_or_o2 |-> 100000, fuel_delivery |-> 200000, maf_bias |-> 240000, other |-> 140000, vacuum_leak |-> 320000],
           deduped |-> 0,
           confidence |-> "insufficient",
           applied |-> 0,
           ranking |-> << "P0171_LEAN_BANK_1", "P0420_CATALYST_EFFICIENCY_BANK1" >>]),
     (* basket_hose_satisfied_by_leak_found *)
     Vector({"P0171"}, "P0171_LEAN_BANK_1",
          "inspect_intake" :> Outcome("leak_found"), {},
          [top |-> "vacuum_leak",
           scores |-> [exhaust_or_o2 |-> 60976, fuel_delivery |-> 121951, maf_bias |-> 146341, other |-> 85366, vacuum_leak |-> 585366],
           deduped |-> 0,
           confidence |-> "moderate",
           applied |-> 0,
           outcomes |-> [inspect_intake |-> "leak_found"],
           items |-> {"replace-intake-pcv-hose"},
           gated |-> {},
           guidance |-> {"inspect-intake-system"}]),
     (* basket_hose_gated_without_visual_confirmation *)
     Vector({"P0171"}, "P0171_LEAN_BANK_1",
          "fuel_trim_idle_vs_2500" :> Fields([trim_2500 |-> << 2, 1 >>, trim_idle |-> << 12, 1 >>]), {},
          [top |-> "vacuum_leak",
           scores |-> [exhaust_or_o2 |-> 79114, fuel_delivery |-> 110759, maf_bias |-> 142405, other |-> 110759, vacuum_leak |-> 556962],
           deduped |-> 0,
           confidence |-> "moderate",
           applied |-> 0,
           items |-> {},
           gated |-> {"replace-intake-pcv-hose"},
           guidance |-> {"inspect-intake-system"}]),
     (* basket_no_evidence *)
     Vector({"P0171"}, "P0171_LEAN_BANK_1",
          << >>, {},
          [top |-> "vacuum_leak",
           scores |-> [exhaust_or_o2 |-> 100000, fuel_delivery |-> 200000, maf_bias |-> 240000, other |-> 140000, vacuum_leak |-> 320000],
           deduped |-> 0,
           confidence |-> "insufficient",
           applied |-> 0,
           items |-> {},
           gated |-> {},
           guidance |-> {}]),
     (* stop_if_flashing_mil_halts_scoring *)
     Vector({"P0171"}, "P0171_LEAN_BANK_1",
          "fuel_trim_idle_vs_2500" :> Fields([trim_2500 |-> << 2, 1 >>, trim_idle |-> << 12, 1 >>]), {"flashing_mil"},
          [stopped |-> TRUE,
           confidence |-> "insufficient",
           applied |-> 0]),
     (* obd_live_p0128_warmup *)
     Vector({"P0128"}, "P0128_THERMOSTAT_RATIONALITY",
          "warmup_curve" :> Fields([ect_after_10min_c |-> << 60, 1 >>, ect_fluctuates |-> << 0, 1 >>, ect_rise_c |-> << 1, 1 >>]), {},
          [top |-> "thermostat_stuck_open",
           scores |-> [coolant_temp_sensor |-> 80537, low_coolant |-> 80537, other |-> 167785, thermostat_stuck_open |-> 671141],
           deduped |-> 0,
           confidence |-> "moderate",
           applied |-> 0]),
     (* obd_live_p0133_slow_o2 *)
     Vector({"P0133"}, "P0133_O2_SLOW_RESPONSE_B1S1",
          "o2_response_time" :> Fields([o2_amplitude_v |-> << 1, 2 >>, o2_switches_per_10s |-> << 3, 1 >>]), {},
          [top |-> "aging_o2_sensor",
           scores |-> [aging_o2_sensor |-> 592978, contaminated_sensor |-> 117035, exhaust_leak_before_sensor |-> 104031, other |-> 104031, wiring_or_connector |-> 81925],
           deduped |-> 0,
           confidence |-> "moderate",
           applied |-> 0]) }

-----------------------------------------------------------------------------
(* Equal when rounded to six places, give or take the last one.            *)
Rounds(fraction, millionths) ==
    /\ Lower[fraction, << millionths + 1, 1000000 >>]
    /\ millionths > 0 => Lower[<< millionths - 1, 1000000 >>, fraction]

ScoresRound(w, scores) ==
    DOMAIN w = DOMAIN scores /\ \A h \in DOMAIN w : Rounds(<< w[h], Sum(w) >>, scores[h])

Dropped(v, g) ==
    LET live == {t \in IdsOf(g.tests) \cap DOMAIN v.observations : Live(TestOf(g, t))}
    IN  UNION {{<< t, x >> : x \in Deduped(TestOf(g, t), v.observations[t].fields)} : t \in live}

Agrees(v, g, scored, all, basket) ==
    LET Ids(repairs) == {r.id : r \in repairs}
        Expected(check, x) ==
            CASE check = "stopped"    -> scored.stopped
              [] check = "top"        -> scored.ranked[1] = x
              [] check = "confidence" -> scored.confidence = x
              [] check = "scores"     -> ScoresRound(Weights(g, v.observations, v.codes), x)
              [] check = "deduped"    -> Cardinality(Dropped(v, g)) = x
              [] check = "dedupedAtLeast" -> Cardinality(Dropped(v, g)) >= x
              [] check = "applied"    -> Len(scored.applied) = x
              [] check = "outcomes"   -> scored.outcomes = x
              [] check = "ranking"    -> [i \in DOMAIN all |-> all[i].family] = x
              [] check = "items"      -> Ids(basket.items) = x
              [] check = "gated"      -> Ids(basket.gated) = x
              [] check = "guidance"   -> Ids(basket.guidance) = x
    IN  \A check \in DOMAIN v.expects : Expected(check, v.expects[check])

Weighing(v, g, scored) ==
    Agrees(v, g, scored, ScoreAll(GraphsForDtcs(v.codes), v.observations, v.flags, v.codes),
           RepairBasket(g, scored, v.observations))

Judged(v, g) == Weighing(v, g, Score(g, v.observations, v.flags, v.codes))

Meets(v) == Judged(v, Graphs[FamilyAt(v.family)])

(* The engine gives every vector what is committed or asserted for it:     *)
(* scores, band, ranking, what was deduplicated, basket, stop. Evaluated   *)
(* when a session with the codes of the vector begins.                     *)
GoldenVectorsHold ==
    observations = << >> => \A v \in BuiltVectors \cup CommittedVectors : v.codes = dtcs => Meets(v)
=============================================================================
