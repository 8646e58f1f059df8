------------------------------ MODULE MCGraphs ------------------------------
(***************************************************************************)
(* The diagnostic graphs for model checking: the six of diagnostic-graphs/ *)
(* and two drafts. Numbers are in hundredths; a rule carries its tokens    *)
(* and, for the properties, the syntax tree its text stands for.           *)
(***************************************************************************)
EXTENDS Capabilities, TLC

Hypothesis(id, prior) == [id |-> id, prior |-> prior]

Rule(when, tree, group, updates) ==
    [when |-> when, tree |-> tree, group |-> group, updates |-> updates]

LiveTest(id, signals, rules) ==
    [id |-> id, kind |-> "obd_live", signals |-> signals, rules |-> rules,
     outcomes |-> << >>, ifYes |-> << >>]

GuidedTest(id, kind, outcomes, ifYes) ==
    [id |-> id, kind |-> kind, signals |-> {}, rules |-> << >>,
     outcomes |-> outcomes, ifYes |-> ifYes]

Repair(id, hypothesis, action, class, minConfidence, requires) ==
    [id |-> id, hypothesis |-> hypothesis, action |-> action, class |-> class,
     minConfidence |-> minConfidence, requires |-> requires]

Signal(signal, service, pids, status) ==
    [signal |-> signal, service |-> service, pids |-> pids, status |-> status]

Field(name) == << "field", name >>
Number(value) == << "number", value >>

LiteralTable ==
    "0" :> << 0, 1 >> @@
    "0.2" :> << 1, 5 >> @@
    "0.3" :> << 3, 10 >> @@
    "0.35" :> << 7, 20 >> @@
    "0.4" :> << 2, 5 >> @@
    "0.5" :> << 1, 2 >> @@
    "0.7" :> << 7, 10 >> @@
    "0.75" :> << 3, 4 >> @@
    "1" :> << 1, 1 >> @@
    "2" :> << 2, 1 >> @@
    "3" :> << 3, 1 >> @@
    "5" :> << 5, 1 >> @@
    "8" :> << 8, 1 >> @@
    "70" :> << 70, 1 >>

-----------------------------------------------------------------------------
(* diagnostic-graphs/p0128.json *)
P0128 ==
    [family |-> "P0128_THERMOSTAT_RATIONALITY",
     dtcs |-> {"P0128"},
     stopIf |-> {"overheat", "low_oil_pressure", "coolant_leak_severe"},
     hyps |-> << Hypothesis("thermostat_stuck_open", 40),
                Hypothesis("coolant_temp_sensor", 20),
                Hypothesis("low_coolant", 15),
                Hypothesis("other", 25) >>,
     tests |->
       << LiveTest("warmup_curve", {"warmup_curve"},
          << Rule(<< "ect_after_10min_c", "<", "70" >>,
               << "<", Field("ect_after_10min_c"), Number(<< 70, 1 >>) >>,
               "warmup_curve", [coolant_temp_sensor |-> 60, low_coolant |-> 80, thermostat_stuck_open |-> 250]),
             Rule(<< "ect_after_10min_c", ">=", "70", "and", "ect_rise_c", "<", "3" >>,
               << "and", << ">=", Field("ect_after_10min_c"), Number(<< 70, 1 >>) >>, << "<", Field("ect_rise_c"), Number(<< 3, 1 >>) >> >>,
               "warmup_curve", [coolant_temp_sensor |-> 300, thermostat_stuck_open |-> 50]),
             Rule(<< "ect_after_10min_c", ">=", "70", "and", "ect_rise_c", ">=", "3", "and", "ect_fluctuates", "==", "1" >>,
               << "and", << "and", << ">=", Field("ect_after_10min_c"), Number(<< 70, 1 >>) >>, << ">=", Field("ect_rise_c"), Number(<< 3, 1 >>) >> >>, << "==", Field("ect_fluctuates"), Number(<< 1, 1 >>) >> >>,
               "warmup_curve", [low_coolant |-> 200, thermostat_stuck_open |-> 70]) >>),
          GuidedTest("coolant_level_check", "guided_visual",
          [inconclusive |-> << >>,
           level_ok |-> [low_coolant |-> 40],
           low_or_leaking |-> [low_coolant |-> 300, thermostat_stuck_open |-> 80]],
          [low_coolant |-> 300, thermostat_stuck_open |-> 80]) >>,
     boosts |-> << >>,
     reduces |-> << >>,
     repairs |-> << Repair("replace-thermostat", "thermostat_stuck_open", "replace_thermostat", "replacement", "moderate",
                   {<< "warmup_curve" >>}),
                   Repair("replace-ect-sensor", "coolant_temp_sensor", "replace_ect_sensor", "replacement", "moderate",
                   {<< "warmup_curve" >>}),
                   Repair("top-up-coolant-and-inspect", "low_coolant", "top_up_coolant_and_inspect", "diagnostic", "moderate",
                   {}) >>,
     signals |-> << Signal("warmup_curve", "01", {"05"}, "supported") >>]

(* diagnostic-graphs/p0133.json *)
P0133 ==
    [family |-> "P0133_O2_SLOW_RESPONSE_B1S1",
     dtcs |-> {"P0133"},
     stopIf |-> {},
     hyps |-> << Hypothesis("aging_o2_sensor", 38),
                Hypothesis("exhaust_leak_before_sensor", 20),
                Hypothesis("wiring_or_connector", 14),
                Hypothesis("contaminated_sensor", 12),
                Hypothesis("other", 16) >>,
     tests |->
       << LiveTest("o2_response_time", {"o2_response_trace"},
          << Rule(<< "o2_switches_per_10s", "<=", "5" >>,
               << "<=", Field("o2_switches_per_10s"), Number(<< 5, 1 >>) >>,
               "o2_response_trace", [aging_o2_sensor |-> 240, contaminated_sensor |-> 150, exhaust_leak_before_sensor |-> 80, wiring_or_connector |-> 90]),
             Rule(<< "o2_switches_per_10s", ">", "5", "and", "o2_amplitude_v", "<", "0.3" >>,
               << "and", << ">", Field("o2_switches_per_10s"), Number(<< 5, 1 >>) >>, << "<", Field("o2_amplitude_v"), Number(<< 3, 10 >>) >> >>,
               "o2_response_trace", [aging_o2_sensor |-> 60, exhaust_leak_before_sensor |-> 130, wiring_or_connector |-> 220]),
             Rule(<< "o2_switches_per_10s", ">", "8", "and", "o2_amplitude_v", ">=", "0.3" >>,
               << "and", << ">", Field("o2_switches_per_10s"), Number(<< 8, 1 >>) >>, << ">=", Field("o2_amplitude_v"), Number(<< 3, 10 >>) >> >>,
               "o2_response_trace", [aging_o2_sensor |-> 40, contaminated_sensor |-> 50, other |-> 150]) >>),
          GuidedTest("exhaust_leak_check_upstream", "guided_visual",
          [inconclusive |-> << >>,
           leak_found |-> [aging_o2_sensor |-> 80, exhaust_leak_before_sensor |-> 300],
           no_leak |-> [exhaust_leak_before_sensor |-> 30]],
          [aging_o2_sensor |-> 80, exhaust_leak_before_sensor |-> 300]),
          GuidedTest("wiring_inspection", "guided_visual",
          [damage_found |-> [aging_o2_sensor |-> 70, wiring_or_connector |-> 300],
           inconclusive |-> << >>,
           no_damage |-> [wiring_or_connector |-> 40]],
          [aging_o2_sensor |-> 70, wiring_or_connector |-> 300]) >>,
     boosts |-> << >>,
     reduces |-> << >>,
     repairs |-> << Repair("replace-upstream-o2-sensor", "aging_o2_sensor", "replace_upstream_o2_sensor", "replacement", "moderate",
                   {<< "o2_response_time" >>}),
                   Repair("repair-manifold-gasket", "exhaust_leak_before_sensor", "repair_manifold_gasket", "replacement", "moderate",
                   {<< "exhaust_leak_check_upstream", "leak_found" >>}),
                   Repair("repair-o2-wiring", "wiring_or_connector", "repair_o2_wiring", "replacement", "moderate",
                   {<< "wiring_inspection", "damage_found" >>}) >>,
     signals |-> << Signal("o2_response_trace", "01", {"0C", "14"}, "supported") >>]

(* diagnostic-graphs/p0171.json *)
P0171 ==
    [family |-> "P0171_LEAN_BANK_1",
     dtcs |-> {"P0171"},
     stopIf |-> {"flashing_mil", "severe_misfire", "fuel_leak", "overheat"},
     hyps |-> << Hypothesis("vacuum_leak", 32),
                Hypothesis("maf_bias", 24),
                Hypothesis("fuel_delivery", 20),
                Hypothesis("exhaust_or_o2", 10),
                Hypothesis("other", 14) >>,
     tests |->
       << LiveTest("fuel_trim_idle_vs_2500", {"fuel_trim_idle_vs_2500"},
          << Rule(<< "trim_idle", "-", "trim_2500", ">=", "8" >>,
               << ">=", << "-", Field("trim_idle"), Field("trim_2500") >>, Number(<< 8, 1 >>) >>,
               "fuel_trim_snapshot", [fuel_delivery |-> 70, maf_bias |-> 75, vacuum_leak |-> 220]),
             Rule(<< "trim_idle", "-", "trim_2500", "<=", "3" >>,
               << "<=", << "-", Field("trim_idle"), Field("trim_2500") >>, Number(<< 3, 1 >>) >>,
               "fuel_trim_snapshot", [fuel_delivery |-> 180, maf_bias |-> 120, vacuum_leak |-> 70]),
             Rule(<< "trim_idle", "<", "5", "and", "trim_2500", "<", "5" >>,
               << "and", << "<", Field("trim_idle"), Number(<< 5, 1 >>) >>, << "<", Field("trim_2500"), Number(<< 5, 1 >>) >> >>,
               "fuel_trim_snapshot", [exhaust_or_o2 |-> 200, other |-> 120, vacuum_leak |-> 60]) >>),
          GuidedTest("inspect_intake", "guided_visual",
          [inconclusive |-> << >>,
           leak_found |-> [vacuum_leak |-> 300],
           no_leak_found |-> [vacuum_leak |-> 35]],
          [vacuum_leak |-> 300]) >>,
     boosts |-> << [dtc |-> "P0174", hypothesis |-> "vacuum_leak", multiplier |-> 180] >>,
     reduces |-> << >>,
     repairs |-> << Repair("inspect-intake-system", "vacuum_leak", "inspect_intake_for_leaks", "diagnostic", "moderate",
                   {}),
                   Repair("replace-intake-pcv-hose", "vacuum_leak", "replace_intake_pcv_hose", "replacement", "moderate",
                   {<< "inspect_intake", "leak_found" >>}),
                   Repair("service-maf-sensor", "maf_bias", "service_maf_sensor", "replacement", "moderate",
                   {<< "fuel_trim_idle_vs_2500" >>}),
                   Repair("test-fuel-pressure", "fuel_delivery", "test_fuel_pressure", "diagnostic", "strong",
                   {}) >>,
     signals |-> << Signal("fuel_trim_idle_vs_2500", "01", {"06", "07", "0C"}, "supported") >>]

(* diagnostic-graphs/p030x.json *)
P030X ==
    [family |-> "P030X_MISFIRE",
     dtcs |-> {"P0300", "P0301", "P0302", "P0303", "P0304", "P0305", "P0306", "P0307", "P0308"},
     stopIf |-> {"flashing_mil", "severe_misfire", "fuel_leak", "overheat"},
     hyps |-> << Hypothesis("ignition_coil", 30),
                Hypothesis("spark_plug", 25),
                Hypothesis("fuel_injector", 15),
                Hypothesis("vacuum_leak", 10),
                Hypothesis("compression", 8),
                Hypothesis("other", 12) >>,
     tests |->
       << LiveTest("mode06_misfire_counts", {"mode06_misfire_counts"},
          << Rule(<< "dominant_share", ">=", "0.7" >>,
               << ">=", Field("dominant_share"), Number(<< 7, 10 >>) >>,
               "mode06_snapshot", [fuel_injector |-> 80, ignition_coil |-> 160, spark_plug |-> 150, vacuum_leak |-> 60]),
             Rule(<< "dominant_share", "<", "0.4" >>,
               << "<", Field("dominant_share"), Number(<< 2, 5 >>) >>,
               "mode06_snapshot", [ignition_coil |-> 60, spark_plug |-> 60, vacuum_leak |-> 220]) >>),
          GuidedTest("coil_swap", "guided_manual",
          [follows_coil |-> [ignition_coil |-> 400],
           inconclusive |-> << >>,
           stays_on_cylinder |-> [fuel_injector |-> 140, ignition_coil |-> 15, spark_plug |-> 160]],
          [ignition_coil |-> 400]),
          GuidedTest("plug_inspection", "guided_visual",
          [clean |-> [spark_plug |-> 50],
           fouled |-> [spark_plug |-> 300],
           inconclusive |-> << >>],
          [spark_plug |-> 300]) >>,
     boosts |-> << [dtc |-> "P0171", hypothesis |-> "vacuum_leak", multiplier |-> 160],
                 [dtc |-> "P0174", hypothesis |-> "vacuum_leak", multiplier |-> 160] >>,
     reduces |-> << >>,
     repairs |-> << Repair("replace-ignition-coil", "ignition_coil", "replace_ignition_coil", "replacement", "moderate",
                   {<< "coil_swap", "follows_coil" >>}),
                   Repair("replace-spark-plugs", "spark_plug", "replace_spark_plugs", "replacement", "moderate",
                   {<< "plug_inspection", "fouled" >>}),
                   Repair("diagnose-fuel-injector", "fuel_injector", "diagnose_fuel_injector", "diagnostic", "strong",
                   {}),
                   Repair("compression-test", "compression", "compression_test", "diagnostic", "moderate",
                   {}) >>,
     signals |-> << Signal("mode06_misfire_counts", "06", {}, "planned") >>]

(* diagnostic-graphs/p0420.json *)
P0420 ==
    [family |-> "P0420_CATALYST_EFFICIENCY_BANK1",
     dtcs |-> {"P0420"},
     stopIf |-> {"flashing_mil"},
     hyps |-> << Hypothesis("failing_catalytic_converter", 38),
                Hypothesis("downstream_o2_sensor_fault", 22),
                Hypothesis("exhaust_leak", 14),
                Hypothesis("engine_misfire_history", 10),
                Hypothesis("other", 16) >>,
     tests |->
       << LiveTest("cruise_o2_trace", {"cruise_o2_trace"},
          << Rule(<< "switch_ratio", ">=", "0.75" >>,
               << ">=", Field("switch_ratio"), Number(<< 3, 4 >>) >>,
               "cruise_o2_trace", [downstream_o2_sensor_fault |-> 70, engine_misfire_history |-> 90, exhaust_leak |-> 80, failing_catalytic_converter |-> 260]),
             Rule(<< "switch_ratio", "<", "0.35" >>,
               << "<", Field("switch_ratio"), Number(<< 7, 20 >>) >>,
               "cruise_o2_trace", [downstream_o2_sensor_fault |-> 280, exhaust_leak |-> 90, failing_catalytic_converter |-> 50]),
             Rule(<< "switch_ratio", ">=", "0.35", "and", "switch_ratio", "<", "0.75" >>,
               << "and", << ">=", Field("switch_ratio"), Number(<< 7, 20 >>) >>, << "<", Field("switch_ratio"), Number(<< 3, 4 >>) >> >>,
               "cruise_o2_trace", [failing_catalytic_converter |-> 90, other |-> 130]),
             Rule(<< "downstream_swing_v", ">=", "0.5" >>,
               << ">=", Field("downstream_swing_v"), Number(<< 1, 2 >>) >>,
               "cruise_o2_trace", [downstream_o2_sensor_fault |-> 60, failing_catalytic_converter |-> 200]),
             Rule(<< "downstream_swing_v", "<", "0.2" >>,
               << "<", Field("downstream_swing_v"), Number(<< 1, 5 >>) >>,
               "cruise_o2_trace", [downstream_o2_sensor_fault |-> 180, failing_catalytic_converter |-> 60]) >>),
          GuidedTest("exhaust_leak_check", "guided_visual",
          [inconclusive |-> << >>,
           leak_found |-> [exhaust_leak |-> 300, failing_catalytic_converter |-> 80],
           no_leak_found |-> [exhaust_leak |-> 25, failing_catalytic_converter |-> 140]],
          [exhaust_leak |-> 300, failing_catalytic_converter |-> 80]),
          GuidedTest("misfire_history_check", "guided_manual",
          [inconclusive |-> << >>,
           no_misfire_history |-> [engine_misfire_history |-> 40],
           recent_misfires |-> [engine_misfire_history |-> 350, failing_catalytic_converter |-> 120]],
          [engine_misfire_history |-> 350, failing_catalytic_converter |-> 120]) >>,
     boosts |-> << >>,
     reduces |-> << [dtc |-> "P0171", hypothesis |-> "failing_catalytic_converter", multiplier |-> 60] >>,
     repairs |-> << Repair("replace-catalytic-converter-bank1", "failing_catalytic_converter", "replace_catalytic_converter_bank1", "replacement", "strong",
                   {<< "cruise_o2_trace" >>}),
                   Repair("replace-downstream-o2-sensor", "downstream_o2_sensor_fault", "replace_downstream_o2_sensor", "replacement", "moderate",
                   {<< "cruise_o2_trace" >>}),
                   Repair("repair-exhaust-leak", "exhaust_leak", "repair_exhaust_leak", "replacement", "moderate",
                   {<< "exhaust_leak_check", "leak_found" >>}),
                   Repair("address-misfire-history", "engine_misfire_history", "address_misfire_history", "diagnostic", "moderate",
                   {}) >>,
     signals |-> << Signal("cruise_o2_trace", "01", {"14", "15"}, "supported") >>]

(* diagnostic-graphs/p0442.json *)
P0442 ==
    [family |-> "P0442_EVAP_SMALL_LEAK",
     dtcs |-> {"P0442", "P0456"},
     stopIf |-> {"fuel_leak"},
     hyps |-> << Hypothesis("loose_or_faulty_gas_cap", 40),
                Hypothesis("evap_hose_or_canister_leak", 22),
                Hypothesis("purge_or_vent_valve", 16),
                Hypothesis("other", 22) >>,
     tests |->
       << GuidedTest("gas_cap_condition", "guided_visual",
          [cap_damaged |-> [evap_hose_or_canister_leak |-> 70, loose_or_faulty_gas_cap |-> 300, purge_or_vent_valve |-> 70],
           cap_ok |-> [loose_or_faulty_gas_cap |-> 40],
           inconclusive |-> << >>],
          [evap_hose_or_canister_leak |-> 70, loose_or_faulty_gas_cap |-> 300, purge_or_vent_valve |-> 70]),
          GuidedTest("evap_visual_inspection", "guided_visual",
          [damage_found |-> [evap_hose_or_canister_leak |-> 300, loose_or_faulty_gas_cap |-> 70],
           inconclusive |-> << >>,
           no_damage |-> [evap_hose_or_canister_leak |-> 50]],
          [evap_hose_or_canister_leak |-> 300, loose_or_faulty_gas_cap |-> 70]),
          GuidedTest("smoke_test_result", "guided_manual",
          [inconclusive |-> << >>,
           leak_at_valve |-> [evap_hose_or_canister_leak |-> 60, loose_or_faulty_gas_cap |-> 50, purge_or_vent_valve |-> 350],
           no_leak_found |-> [evap_hose_or_canister_leak |-> 50, purge_or_vent_valve |-> 40]],
          [evap_hose_or_canister_leak |-> 60, loose_or_faulty_gas_cap |-> 50, purge_or_vent_valve |-> 350]) >>,
     boosts |-> << >>,
     reduces |-> << >>,
     repairs |-> << Repair("replace-gas-cap", "loose_or_faulty_gas_cap", "replace_gas_cap", "replacement", "moderate",
                   {<< "gas_cap_condition", "cap_damaged" >>}),
                   Repair("repair-evap-hose", "evap_hose_or_canister_leak", "repair_evap_hose", "replacement", "moderate",
                   {<< "evap_visual_inspection", "damage_found" >>, << "smoke_test_result" >>}),
                   Repair("replace-vent-valve", "purge_or_vent_valve", "replace_vent_valve", "replacement", "moderate",
                   {<< "smoke_test_result", "leak_at_valve" >>}) >>,
     signals |-> << >>]

(* A family an author may add: every construct of the rule language, rules
   without a group, and equal multipliers in a group. *)
Authored ==
    [family |-> "P1999_AUTHORED",
     dtcs |-> {"P1999"},
     stopIf |-> {},
     hyps |-> << Hypothesis("first", 50),
                Hypothesis("second", 30),
                Hypothesis("rest", 20) >>,
     tests |->
       << LiveTest("authored_reading", {"authored_trace"},
          << Rule(<< "a", ">=", "1", "or", "b", ">=", "1", "and", "c", ">=", "1" >>,
               << "or", << ">=", Field("a"), Number(<< 1, 1 >>) >>, << "and", << ">=", Field("b"), Number(<< 1, 1 >>) >>, << ">=", Field("c"), Number(<< 1, 1 >>) >> >> >>,
               "one", [first |-> 150, second |-> 90]),
             Rule(<< "not", "a", ">", "1", "and", "b", "<", "2" >>,
               << "and", << "not", << ">", Field("a"), Number(<< 1, 1 >>) >> >>, << "<", Field("b"), Number(<< 2, 1 >>) >> >>,
               "one", [first |-> 50]),
             Rule(<< "(", "a", "+", "b", ")", "*", "2", "/", "c", ">", "3", "-", "-", "1" >>,
               << ">", << "/", << "*", << "+", Field("a"), Field("b") >>, Number(<< 2, 1 >>) >>, Field("c") >>, << "-", Number(<< 3, 1 >>), << "minus", Number(<< 1, 1 >>) >> >> >>,
               "two", [second |-> 200]),
             Rule(<< "a", "-", "b", "-", "c", "==", "0" >>,
               << "==", << "-", << "-", Field("a"), Field("b") >>, Field("c") >>, Number(<< 0, 1 >>) >>,
               "", [second |-> 120]),
             Rule(<< "a", "/", "(", "b", "-", "c", ")", ">=", "0.5", "or", "a", ">", "0" >>,
               << "or", << ">=", << "/", Field("a"), << "-", Field("b"), Field("c") >> >>, Number(<< 1, 2 >>) >>, << ">", Field("a"), Number(<< 0, 1 >>) >> >>,
               "", [rest |-> 110]),
             Rule(<< "a", ">", "0", "or", "missing", ">", "1" >>,
               << "or", << ">", Field("a"), Number(<< 0, 1 >>) >>, << ">", Field("missing"), Number(<< 1, 1 >>) >> >>,
               "two", [second |-> 40]),
             Rule(<< "b", "*", "c", "-", "a" >>,
               << "-", << "*", Field("b"), Field("c") >>, Field("a") >>,
               "one", [first |-> 150, second |-> 120]),
             Rule(<< "a", ">", "1", ")" >>,
               << "malformed" >>,
               "", [first |-> 300]),
             Rule(<< "b", "!=", "c", "and", "(", "a", "<", "1", "or", "not", "c", ")" >>,
               << "and", << "!=", Field("b"), Field("c") >>, << "or", << "<", Field("a"), Number(<< 1, 1 >>) >>, << "not", Field("c") >> >> >>,
               "two", [first |-> 80]) >>) >>,
     boosts |-> << >>,
     reduces |-> << >>,
     repairs |-> << Repair("fix-first", "first", "replace_ect_sensor", "replacement", "moderate",
                   {<< "authored_reading" >>}) >>,
     signals |-> << Signal("authored_trace", "01", {"05"}, "supported") >>]

(* A draft whose only part is gated by a signal nobody can acquire. *)
PlannedGate ==
    [family |-> "P1998_PLANNED_GATE",
     dtcs |-> {"P1998"},
     stopIf |-> {},
     hyps |-> << Hypothesis("coil", 60),
                Hypothesis("rest", 40) >>,
     tests |->
       << LiveTest("counts", {"mode06_counts"},
          << Rule(<< "share", ">=", "0.7" >>,
               << ">=", Field("share"), Number(<< 7, 10 >>) >>,
               "one", [coil |-> 160]) >>),
          GuidedTest("look", "guided_visual",
          [worn |-> [coil |-> 120],
           fine |-> [coil |-> 90]],
          << >>) >>,
     boosts |-> << >>,
     reduces |-> << >>,
     repairs |-> << Repair("replace-coil", "coil", "replace_ignition_coil", "replacement", "moderate",
                   {<< "counts" >>}) >>,
     signals |-> << Signal("mode06_counts", "06", {}, "planned") >>]

-----------------------------------------------------------------------------
(* In the order of the family names.                                       *)
AllGraphs == << P0128, P0133, P0171, P030X, P0420, P0442, PlannedGate, Authored >>

(* A graph that fails the capability check fails the build.                *)
LoadedGraphs == SelectSeq(AllGraphs, LAMBDA g : CheckGraph(g) = {})
=============================================================================
