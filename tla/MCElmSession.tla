---------------------------- MODULE MCElmSession ----------------------------
EXTENDS ElmSession

(* The Camry of simulator/canned-vehicles, with a second code; a C, a G    *)
(* and a J in its VIN, the service ids of the answers with codes.          *)
MCVehicle ==
    [vin |-> << "34", "54", "31", "47", "31", "43", "41", "4A", "58", "4C", "55",
                "31", "32", "33", "34", "35", "36" >>,
     confirmed |-> << << "04", "20" >>, << "01", "71" >> >>,
     pending   |-> << << "01", "33" >> >>,
     permanent |-> << >>,
     pids      |-> [p \in {"0C", "05", "14"} |->
                      CASE p = "0C" -> << "17", "20" >> [] p = "05" -> << "41" >> [] p = "14" -> << "80", "FF" >>]]

Recipe(service, pids) == [service |-> service, pids |-> pids]

MCPlans ==
    {[signals |-> << Recipe("01", << "0C", "06" >>), Recipe("06", << "A2" >>), Recipe("01", << "05", "0C" >>) >>,
      legacy |-> << >>],
     [signals |-> << Recipe("06", << "A2" >>) >>, legacy |-> << "14" >>],
     [signals |-> << >>, legacy |-> << >>]}

ASSUME SettingsAreNoData == TalkIsNoData
ASSUME VehicleIsRead == AnswersAreRead
=============================================================================
