---------------------------- MODULE MCSessionApi ----------------------------
(***************************************************************************)
(* Three threads, two open sessions, the graphs of the repository.         *)
(***************************************************************************)
EXTENDS SessionApi, MCGraphs

CONSTANTS t1, t2, t3

Threads3 == {t1, t2, t3}
ThreadSymmetry == Permutations(Threads3)
MCGraphs == LoadedGraphs
MCLiterals == LiteralTable

Measured(fields) == [fields |-> fields, outcome |-> NoOutcome]
Trims(idle, cruise) == Measured([trim_idle |-> << idle, 1 >>, trim_2500 |-> << cruise, 1 >>])
Told(outcome) == [fields |-> << >>, outcome |-> outcome]

OpenedSessions ==
    "a" :> [NewSession EXCEPT !.dtcs = {"P0171", "P0174", "P0302"}, !.observations = [fuel_trim_idle_vs_2500 |-> Trims(12, 4)]] @@
    "b" :> [NewSession EXCEPT !.dtcs = {"P0420"}]

MCOpened == OpenedSessions

Observe(test, obs, flags) ==
    [op |-> "observe", sid |-> "a", test |-> test, obs |-> obs, flags |-> flags]

ClientRequests ==
    {[op |-> o, sid |-> "a"] : o \in {"diagnosis", "basket", "next", "signals"}} \cup
    {Observe("fuel_trim_idle_vs_2500", Trims(4, 4), {"overheat"}),
     Observe("inspect_intake", Told("leak_found"), {}),
     Observe("coil_swap", Told("follows_coil"), {"flashing_mil"}),
     [op |-> "vehicle", sid |-> "a", vin |-> "2HKRW", valid |-> TRUE, dtcs |-> {"P0420"}],
     [op |-> "vehicle", sid |-> "b", vin |-> "2HKRW", valid |-> TRUE, dtcs |-> {"P0171", "P0302"}],
     [op |-> "vehicle", sid |-> "b", vin |-> "2HKRW", valid |-> FALSE, dtcs |-> {}],
     [op |-> "create", sid |-> "c"],
     [op |-> "next", sid |-> "c"],
     [op |-> "outcome", sid |-> "a", repair |-> "replace-coil"],
     [op |-> "freeze", sid |-> "a", dtc |-> "P0171"],
     [op |-> "demand"]}

MCRequests == ClientRequests
=============================================================================
