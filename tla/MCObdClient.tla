---------------------------- MODULE MCObdClient -----------------------------
EXTENDS ObdClient

MCPids == << "FF", "0C" >>

MCRequests == {ScanProgram[i] : i \in DOMAIN ScanProgram} \cup {Live("43"), Frozen("0C")}

(* The engine answers everything, "0C" well or badly; the gearbox also     *)
(* answers service 07.                                                     *)
MCAnswers ==
    {[ecu |-> e, req |-> r, call |-> c, body |-> b] :
        e \in Ecus, r \in MCRequests, c \in 1 .. MaxOps * 5, b \in {"good", "bad"}}
    \ {a \in [ecu : Ecus, req : MCRequests, call : 1 .. MaxOps * 5, body : {"good", "bad"}] :
         \/ a.ecu = "gearbox" /\ (a.req # Dtc("07") \/ a.body = "bad")
         \/ a.ecu = "engine" /\ a.body = "bad" /\ a.req # Live("0C")}

MCOps == {Scan, Unknown, Read(Live("43")), Read(Live("FF")), Read(Frozen("0C"))}
=============================================================================
