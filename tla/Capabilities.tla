---------------------------- MODULE Capabilities ----------------------------
(***************************************************************************)
(* What the transports can acquire (backend/app/capabilities.py), and the  *)
(* check every diagnostic graph passes before it is shipped                *)
(* (backend/tests/test_signal_capabilities.py). A graph is Engine's record *)
(* of one; a problem is a tuple in place of the code's message.            *)
(***************************************************************************)
EXTENDS Integers, Sequences, SequencesExt

AllowlistedPids ==
    {"04", "05", "06", "07", "08", "09", "0B", "0C", "0D", "0E", "0F", "10", "11",
     "14", "15", "1F", "21", "2F", "33", "42", "43", "44", "45", "46", "47", "4C"}

NoPid == "None"

Supported ==
    ({"01", "02"} \X AllowlistedPids) \cup ({"03", "07", "0A"} \X {NoPid}) \cup {<< "09", "02" >>}

Unsupported == {<< "06", NoPid >>}

SignalAcquirable(service, pids) ==
    /\ << service, NoPid >> \notin Unsupported
    /\ \A p \in pids : << service, p >> \in Supported

-----------------------------------------------------------------------------
Declared(g) == {g.signals[i].signal : i \in DOMAIN g.signals}
Planned(g) == {s.signal : s \in {x \in ToSet(g.signals) : x.status = "planned"}}
TestIds(g) == {g.tests[i].id : i \in DOMAIN g.tests}
NamedTest(g, id) == g.tests[SelectInSeq(g.tests, LAMBDA t : t.id = id)]

SatisfiableIfDeclared(g, req) ==
    /\ req[1] \in TestIds(g)
    /\ LET t == NamedTest(g, req[1])
       IN  t.kind = "obd_live" => t.signals # {}

(* Can this entry of requires_any be recorded without a planned signal?    *)
SatisfiableWithoutPlanned(g, req) ==
    /\ req[1] \in TestIds(g)
    /\ LET t == NamedTest(g, req[1])
       IN  t.kind = "obd_live" => t.signals # {} /\ t.signals \cap Planned(g) = {}

TestProblems(g) ==
    {<< "undeclared signal", t.id >> : t \in {t \in ToSet(g.tests) : ~(t.signals \subseteq Declared(g))}}
    \cup {<< "no recipe", t.id >> : t \in {t \in ToSet(g.tests) : t.kind = "obd_live" /\ t.signals = {}}}

SignalProblems(g) ==
    {<< "wrong status", s.signal >> : s \in
        {s \in ToSet(g.signals) : (s.status = "supported") # SignalAcquirable(s.service, s.pids)}}

RepairProblems(g) ==
    LET OutcomeKnown(q) == LET t == NamedTest(g, q[1])
                           IN  \/ q[2] \in DOMAIN t.outcomes
                               \/ q[2] = "yes" /\ t.ifYes # << >>
        parts == {r \in ToSet(g.repairs) : r.class = "replacement"}
    IN  {<< "sold on priors alone", r.id >> : r \in {r \in parts : r.requires = {}}}
        \cup {<< "gated by planned signals", r.id >> : r \in
                 {r \in parts : r.requires # {} /\ ~\E q \in r.requires : SatisfiableWithoutPlanned(g, q)}}
        \cup {<< "unknown test", r.id >> : r \in
                 {r \in ToSet(g.repairs) : \E q \in r.requires : q[1] \notin TestIds(g)}}
        \cup {<< "unknown outcome", r.id >> : r \in
                 {r \in ToSet(g.repairs) : \E q \in r.requires :
                     Len(q) = 2 /\ q[1] \in TestIds(g) /\ ~OutcomeKnown(q)}}

CheckGraph(g) == TestProblems(g) \cup SignalProblems(g) \cup RepairProblems(g)
=============================================================================
