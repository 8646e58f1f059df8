----------------------------- MODULE SessionApi -----------------------------
(***************************************************************************)
(* The HTTP API (backend/app/main.py) under overlapping requests. Handlers *)
(* are plain functions: the framework runs each in a thread of a pool, and *)
(* all of them work on the dictionary SESSIONS and the session             *)
(* dictionaries in it without a lock. A step here is one access to that    *)
(* shared state; iterating over a dictionary or a set takes a step per     *)
(* element, and raises (500) once an element was added meanwhile.          *)
(***************************************************************************)
EXTENDS Engine

CONSTANTS
    Threads,        \* of the pool
    Requests,       \* requests clients may make: [op, sid, ...]
    Opened,         \* [session id -> session]: SESSIONS at the start
    PrivacyCount,   \* sessions a family needs before its count is released
    MaxRequests     \* bound: requests served

VARIABLES
    sessions,       \* SESSIONS
    threads,        \* [Threads -> the locals of the handler each runs]
    served,         \* bound counter
    acked,          \* history: requests answered "recorded" with 200
    held,           \* history: <<session, family>> its codes ever selected first
    version         \* history: number of writes to the shared state

vars == << sessions, threads, served, acked, held, version >>

NewSession == [vin |-> "None", dtcs |-> {}, observations |-> << >>, flags |-> {},
               outcome |-> "None", freezeFrame |-> "None"]

(* A session dictionary: the keys create_session gives it, and in it the   *)
(* dictionary of its observations.                                         *)
IsSession(s) ==
    /\ s = [key \in DOMAIN NewSession |-> s[key]]
    /\ s.observations = [test \in DOMAIN s.observations |-> s.observations[test]]

(* d[key] = value for a dictionary d.                                      *)
Put(d, key, value) == [x \in DOMAIN d \cup {key} |-> IF x = key THEN value ELSE d[x]]

Idle == [at |-> "idle"]
NoReply == << >>

Primary(codes) == Head(GraphsForDtcs(codes)).family

Holding(codes, sid) ==
    IF GraphsForDtcs(codes) = << >> THEN {} ELSE {<< sid, Primary(codes) >>}

(* Finitely many graphs and sessions; a request goes to one of the routes, *)
(* and no client has a test with the name that stands for None.            *)
ASSUME SessionAssumption ==
    /\ IsFiniteSet(DOMAIN Graphs) /\ IsFiniteSet(DOMAIN Opened)
    /\ PrivacyCount \in Nat
    /\ Opened = [i \in DOMAIN Opened |-> Opened[i]] /\ \A i \in DOMAIN Opened : IsSession(Opened[i])
    /\ \A req \in Requests :
          /\ req.op \in {"create", "vehicle", "observe", "outcome", "freeze",
                         "diagnosis", "basket", "next", "signals", "demand"}
          /\ req.op = "observe" => req.test # NoTest.id

SessionInit ==
    /\ sessions = Opened
    /\ threads = [p \in Threads |-> Idle]
    /\ served = 0
    /\ acked = {}
    /\ held = UNION {Holding(Opened[i].dtcs, i) : i \in DOMAIN Opened}
    /\ version = 0

-----------------------------------------------------------------------------
(* Threads.                                                                *)
At(p, step) == threads[p].at = step
Session(p) == sessions[threads[p].req.sid]

Become(p, local) == threads' = [threads EXCEPT ![p] = local]
Go(p, step) == Become(p, [threads[p] EXCEPT !.at = step])

Reply(p, status, reply) ==
    Become(p, [threads[p] EXCEPT !.at = "done", !.status = status, !.reply = reply])
Refuse(p, status) == Reply(p, status, NoReply)
ServerError(p) == Refuse(p, 500)

Untouched == UNCHANGED << sessions, acked, held, version >>

Write(p, session) ==
    /\ sessions' = [sessions EXCEPT ![threads[p].req.sid] = session]
    /\ version' = version + 1

FirstStep(op) ==
    CASE op = "vehicle" -> "vin"
      [] op \in {"observe", "diagnosis", "basket", "next", "signals"} -> "graphs"
      [] op \in {"create", "outcome", "freeze"} -> op
      [] op = "demand" -> "walk"

(* The locals: "by" the codes the graphs were selected by, "codes" and     *)
(* "flags" as read for the evidence, "size" of what is iterated over,      *)
(* "seen" of it so far, "scored" the graphs done, k the loop counter.      *)
Locals(req, step, status) ==
    [at |-> step, req |-> req, began |-> version, before |-> acked,
     by |-> {}, codes |-> {}, flags |-> {}, size |-> 0, seen |-> << >>,
     scored |-> << >>, k |-> 1, status |-> status, reply |-> NoReply]

Begin(p, req) ==
    LET unknown == req.op \notin {"create", "demand"} /\ req.sid \notin DOMAIN sessions
    IN  /\ threads[p].at \in {"idle", "done"}
        /\ served < MaxRequests
        /\ served' = served + 1
        /\ Become(p, IF unknown THEN Locals(req, "done", 404)
                                ELSE Locals(req, FirstStep(req.op), 0))
        /\ Untouched

-----------------------------------------------------------------------------
(* Writers.                                                                *)
Create(p) ==
    /\ At(p, "create")
    /\ threads[p].req.sid \notin DOMAIN sessions        \* a fresh uuid
    /\ sessions' = Put(sessions, threads[p].req.sid, NewSession)
    /\ version' = version + 1
    /\ Reply(p, 200, NoReply)
    /\ UNCHANGED << acked, held >>

SetVin(p) ==
    /\ At(p, "vin")
    /\ Write(p, [Session(p) EXCEPT !.vin = threads[p].req.vin])
    /\ Go(p, "dtcs")
    /\ UNCHANGED << acked, held >>

SetDtcsCleared(p) ==
    /\ At(p, "dtcs")
    /\ IF threads[p].req.valid
       THEN /\ Write(p, [Session(p) EXCEPT !.dtcs = threads[p].req.dtcs, !.observations = << >>])
            /\ held' = held \cup Holding(threads[p].req.dtcs, threads[p].req.sid)
            /\ Go(p, "respond")
       ELSE Refuse(p, 422) /\ UNCHANGED << sessions, version, held >>
    /\ UNCHANGED acked

(* A status that is none of the three is refused, the VIN already written. *)
SetDtcs(p) ==
    /\ At(p, "dtcs")
    /\ IF threads[p].req.valid
       THEN /\ Write(p, [Session(p) EXCEPT !.dtcs = threads[p].req.dtcs])
            /\ held' = held \cup Holding(threads[p].req.dtcs, threads[p].req.sid)
            /\ Go(p, "respond")
       ELSE Refuse(p, 422) /\ UNCHANGED << sessions, version, held >>
    /\ UNCHANGED acked

Families(gs) == [i \in DOMAIN gs |-> gs[i].family]

(* The answer is made of the codes as they are by now.                     *)
Respond(p) ==
    /\ At(p, "respond")
    /\ Reply(p, 200, Families(GraphsForDtcs(Session(p).dtcs)))
    /\ Untouched

Record(p) ==
    LET req == threads[p].req
    IN  /\ At(p, "record")
        /\ Write(p, [Session(p) EXCEPT !.observations = Put(@, req.test, req.obs)])
        /\ Go(p, "flag")
        /\ UNCHANGED << acked, held >>

FlagReplaced(p) ==
    /\ At(p, "flag")
    /\ Write(p, [Session(p) EXCEPT !.flags = threads[p].req.flags])
    /\ acked' = acked \cup {threads[p].req}
    /\ Reply(p, 200, NoReply)
    /\ UNCHANGED held

Flag(p) ==
    /\ At(p, "flag")
    /\ Write(p, [Session(p) EXCEPT !.flags = @ \cup threads[p].req.flags])
    /\ acked' = acked \cup {threads[p].req}
    /\ Reply(p, 200, NoReply)
    /\ UNCHANGED held

PostOutcome(p) ==
    /\ At(p, "outcome")
    /\ Write(p, [Session(p) EXCEPT !.outcome = threads[p].req.repair])
    /\ Reply(p, 200, NoReply)
    /\ UNCHANGED << acked, held >>

SetFreezeFrame(p) ==
    /\ At(p, "freeze")
    /\ Write(p, [Session(p) EXCEPT !.freezeFrame = threads[p].req.dtc])
    /\ Reply(p, 200, NoReply)
    /\ UNCHANGED << acked, held >>

-----------------------------------------------------------------------------
(* Readers, and the guard of an observation: the graphs of the codes.      *)
Chosen(op, gs) == IF op = "basket" THEN << Head(gs) >> ELSE gs

Selected(p) == Chosen(threads[p].req.op, GraphsForDtcs(threads[p].by))

AfterGraphs(op) ==
    CASE op = "observe"                  -> "record"
      [] op \in {"diagnosis", "basket"} -> "evidence"
      [] op \in {"next", "signals"}     -> op

SelectGraphs(p) ==
    LET req   == threads[p].req
        gs    == GraphsForDtcs(Session(p).dtcs)
        known == {t.id : t \in ToSet(TestsOf(gs))}
    IN  /\ At(p, "graphs")
        /\ IF gs = << >> \/ (req.op = "observe" /\ req.test \notin known)
           THEN Refuse(p, 422)
           ELSE Become(p, [threads[p] EXCEPT !.at = AfterGraphs(req.op), !.by = Session(p).dtcs])
        /\ Untouched

(* The codes are read again for the scores.                                *)
ReadEvidencePrimary(p) ==
    /\ At(p, "evidence")
    /\ Become(p, [threads[p] EXCEPT !.at = "flags",
                                    !.codes = Session(p).dtcs \cap Head(Selected(p)).dtcs])
    /\ Untouched

ReadEvidence(p) ==
    /\ At(p, "evidence")
    /\ Become(p, [threads[p] EXCEPT !.at = "flags", !.codes = Session(p).dtcs])
    /\ Untouched

-----------------------------------------------------------------------------
(* Scoring graph k of the selected ones.                                   *)
Graph(p) == Selected(p)[threads[p].k]

FlagsBegin(p) ==
    /\ At(p, "flags")
    /\ Become(p, [threads[p] EXCEPT !.at = "flag_loop", !.flags = Session(p).flags])
    /\ Untouched

Graded(p, score, used) ==
    Become(p, [threads[p] EXCEPT
        !.at = IF threads[p].req.op = "basket" THEN "basket"
               ELSE IF threads[p].k = Len(Selected(p)) THEN "collate" ELSE "flags",
        !.scored = Append(@, [score |-> score, used |-> used]),
        !.seen = << >>, !.size = 0, !.flags = {}, !.k = @ + 1])

(* A stop flag among those at the beginning ends the loop where it is met, *)
(* before or after a flag added meanwhile is noticed.                      *)
FlagsStop(p) ==
    /\ At(p, "flag_loop")
    /\ Stops(Graph(p), threads[p].flags)
    /\ Graded(p, StoppedScore(Graph(p)), {})
    /\ Untouched

FlagsChanged(p) ==
    /\ At(p, "flag_loop")
    /\ Session(p).flags # threads[p].flags
    /\ ServerError(p)
    /\ Untouched

FlagsClear(p) ==
    /\ At(p, "flag_loop")
    /\ ~Stops(Graph(p), threads[p].flags)
    /\ Session(p).flags = threads[p].flags
    /\ Go(p, "scan")
    /\ Untouched

-----------------------------------------------------------------------------
(* Iterating over the observations, for the weights ("scan") and for the   *)
(* evidence of the basket ("satisfied").                                   *)
Looping == {"scan_loop", "satisfied_loop"}
Observed(p) == DOMAIN Session(p).observations

ScanBegin(p) ==
    /\ threads[p].at \in {"scan", "satisfied"}
    /\ Become(p, [threads[p] EXCEPT !.at = IF @ = "scan" THEN "scan_loop" ELSE "satisfied_loop",
                                    !.seen = << >>, !.size = Cardinality(Observed(p))])
    /\ Untouched

ScanChanged(p) ==
    /\ threads[p].at \in Looping
    /\ Cardinality(Observed(p)) # threads[p].size
    /\ ServerError(p)
    /\ Untouched

(* An observation is read when its turn comes, replaced or not.            *)
ScanNext(p) ==
    /\ threads[p].at \in Looping
    /\ Cardinality(Observed(p)) = threads[p].size
    /\ \E t \in Observed(p) \ DOMAIN threads[p].seen :
          Become(p, [threads[p] EXCEPT !.seen = Put(@, t, Session(p).observations[t])])
    /\ Untouched

AllSeen(p) ==
    /\ Cardinality(Observed(p)) = threads[p].size
    /\ DOMAIN threads[p].seen = Observed(p)

ScanEnd(p) ==
    /\ At(p, "scan_loop")
    /\ AllSeen(p)
    /\ Graded(p, Score(Graph(p), threads[p].seen, {}, threads[p].codes), DOMAIN threads[p].seen)
    /\ Untouched

Scores(p) == {threads[p].scored[i].score : i \in DOMAIN threads[p].scored}

Collate(p) ==
    /\ At(p, "collate")
    /\ Reply(p, 200, [diagnoses |-> ByScore(Scores(p)), freezeFrame |-> Session(p).freezeFrame])
    /\ Untouched

Basket(p, observations) ==
    RepairBasket(Head(Selected(p)), threads[p].scored[1].score, observations)

(* Nothing to sell while stopped or without observations.                  *)
BasketEarly(p) ==
    /\ At(p, "basket")
    /\ IF threads[p].scored[1].score.stopped \/ Observed(p) = {}
       THEN Reply(p, 200, EmptyBasket)
       ELSE Go(p, "satisfied")
    /\ Untouched

BasketReply(p) ==
    /\ At(p, "satisfied_loop")
    /\ AllSeen(p)
    /\ Reply(p, 200, Basket(p, threads[p].seen))
    /\ Untouched

-----------------------------------------------------------------------------
(* The next test, and the signals to measure: one look into the            *)
(* observations per test, per signal.                                      *)
NextCheck(p) ==
    LET tests == TestsOf(Selected(p))
        k     == threads[p].k
    IN  /\ At(p, "next")
        /\ IF k > Len(tests) THEN Reply(p, 200, NoTest.id)
           ELSE IF tests[k].id \notin Observed(p) THEN Reply(p, 200, tests[k].id)
           ELSE Become(p, [threads[p] EXCEPT !.k = k + 1])
        /\ Untouched

SignalCheck(p) ==
    LET gs   == Selected(p)
        seen == threads[p].seen
        open == SignalsOf(gs) \ DOMAIN seen
    IN  /\ At(p, "signals")
        /\ IF open = {} THEN Reply(p, 200, Range(seen))
           ELSE \E signal \in open :
                  Become(p, [threads[p] EXCEPT
                      !.seen = Put(@, signal, Measurement(gs, signal, Observed(p)))])
        /\ Untouched

-----------------------------------------------------------------------------
(* GET /v1/analytics/demand: a walk over all sessions. A session whose     *)
(* codes match no graph counts for no family.                              *)
NoFamily == "no_family"
PrimaryOf(codes) == IF GraphsForDtcs(codes) = << >> THEN NoFamily ELSE Primary(codes)

WalkBegin(p) ==
    /\ At(p, "walk")
    /\ Become(p, [threads[p] EXCEPT !.at = "walk_loop", !.size = Cardinality(DOMAIN sessions)])
    /\ Untouched

Walked(p) == Cardinality(DOMAIN sessions) = threads[p].size

WalkNextAllMatched(p) ==
    /\ At(p, "walk_loop") /\ Walked(p)
    /\ \E sid \in DOMAIN sessions \ DOMAIN threads[p].seen :
          Become(p, [threads[p] EXCEPT
              !.seen = Put(@, sid, ToSet(Families(GraphsForDtcs(sessions[sid].dtcs))))])
    /\ Untouched

WalkNext(p) ==
    /\ At(p, "walk_loop") /\ Walked(p)
    /\ \E sid \in DOMAIN sessions \ DOMAIN threads[p].seen :
          Become(p, [threads[p] EXCEPT !.seen = Put(@, sid, {PrimaryOf(sessions[sid].dtcs)})])
    /\ Untouched

WalkChanged(p) ==
    /\ At(p, "walk_loop") /\ ~Walked(p)
    /\ ServerError(p)
    /\ Untouched

(* Families with few sessions are only counted.                            *)
Released(of) ==
    LET families == (UNION Range(of)) \ {NoFamily}
        Sessions(f) == Cardinality({sid \in DOMAIN of : f \in of[sid]})
        released == {f \in families : Sessions(f) >= PrivacyCount}
    IN  [released |-> released, suppressed |-> Cardinality(families \ released)]

WalkEnd(p) ==
    /\ At(p, "walk_loop") /\ Walked(p)
    /\ DOMAIN threads[p].seen = DOMAIN sessions
    /\ Reply(p, 200, Released(threads[p].seen))
    /\ Untouched

-----------------------------------------------------------------------------
Handle(p) ==
    \/ Create(p) \/ SetVin(p) \/ SetDtcs(p) \/ Respond(p) \/ Record(p) \/ Flag(p)
    \/ PostOutcome(p) \/ SetFreezeFrame(p)
    \/ SelectGraphs(p) \/ ReadEvidence(p)
    \/ FlagsBegin(p) \/ FlagsStop(p) \/ FlagsChanged(p) \/ FlagsClear(p)
    \/ ScanBegin(p) \/ ScanChanged(p) \/ ScanNext(p) \/ ScanEnd(p)
    \/ Collate(p) \/ BasketEarly(p) \/ BasketReply(p)
    \/ NextCheck(p) \/ SignalCheck(p)
    \/ WalkBegin(p) \/ WalkNext(p) \/ WalkChanged(p) \/ WalkEnd(p)

SessionNext == \E p \in Threads :
    \/ \E req \in Requests : Begin(p, req)
    \/ Handle(p) /\ UNCHANGED served

SessionSpec == SessionInit /\ [][SessionNext]_vars

-----------------------------------------------------------------------------
(* Answered 200.                                                           *)
Answers(p, op) == threads[p].at = "done" /\ threads[p].status = 200 /\ threads[p].req.op = op

(* Requests about the same session answered before p's began.              *)
Earlier(p) == {req \in threads[p].before : req.sid = threads[p].req.sid}

(* What was answered "recorded" is kept, and every answer to a request     *)
(* that begins afterwards uses it, whatever codes are posted and whoever   *)
(* else writes: each score of a diagnosis or basket weighs it, the next    *)
(* test is another one, its signals count as acquired (main.py             *)
(* add_observation against get_diagnosis, get_next_test and the rest).     *)
RecordedIsKept ==
    /\ \A req \in acked : req.test \in DOMAIN sessions[req.sid].observations
    /\ \A p \in Threads :
          /\ Answers(p, "diagnosis") \/ Answers(p, "basket") =>
                \A i \in DOMAIN threads[p].scored :
                    \/ threads[p].scored[i].score.stopped
                    \/ \A req \in Earlier(p) : req.test \in threads[p].scored[i].used
          /\ Answers(p, "next") => \A req \in Earlier(p) : threads[p].reply # req.test
          /\ Answers(p, "signals") =>
                \A a \in threads[p].reply : \A req \in Earlier(p) :
                    a.test = req.test => a.acquired

StoppedIn(p, gs, flags) ==
    \A i \in DOMAIN gs : Stops(gs[i], flags) =>
        /\ threads[p].scored[i].score.stopped
        /\ threads[p].req.op = "basket" => threads[p].reply = EmptyBasket

(* A stop-driving flag that was answered "recorded" stops every graph that *)
(* lists it in all later diagnoses, and leaves nothing to sell, also when  *)
(* other flags come in while the flags are looked through (engine.py       *)
(* score, main.py add_observation).                                        *)
StopSticks ==
    \A p \in Threads : Answers(p, "diagnosis") \/ Answers(p, "basket") =>
        StoppedIn(p, Selected(p), UNION {req.flags : req \in Earlier(p)})

(* What one request after another would be answered.                       *)
Expected(req) ==
    LET s  == sessions[req.sid]
        gs == GraphsForDtcs(s.dtcs)
    IN  CASE req.op = "diagnosis" ->
                 [diagnoses |-> ScoreAll(gs, s.observations, s.flags, s.dtcs),
                  freezeFrame |-> s.freezeFrame]
          [] req.op = "basket" ->
                 RepairBasket(Head(gs), Score(Head(gs), s.observations, s.flags, s.dtcs), s.observations)
          [] req.op = "next" -> NextTest(gs, DOMAIN s.observations).id
          [] req.op = "signals" -> RequiredSignals(gs, DOMAIN s.observations)
          [] req.op = "demand" -> Released([i \in DOMAIN sessions |-> {PrimaryOf(sessions[i].dtcs)}])

AnswersAgree ==
    \A p \in Threads :
        /\ threads[p].at \notin {"idle", "done"} /\ threads'[p].at = "done"
        /\ threads[p].began = version
        /\ threads[p].req.op \in {"diagnosis", "basket", "next", "signals", "demand"}
        => \/ /\ threads'[p].status = 200
              /\ threads'[p].reply = Expected(threads[p].req)
           \/ /\ threads'[p].status = 422
              /\ GraphsForDtcs(Session(p).dtcs) = << >>

(* A request no write of another thread falls into is answered as the      *)
(* engine defines it for the state of the session: the loops, the second   *)
(* reading of the codes and the intermediate results make no difference    *)
(* (main.py's handlers over engine.py, one element at a time).             *)
UndisturbedAgrees == [][AnswersAgree]_vars

(* A family whose count the demand analytics releases was the primary      *)
(* finding of that many different sessions, also when codes change while   *)
(* the sessions are walked (main.py analytics_demand, "suppressed (minimum *)
(* privacy count)").                                                       *)
DemandIsPrivate ==
    \A p \in Threads : Answers(p, "demand") =>
        \A f \in threads[p].reply.released :
            Cardinality({h \in held : h[2] = f}) >= PrivacyCount
=============================================================================
