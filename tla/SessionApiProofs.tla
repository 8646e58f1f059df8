-------------------------- MODULE SessionApiProofs --------------------------
(***************************************************************************)
(* Theorems about the HTTP API under overlapping requests, for every set   *)
(* of threads, requests and graphs and any number of requests served.      *)
(***************************************************************************)
EXTENDS SessionApi, Lists

(* The keys of a handler's locals.                                         *)
LocalKeys == {"at", "req", "began", "before", "by", "codes", "flags", "size", "seen",
              "scored", "k", "status", "reply"}

IsLocals(l) == l = [key \in LocalKeys |-> l[key]]

(* Where the handler of a request can be.                                  *)
ScoreSteps == {"flags", "flag_loop", "scan", "scan_loop"}
SellSteps == {"basket", "satisfied", "satisfied_loop"}

Steps(op) ==
    {"done"} \cup
    CASE op = "vehicle" -> {"vin", "dtcs", "respond"}
      [] op = "observe" -> {"graphs", "record", "flag"}
      [] op = "diagnosis" -> {"graphs", "evidence", "collate"} \cup ScoreSteps
      [] op = "basket" -> {"graphs", "evidence"} \cup ScoreSteps \cup SellSteps
      [] op \in {"next", "signals"} -> {"graphs", op}
      [] op = "demand" -> {"walk", "walk_loop"}
      [] op \in {"create", "outcome", "freeze"} -> {op}

(* The flags a later answer must respect.                                  *)
EarlierFlags(p) == UNION {req.flags : req \in Earlier(p)}

-----------------------------------------------------------------------------
(* The shared state: sessions are dictionaries, what was answered          *)
(* "recorded" is in them, and held is the history it should be.            *)
SharedInv ==
    /\ sessions = [i \in DOMAIN sessions |-> sessions[i]]
    /\ IsFiniteSet(DOMAIN sessions)
    /\ \A i \in DOMAIN sessions : IsSession(sessions[i])
    /\ \A req \in acked :
          /\ req \in Requests /\ req.op = "observe" /\ req.sid \in DOMAIN sessions
          /\ req.test \in DOMAIN sessions[req.sid].observations
          /\ req.flags \subseteq sessions[req.sid].flags
    /\ IsFiniteSet(held)
    /\ \A i \in DOMAIN sessions : Holding(sessions[i].dtcs, i) \subseteq held
    /\ threads = [p \in Threads |-> threads[p]]

(* A handler between two steps.                                            *)
ThreadInv(p) ==
    LET l == threads[p]
    IN  \/ l = Idle
        \/ /\ IsLocals(l) /\ l.req \in Requests /\ l.at \in Steps(l.req.op)
           /\ l.before \subseteq acked
           /\ l.at # "done" /\ l.req.op \notin {"create", "demand"} => l.req.sid \in DOMAIN sessions
           /\ l.at = "flag" => l.req.test \in DOMAIN sessions[l.req.sid].observations

(* Scoring: every score so far used what was recorded earlier or is        *)
(* stopped, and no earlier stop was overlooked.                            *)
ScoreInv(p) ==
    LET l == threads[p]
        gs == Selected(p)
    IN  l # Idle /\ l.req.op \in {"diagnosis", "basket"} =>
          /\ IsList(l.scored)
          /\ \A i \in DOMAIN l.scored :
                /\ \/ l.scored[i].score.stopped
                   \/ \A req \in Earlier(p) : req.test \in l.scored[i].used
                /\ Stops(gs[i], EarlierFlags(p)) => l.scored[i].score.stopped
          /\ l.at \in {"graphs", "evidence"} => l.scored = << >> /\ l.k = 1
          /\ l.at \in ScoreSteps => /\ l.k = Len(l.scored) + 1
                                    /\ l.req.op = "basket" => l.scored = << >>
          /\ l.at = "flag_loop" => EarlierFlags(p) \subseteq l.flags
          /\ l.at \in {"scan", "scan_loop"} => ~Stops(gs[l.k], EarlierFlags(p))
          /\ l.at = "collate" => Len(l.scored) = Len(gs)
          /\ l.at \in SellSteps => Len(l.scored) = 1
          /\ l.at \in {"satisfied", "satisfied_loop"} => ~l.scored[1].score.stopped
          /\ l.at = "done" /\ l.status = 200 => StoppedIn(p, gs, EarlierFlags(p))

(* Looking for the next test or signal.                                    *)
SearchInv(p) ==
    LET l == threads[p]
    IN  l # Idle =>
          /\ l.req.op = "next" /\ l.at = "done" /\ l.status = 200 =>
                \A req \in Earlier(p) : l.reply # req.test
          /\ l.req.op = "signals" =>
                /\ \A x \in DOMAIN l.seen : \A req \in Earlier(p) :
                      l.seen[x].test = req.test => l.seen[x].acquired
                /\ l.at = "done" /\ l.status = 200 => l.reply = Range(l.seen)

(* Walking the sessions: a family is counted for sessions that held it.    *)
Counted(of) ==
    /\ DOMAIN of \subseteq DOMAIN sessions
    /\ \A sid \in DOMAIN of : \A f \in of[sid] \ {NoFamily} : << sid, f >> \in held

WalkInv(p) ==
    LET l == threads[p]
    IN  l # Idle /\ l.req.op = "demand" =>
          /\ Counted(l.seen)
          /\ l.at = "done" /\ l.status = 200 => l.reply = Released(l.seen)

SessionInv ==
    /\ SharedInv
    /\ \A p \in Threads : ThreadInv(p) /\ ScoreInv(p) /\ SearchInv(p) /\ WalkInv(p)

(* What only ever grows: sessions, their observations, what was answered   *)
(* and the history of primary findings.                                    *)
Grows ==
    /\ DOMAIN sessions \subseteq DOMAIN sessions'
    /\ \A i \in DOMAIN sessions :
          DOMAIN sessions[i].observations \subseteq DOMAIN (sessions'[i]).observations
    /\ acked \subseteq acked' /\ held \subseteq held'

LocalInv(p) == ThreadInv(p) /\ ScoreInv(p) /\ SearchInv(p) /\ WalkInv(p)

-----------------------------------------------------------------------------
(* What GraphsForDtcs selects is a list.                                   *)
LEMMA SelectedIsList ==
    ASSUME NEW codes
    PROVE  \E n \in Nat : \E g : GraphsForDtcs(codes) = [i \in 1 .. n |-> g[i]]
  <1> DEFINE matched == {k \in DOMAIN Graphs : Matching(k, codes) > 0}
             before(j, k) == \/ Matching(j, codes) > Matching(k, codes)
                             \/ Matching(j, codes) = Matching(k, codes) /\ j < k
             order == InOrder(matched, before)
             g == [i \in DOMAIN order |-> Graphs[order[i]]]
  <1>1. IsFiniteSet(matched)
    BY SessionAssumption, FS_Subset
  <1>2. Cardinality(matched) \in Nat
    BY <1>1, FS_CardinalityType
  <1>3. DOMAIN order = 1 .. Cardinality(matched)
    BY DEF InOrder
  <1>4. GraphsForDtcs(codes) = g
    BY DEF GraphsForDtcs, GraphsIn
  <1> QED
    BY <1>2, <1>3, <1>4

(* No codes, no graph.                                                     *)
LEMMA NoGraphs ==
    GraphsForDtcs({}) = << >>
  <1> DEFINE matched == {k \in DOMAIN Graphs : Matching(k, {}) > 0}
             before(j, k) == \/ Matching(j, {}) > Matching(k, {})
                             \/ Matching(j, {}) = Matching(k, {}) /\ j < k
  <1>1. matched = {}
    BY FS_EmptySet DEF Matching
  <1>2. Cardinality(matched) = 0
    BY <1>1, FS_EmptySet
  <1> DEFINE order == InOrder(matched, before)
             g == [i \in DOMAIN order |-> Graphs[order[i]]]
  <1>3. DOMAIN order = 1 .. 0
    BY <1>2 DEF InOrder
  <1>4. GraphsForDtcs({}) = g
    BY DEF GraphsForDtcs, GraphsIn
  <1>5. DOMAIN g = 1 .. 0
    BY <1>3
  <1> HIDE DEF g, order, before, matched
  <1>6. g = [i \in 1 .. 0 |-> g[i]]
    BY <1>5 DEF g
  <1>7. g \in Seq({})
    BY <1>6, IsASeq
  <1>8. g = << >>
    BY <1>5, <1>7, EmptySeq
  <1> QED
    BY <1>4, <1>8

-----------------------------------------------------------------------------
(* A handler's invariant survives what the others do.                      *)
LEMMA OthersKeep ==
    ASSUME NEW q \in Threads, LocalInv(q), Grows, threads'[q] = threads[q]
    PROVE  LocalInv(q)'
  <1>1. ThreadInv(q)'
    <2> DEFINE l == threads[q]
    <2>1. CASE l = Idle
      BY <2>1 DEF ThreadInv
    <2>2. CASE l # Idle
      <3>1. IsLocals(l)' /\ l'.req \in Requests /\ l'.at \in Steps(l'.req.op)
        BY <2>2 DEF LocalInv, ThreadInv, IsLocals
      <3>2. l'.before \subseteq acked'
        BY <2>2 DEF LocalInv, ThreadInv, Grows
      <3>3. l'.at # "done" /\ l'.req.op \notin {"create", "demand"} => l'.req.sid \in DOMAIN sessions'
        BY <2>2 DEF LocalInv, ThreadInv, Grows
      <3>4. l'.at = "flag" => l'.req.test \in DOMAIN (sessions'[l'.req.sid]).observations
        <4> SUFFICES ASSUME l.at = "flag" PROVE l.req.test \in DOMAIN (sessions'[l.req.sid]).observations
          OBVIOUS
        <4>1. l.req.test \in DOMAIN sessions[l.req.sid].observations
          BY <2>2 DEF LocalInv, ThreadInv
        <4>2. l.at \in Steps(l.req.op) /\ l.req \in Requests
          BY <2>2 DEF LocalInv, ThreadInv
        <4>3. l.req.op = "observe"
          BY <4>2, SessionAssumption DEF Steps, ScoreSteps, SellSteps
        <4>4. l.req.sid \in DOMAIN sessions
          BY <2>2, <4>3 DEF LocalInv, ThreadInv
        <4> QED
          BY <4>1, <4>4 DEF Grows
      <3> QED
        BY <3>1, <3>2, <3>3, <3>4 DEF ThreadInv
    <2> QED
      BY <2>1, <2>2
  <1>2. Earlier(q)' = Earlier(q) /\ EarlierFlags(q)' = EarlierFlags(q) /\ Selected(q)' = Selected(q)
    BY DEF Earlier, EarlierFlags, Selected
  <1>3. ScoreInv(q)'
    BY <1>2 DEF LocalInv, ScoreInv, StoppedIn
  <1>4. SearchInv(q)'
    BY <1>2 DEF LocalInv, SearchInv
  <1>5. WalkInv(q)'
    BY DEF LocalInv, WalkInv, Counted, Grows
  <1> QED
    BY <1>1, <1>3, <1>4, <1>5 DEF LocalInv

(* A step that leaves the shared state alone.                              *)
LEMMA UntouchedShared ==
    ASSUME SharedInv, Untouched, NEW p \in Threads, NEW l, Become(p, l)
    PROVE  /\ SharedInv' /\ Grows /\ threads'[p] = l
           /\ \A q \in Threads \ {p} : threads'[q] = threads[q]
  BY DEF SharedInv, Untouched, Become, Grows

(* A write to one session that loses none of its observations and flags.   *)
LEMMA WriteShared ==
    ASSUME SharedInv, NEW p \in Threads, NEW s, NEW l,
           threads[p].req.sid \in DOMAIN sessions, Write(p, s), Become(p, l), IsSession(s),
           DOMAIN Session(p).observations \subseteq DOMAIN s.observations,
           Session(p).flags \subseteq s.flags,
           held' = held \cup Holding(s.dtcs, threads[p].req.sid),
           \/ acked' = acked
           \/ /\ acked' = acked \cup {threads[p].req}
              /\ threads[p].req \in Requests /\ threads[p].req.op = "observe"
              /\ threads[p].req.test \in DOMAIN s.observations
              /\ threads[p].req.flags \subseteq s.flags
    PROVE  /\ SharedInv' /\ Grows /\ threads'[p] = l
           /\ \A q \in Threads \ {p} : threads'[q] = threads[q]
  <1> DEFINE sid == threads[p].req.sid
  <1>1. sessions' = [sessions EXCEPT ![sid] = s] /\ DOMAIN sessions' = DOMAIN sessions
        /\ sessions'[sid] = s /\ \A i \in DOMAIN sessions \ {sid} : sessions'[i] = sessions[i]
    BY DEF SharedInv, Write
  <1>2. threads'[p] = l /\ (\A q \in Threads \ {p} : threads'[q] = threads[q])
        /\ threads' = [q \in Threads |-> threads'[q]]
    BY DEF SharedInv, Become
  <1>3. Grows
    BY <1>1 DEF Grows, Session
  <1>4. IsFiniteSet(held')
    BY FS_Singleton, FS_EmptySet, FS_Union DEF SharedInv, Holding
  <1>5. \A i \in DOMAIN sessions' : Holding(sessions'[i].dtcs, i) \subseteq held'
    BY <1>1 DEF SharedInv
  <1>6. \A req \in acked' :
          /\ req \in Requests /\ req.op = "observe" /\ req.sid \in DOMAIN sessions'
          /\ req.test \in DOMAIN (sessions'[req.sid]).observations
          /\ req.flags \subseteq (sessions'[req.sid]).flags
    BY <1>1 DEF SharedInv, Session
  <1>7. \A i \in DOMAIN sessions' : IsSession(sessions'[i])
    BY <1>1 DEF SharedInv
  <1>8. sessions' = [i \in DOMAIN sessions' |-> sessions'[i]]
    BY <1>1 DEF SharedInv
  <1> QED
    BY <1>1, <1>2, <1>3, <1>4, <1>5, <1>6, <1>7, <1>8 DEF SharedInv

(* Where a handler's step is tells that it handles a request, and of what  *)
(* kind.                                                                   *)
LEMMA AtStep ==
    ASSUME NEW p \in Threads, ThreadInv(p), threads[p].at \notin {"idle", "done"}
    PROVE  /\ threads[p] # Idle /\ IsLocals(threads[p])
           /\ threads[p].req \in Requests /\ threads[p].at \in Steps(threads[p].req.op)
           /\ threads[p].before \subseteq acked
           /\ threads[p].req.op \notin {"create", "demand"} => threads[p].req.sid \in DOMAIN sessions
  BY DEF ThreadInv, Idle

LEMMA OpOfStep ==
    ASSUME NEW req \in Requests, NEW step \in Steps(req.op)
    PROVE  /\ step \in {"vin", "dtcs", "respond"} => req.op = "vehicle"
           /\ step \in {"record", "flag"} => req.op = "observe"
           /\ step \in ScoreSteps \cup {"evidence"} => req.op \in {"diagnosis", "basket"}
           /\ step = "collate" => req.op = "diagnosis"
           /\ step \in SellSteps => req.op = "basket"
           /\ step \in {"walk", "walk_loop"} => req.op = "demand"
           /\ step \in {"create", "outcome", "freeze", "next", "signals"} => req.op = step
           /\ step = "graphs" => req.op \in {"observe", "diagnosis", "basket", "next", "signals"}
  BY SessionAssumption DEF Steps, ScoreSteps, SellSteps

(* The writers' handlers keep nothing but where they are.                  *)
LEMMA WriterKeeps ==
    ASSUME NEW p \in Threads, ThreadInv(p), Grows, NEW l, threads'[p] = l,
           threads[p].at \notin {"idle", "done"},
           IsLocals(l), l.req = threads[p].req, l.before = threads[p].before,
           l.req.op \in {"create", "vehicle", "observe", "outcome", "freeze"},
           l.at \in Steps(l.req.op),
           l.at = "flag" => l.req.test \in DOMAIN (sessions'[l.req.sid]).observations
    PROVE  LocalInv(p)'
  <1>1. ThreadInv(p)'
    BY AtStep DEF ThreadInv, Grows
  <1> QED
    BY <1>1 DEF LocalInv, ScoreInv, SearchInv, WalkInv

-----------------------------------------------------------------------------
(* What a step of p must establish.                                        *)
StepOk(p) ==
    /\ SharedInv' /\ Grows /\ LocalInv(p)'
    /\ \A q \in Threads \ {p} : threads'[q] = threads[q]

LEMMA BeginStep ==
    ASSUME SessionInv, NEW p \in Threads, NEW req \in Requests, Begin(p, req)
    PROVE  StepOk(p)
  <1> DEFINE unknown == req.op \notin {"create", "demand"} /\ req.sid \notin DOMAIN sessions
             l == IF unknown THEN Locals(req, "done", 404) ELSE Locals(req, FirstStep(req.op), 0)
  <1>1. ASSUME NEW step, NEW status
        PROVE  LET m == Locals(req, step, status)
               IN  /\ IsLocals(m) /\ m.req = req /\ m.before = acked /\ m.scored = << >> /\ m.k = 1
                   /\ m.seen = << >> /\ m.status = status /\ m.at = step
    BY DEF Locals, IsLocals, LocalKeys
  <1>2. /\ IsLocals(l) /\ l.req = req /\ l.before = acked /\ l.scored = << >> /\ l.k = 1
        /\ l.seen = << >> /\ l.status \in {0, 404}
        /\ l.at = IF unknown THEN "done" ELSE FirstStep(req.op)
    BY <1>1
  <1>3. FirstStep(req.op) \in Steps(req.op) \ ({"done", "flag", "collate"} \cup ScoreSteps \cup SellSteps)
    BY SessionAssumption DEF FirstStep, Steps, ScoreSteps, SellSteps
  <1>4. Become(p, l) /\ Untouched
    BY DEF Begin
  <1>5. /\ SharedInv' /\ Grows /\ threads'[p] = l
        /\ \A q \in Threads \ {p} : threads'[q] = threads[q]
    <2> HIDE DEF l
    <2> QED BY <1>4, UntouchedShared DEF SessionInv
  <1> HIDE DEF l
  <1>6. l.at \in Steps(req.op)
    BY <1>2, <1>3 DEF Steps
  <1>7. ThreadInv(p)'
    BY <1>2, <1>3, <1>5, <1>6 DEF ThreadInv, Grows
  <1>8. ScoreInv(p)'
    <2>1. DOMAIN l.scored = {} /\ IsList(l.scored)
      BY <1>2, EmptyList
    <2>2. l.at \notin {"flag_loop", "scan", "scan_loop", "collate"} \cup ScoreSteps \cup SellSteps
      BY <1>2, <1>3 DEF ScoreSteps, SellSteps
    <2>3. ~(l.at = "done" /\ l.status = 200)
      BY <1>2, <1>3
    <2> QED
      BY <1>2, <1>5, <2>1, <2>2, <2>3 DEF ScoreInv, SellSteps
  <1>9. SearchInv(p)'
    BY <1>2, <1>3, <1>5, EmptyList DEF SearchInv, ToSet, Range
  <1>10. WalkInv(p)'
    BY <1>2, <1>3, <1>5 DEF WalkInv, Counted
  <1> QED
    BY <1>5, <1>7, <1>8, <1>9, <1>10 DEF StepOk, LocalInv

-----------------------------------------------------------------------------
(* The writers.                                                            *)
LEMMA CreateStep ==
    ASSUME SessionInv, NEW p \in Threads, Create(p)
    PROVE  StepOk(p)
  <1> DEFINE l == [threads[p] EXCEPT !.at = "done", !.status = 200, !.reply = NoReply]
             sid == threads[p].req.sid
  <1>1. ThreadInv(p) /\ SharedInv
    BY DEF SessionInv
  <1>2. threads[p].at = "create" /\ Become(p, l)
    BY DEF Create, At, Reply
  <1>3. /\ IsLocals(threads[p]) /\ threads[p].req \in Requests
        /\ threads[p].at \in Steps(threads[p].req.op)
    BY <1>1, <1>2, AtStep
  <1>4. IsLocals(l) /\ l.at = "done" /\ l.req = threads[p].req /\ l.before = threads[p].before
    BY <1>3 DEF IsLocals, LocalKeys
  <1> HIDE DEF l
  <1>5. /\ sid \notin DOMAIN sessions /\ DOMAIN sessions' = DOMAIN sessions \cup {sid}
        /\ sessions'[sid] = NewSession
        /\ \A i \in DOMAIN sessions : sessions'[i] = sessions[i]
        /\ sessions' = [i \in DOMAIN sessions' |-> sessions'[i]]
        /\ acked' = acked /\ held' = held
    BY DEF Create, Put
  <1>6. Grows
    BY <1>5 DEF Grows
  <1>7. SharedInv'
    <2>1. IsFiniteSet(DOMAIN sessions')
      <3>1. IsFiniteSet({sid}) /\ IsFiniteSet(DOMAIN sessions)
        BY <1>1, FS_Singleton DEF SharedInv
      <3>2. IsFiniteSet(DOMAIN sessions \cup {sid})
        BY <3>1, FS_Union
      <3> QED BY <1>5, <3>2
    <2>2. Holding(NewSession.dtcs, sid) \subseteq held
      <3>1. NewSession.dtcs = {}
        BY DEF NewSession
      <3>2. GraphsForDtcs({}) = << >>
        BY NoGraphs
      <3> QED BY <3>1, <3>2 DEF Holding
    <2>3. IsSession(NewSession)
      BY DEF IsSession, NewSession
    <2>4. threads' = [q \in Threads |-> threads'[q]]
      BY <1>1, <1>2 DEF SharedInv, Become
    <2> QED
      BY <1>1, <1>5, <2>1, <2>2, <2>3, <2>4 DEF SharedInv
  <1>8. threads'[p] = l /\ \A q \in Threads \ {p} : threads'[q] = threads[q]
    BY <1>1, <1>2 DEF SharedInv, Become
  <1>9. l.req.op = "create" /\ l.at \in Steps(l.req.op)
    BY <1>2, <1>3, <1>4, OpOfStep DEF Steps
  <1>10. LocalInv(p)'
    BY <1>1, <1>2, <1>4, <1>6, <1>8, <1>9, WriterKeeps
  <1> QED
    BY <1>6, <1>7, <1>8, <1>10 DEF StepOk

(* The locals after a step: only what is assigned changes.                 *)
LEMMA Moved ==
    ASSUME NEW p \in Threads, threads = [q \in Threads |-> threads[q]], IsLocals(threads[p]),
           NEW step, Go(p, step)
    PROVE  LET l == threads'[p]
           IN  /\ IsLocals(l) /\ l.at = step /\ l.req = threads[p].req
               /\ l.before = threads[p].before /\ l.by = threads[p].by /\ l.codes = threads[p].codes
               /\ l.flags = threads[p].flags /\ l.seen = threads[p].seen
               /\ l.scored = threads[p].scored /\ l.k = threads[p].k
  <1> DEFINE n == [threads[p] EXCEPT !.at = step]
  <1>1. threads'[p] = n
    BY DEF Go, Become
  <1>2. /\ IsLocals(n) /\ n.at = step /\ n.req = threads[p].req
        /\ n.before = threads[p].before /\ n.by = threads[p].by /\ n.codes = threads[p].codes
        /\ n.flags = threads[p].flags /\ n.seen = threads[p].seen
        /\ n.scored = threads[p].scored /\ n.k = threads[p].k
    BY DEF IsLocals, LocalKeys
  <1> HIDE DEF n
  <1> QED
    BY <1>1, <1>2

LEMMA Replied ==
    ASSUME NEW p \in Threads, threads = [q \in Threads |-> threads[q]], IsLocals(threads[p]),
           NEW status, NEW reply, Reply(p, status, reply)
    PROVE  LET l == threads'[p]
           IN  /\ IsLocals(l) /\ l.at = "done" /\ l.status = status /\ l.reply = reply
               /\ l.req = threads[p].req /\ l.before = threads[p].before
               /\ l.by = threads[p].by /\ l.seen = threads[p].seen
               /\ l.scored = threads[p].scored /\ l.k = threads[p].k
  <1> DEFINE n == [threads[p] EXCEPT !.at = "done", !.status = status, !.reply = reply]
  <1>1. threads'[p] = n
    BY DEF Reply, Become
  <1>2. /\ IsLocals(n) /\ n.at = "done" /\ n.status = status /\ n.reply = reply
        /\ n.req = threads[p].req /\ n.before = threads[p].before
        /\ n.by = threads[p].by /\ n.seen = threads[p].seen
        /\ n.scored = threads[p].scored /\ n.k = threads[p].k
    BY DEF IsLocals, LocalKeys
  <1> HIDE DEF n
  <1> QED
    BY <1>1, <1>2

LEMMA WriterGoes ==
    ASSUME NEW p \in Threads, ThreadInv(p), Grows, threads = [q \in Threads |-> threads[q]],
           IsLocals(threads[p]), threads[p].at \notin {"idle", "done"},
           threads[p].req.op \in {"create", "vehicle", "observe", "outcome", "freeze"},
           NEW step \in Steps(threads[p].req.op), Go(p, step),
           step = "flag" => threads[p].req.test \in DOMAIN (sessions'[threads[p].req.sid]).observations
    PROVE  LocalInv(p)'
  <1> DEFINE l == threads'[p]
  <1>1. IsLocals(l) /\ l.at = step /\ l.req = threads[p].req /\ l.before = threads[p].before
    BY Moved
  <1> HIDE DEF l
  <1>2. threads'[p] = l
    BY DEF l
  <1> QED
    BY <1>1, <1>2, WriterKeeps

LEMMA WriterReplies ==
    ASSUME NEW p \in Threads, ThreadInv(p), Grows, threads = [q \in Threads |-> threads[q]],
           IsLocals(threads[p]), threads[p].at \notin {"idle", "done"},
           threads[p].req.op \in {"create", "vehicle", "observe", "outcome", "freeze"},
           NEW status, NEW reply, Reply(p, status, reply)
    PROVE  LocalInv(p)'
  <1> DEFINE l == threads'[p]
  <1>1. IsLocals(l) /\ l.at = "done" /\ l.req = threads[p].req /\ l.before = threads[p].before
    BY Replied
  <1> HIDE DEF l
  <1>2. threads'[p] = l
    BY DEF l
  <1>3. l.at \in Steps(l.req.op)
    BY <1>1 DEF Steps
  <1> QED
    BY <1>1, <1>2, <1>3, WriterKeeps

(* A handler between two steps has a session, and its step tells what it   *)
(* handles.                                                                *)
LEMMA Handling ==
    ASSUME SessionInv, NEW p \in Threads, threads[p].at \notin {"idle", "done"}
    PROVE  LET l == threads[p]
               s == Session(p)
           IN  /\ SharedInv /\ LocalInv(p) /\ ThreadInv(p) /\ threads = [q \in Threads |-> threads[q]]
               /\ l # Idle /\ IsLocals(l) /\ l.req \in Requests /\ l.before \subseteq acked
               /\ l.at \in {"vin", "dtcs", "respond"} => l.req.op = "vehicle"
               /\ l.at \in {"record", "flag"} => l.req.op = "observe"
               /\ l.at \in ScoreSteps \cup {"evidence"} => l.req.op \in {"diagnosis", "basket"}
               /\ l.at = "collate" => l.req.op = "diagnosis"
               /\ l.at \in SellSteps => l.req.op = "basket"
               /\ l.at \in {"walk", "walk_loop"} => l.req.op = "demand"
               /\ l.at \in {"create", "outcome", "freeze", "next", "signals"} => l.req.op = l.at
               /\ l.at = "graphs" => l.req.op \in {"observe", "diagnosis", "basket", "next", "signals"}
               /\ l.req.op \notin {"create", "demand"} =>
                     /\ l.req.sid \in DOMAIN sessions /\ IsSession(s)
                     /\ Holding(s.dtcs, l.req.sid) \subseteq held
  <1>1. SharedInv /\ LocalInv(p) /\ ThreadInv(p) /\ threads = [q \in Threads |-> threads[q]]
    BY DEF SessionInv, SharedInv, LocalInv
  <1>2. /\ threads[p] # Idle /\ IsLocals(threads[p])
        /\ threads[p].req \in Requests /\ threads[p].at \in Steps(threads[p].req.op)
        /\ threads[p].before \subseteq acked
        /\ threads[p].req.op \notin {"create", "demand"} => threads[p].req.sid \in DOMAIN sessions
    BY <1>1 DEF ThreadInv, Idle
  <1>3. threads[p].req.op \notin {"create", "demand"} =>
          /\ IsSession(Session(p))
          /\ Holding(Session(p).dtcs, threads[p].req.sid) \subseteq held
    BY <1>1, <1>2 DEF SharedInv, Session
  <1>4. threads[p].at \in Steps(threads[p].req.op) /\ threads[p].req \in Requests
    BY <1>2
  <1> DEFINE step == threads[p].at
             op == threads[p].req.op
  <1>5. /\ step \in {"vin", "dtcs", "respond"} => op = "vehicle"
        /\ step \in {"record", "flag"} => op = "observe"
        /\ step \in ScoreSteps \cup {"evidence"} => op \in {"diagnosis", "basket"}
        /\ step = "collate" => op = "diagnosis"
        /\ step \in SellSteps => op = "basket"
        /\ step \in {"walk", "walk_loop"} => op = "demand"
        /\ step \in {"create", "outcome", "freeze", "next", "signals"} => op = step
        /\ step = "graphs" => op \in {"observe", "diagnosis", "basket", "next", "signals"}
    BY <1>4, OpOfStep
  <1> QED
    BY <1>1, <1>2, <1>3, <1>5

LEMMA SetVinStep ==
    ASSUME SessionInv, NEW p \in Threads, SetVin(p)
    PROVE  StepOk(p)
  <1> DEFINE s == [Session(p) EXCEPT !.vin = threads[p].req.vin]
  <1>1. threads[p].at = "vin" /\ Write(p, s) /\ Go(p, "dtcs") /\ UNCHANGED << acked, held >>
    BY DEF SetVin, At
  <1>2. /\ SharedInv /\ ThreadInv(p) /\ threads = [q \in Threads |-> threads[q]]
        /\ IsLocals(threads[p]) /\ threads[p].req.op = "vehicle"
        /\ threads[p].req.sid \in DOMAIN sessions /\ IsSession(Session(p))
        /\ Holding(Session(p).dtcs, threads[p].req.sid) \subseteq held
    BY <1>1, Handling
  <1>3. /\ IsSession(s) /\ s.dtcs = Session(p).dtcs /\ s.flags = Session(p).flags
        /\ s.observations = Session(p).observations
    BY <1>2 DEF IsSession, NewSession
  <1> HIDE DEF s
  <1>4. SharedInv' /\ Grows /\ \A q \in Threads \ {p} : threads'[q] = threads[q]
    BY <1>1, <1>2, <1>3, WriteShared DEF Go
  <1>5. LocalInv(p)'
    BY <1>1, <1>2, <1>4, WriterGoes DEF Steps
  <1> QED
    BY <1>4, <1>5 DEF StepOk

LEMMA SetDtcsStep ==
    ASSUME SessionInv, NEW p \in Threads, SetDtcs(p)
    PROVE  StepOk(p)
  <1> DEFINE s == [Session(p) EXCEPT !.dtcs = threads[p].req.dtcs]
  <1>1. threads[p].at = "dtcs" /\ acked' = acked
    BY DEF SetDtcs, At
  <1>2. /\ SharedInv /\ ThreadInv(p) /\ threads = [q \in Threads |-> threads[q]]
        /\ IsLocals(threads[p]) /\ threads[p].req.op = "vehicle"
        /\ threads[p].req.sid \in DOMAIN sessions /\ IsSession(Session(p))
    BY <1>1, Handling
  <1>3. /\ IsSession(s) /\ s.dtcs = threads[p].req.dtcs /\ s.flags = Session(p).flags
        /\ s.observations = Session(p).observations
    BY <1>2 DEF IsSession, NewSession
  <1>4. CASE threads[p].req.valid
    <2>1. Write(p, s) /\ Go(p, "respond") /\ held' = held \cup Holding(s.dtcs, threads[p].req.sid)
      BY <1>3, <1>4 DEF SetDtcs
    <2> HIDE DEF s
    <2>2. SharedInv' /\ Grows /\ \A q \in Threads \ {p} : threads'[q] = threads[q]
      BY <1>1, <1>2, <1>3, <2>1, WriteShared DEF Go
    <2>3. LocalInv(p)'
      BY <1>1, <1>2, <2>1, <2>2, WriterGoes DEF Steps
    <2> QED
      BY <2>2, <2>3 DEF StepOk
  <1>5. CASE ~threads[p].req.valid
    <2>1. Reply(p, 422, NoReply) /\ Untouched
      BY <1>1, <1>5 DEF SetDtcs, Untouched, Refuse
    <2>2. SharedInv' /\ Grows /\ \A q \in Threads \ {p} : threads'[q] = threads[q]
      BY <1>2, <2>1, UntouchedShared DEF Reply
    <2>3. LocalInv(p)'
      BY <1>1, <1>2, <2>1, <2>2, WriterReplies
    <2> QED
      BY <2>2, <2>3 DEF StepOk
  <1> QED
    BY <1>4, <1>5

LEMMA RespondStep ==
    ASSUME SessionInv, NEW p \in Threads, Respond(p)
    PROVE  StepOk(p)
  <1> DEFINE reply == Families(GraphsForDtcs(Session(p).dtcs))
  <1>1. threads[p].at = "respond" /\ Reply(p, 200, reply) /\ Untouched
    BY DEF Respond, At
  <1> HIDE DEF reply
  <1>2. /\ SharedInv /\ ThreadInv(p) /\ threads = [q \in Threads |-> threads[q]]
        /\ IsLocals(threads[p]) /\ threads[p].req.op = "vehicle"
    BY <1>1, Handling
  <1>3. SharedInv' /\ Grows /\ \A q \in Threads \ {p} : threads'[q] = threads[q]
    BY <1>1, <1>2, UntouchedShared DEF Reply
  <1>4. LocalInv(p)'
    BY <1>1, <1>2, <1>3, WriterReplies
  <1> QED
    BY <1>3, <1>4 DEF StepOk

LEMMA RecordStep ==
    ASSUME SessionInv, NEW p \in Threads, Record(p)
    PROVE  StepOk(p)
  <1> DEFINE req == threads[p].req
             old == Session(p).observations
             new == Put(old, req.test, req.obs)
             s == [Session(p) EXCEPT !.observations = new]
  <1>1. threads[p].at = "record" /\ Write(p, s) /\ Go(p, "flag") /\ UNCHANGED << acked, held >>
    BY DEF Record, At
  <1>2. /\ SharedInv /\ ThreadInv(p) /\ threads = [q \in Threads |-> threads[q]]
        /\ IsLocals(threads[p]) /\ threads[p].req.op = "observe"
        /\ threads[p].req.sid \in DOMAIN sessions /\ IsSession(Session(p))
        /\ Holding(Session(p).dtcs, threads[p].req.sid) \subseteq held
    BY <1>1, Handling
  <1>3. DOMAIN new = DOMAIN old \cup {req.test} /\ new = [t \in DOMAIN new |-> new[t]]
    BY DEF Put
  <1> HIDE DEF new
  <1>4. /\ IsSession(s) /\ s.dtcs = Session(p).dtcs /\ s.flags = Session(p).flags
        /\ s.observations = new
    BY <1>2, <1>3 DEF IsSession, NewSession
  <1> HIDE DEF s
  <1>5. SharedInv' /\ Grows /\ \A q \in Threads \ {p} : threads'[q] = threads[q]
    BY <1>1, <1>2, <1>3, <1>4, WriteShared DEF Go
  <1>6. req.test \in DOMAIN (sessions'[req.sid]).observations
    BY <1>1, <1>2, <1>3, <1>4 DEF Write, SharedInv
  <1>7. LocalInv(p)'
    BY <1>1, <1>2, <1>5, <1>6, WriterGoes DEF Steps
  <1> QED
    BY <1>5, <1>7 DEF StepOk

LEMMA FlagStep ==
    ASSUME SessionInv, NEW p \in Threads, Flag(p)
    PROVE  StepOk(p)
  <1> DEFINE s == [Session(p) EXCEPT !.flags = Session(p).flags \cup threads[p].req.flags]
  <1>1. /\ threads[p].at = "flag" /\ Write(p, s) /\ Reply(p, 200, NoReply)
        /\ acked' = acked \cup {threads[p].req} /\ held' = held
    BY DEF Flag, At
  <1>2. /\ SharedInv /\ ThreadInv(p) /\ threads = [q \in Threads |-> threads[q]]
        /\ IsLocals(threads[p]) /\ threads[p].req.op = "observe" /\ threads[p].req \in Requests
        /\ threads[p].req.sid \in DOMAIN sessions /\ IsSession(Session(p))
        /\ Holding(Session(p).dtcs, threads[p].req.sid) \subseteq held
    BY <1>1, Handling
  <1>3. threads[p].req.test \in DOMAIN Session(p).observations
    BY <1>1, <1>2 DEF ThreadInv, Session, Idle
  <1>4. /\ IsSession(s) /\ s.dtcs = Session(p).dtcs
        /\ s.flags = Session(p).flags \cup threads[p].req.flags
        /\ s.observations = Session(p).observations
    BY <1>2 DEF IsSession, NewSession
  <1> HIDE DEF s
  <1>5. SharedInv' /\ Grows /\ \A q \in Threads \ {p} : threads'[q] = threads[q]
    BY <1>1, <1>2, <1>3, <1>4, WriteShared DEF Reply
  <1>6. LocalInv(p)'
    BY <1>1, <1>2, <1>5, WriterReplies
  <1> QED
    BY <1>5, <1>6 DEF StepOk

LEMMA PostStep ==
    ASSUME SessionInv, NEW p \in Threads, PostOutcome(p) \/ SetFreezeFrame(p)
    PROVE  StepOk(p)
  <1>1. PICK s : /\ Write(p, s) /\ Reply(p, 200, NoReply) /\ UNCHANGED << acked, held >>
                 /\ threads[p].at \in {"outcome", "freeze"}
                 /\ \/ s = [Session(p) EXCEPT !.outcome = threads[p].req.repair]
                    \/ s = [Session(p) EXCEPT !.freezeFrame = threads[p].req.dtc]
    BY DEF PostOutcome, SetFreezeFrame, At
  <1>2. /\ SharedInv /\ ThreadInv(p) /\ threads = [q \in Threads |-> threads[q]]
        /\ IsLocals(threads[p]) /\ threads[p].req.op \in {"outcome", "freeze"}
        /\ threads[p].req.sid \in DOMAIN sessions /\ IsSession(Session(p))
        /\ Holding(Session(p).dtcs, threads[p].req.sid) \subseteq held
    BY <1>1, Handling
  <1>3. /\ IsSession(s) /\ s.dtcs = Session(p).dtcs /\ s.flags = Session(p).flags
        /\ s.observations = Session(p).observations
    <2>1. ASSUME NEW v
          PROVE  LET a == [Session(p) EXCEPT !.outcome = v]
                     b == [Session(p) EXCEPT !.freezeFrame = v]
                 IN  /\ IsSession(a) /\ a.dtcs = Session(p).dtcs /\ a.flags = Session(p).flags
                     /\ a.observations = Session(p).observations
                     /\ IsSession(b) /\ b.dtcs = Session(p).dtcs /\ b.flags = Session(p).flags
                     /\ b.observations = Session(p).observations
      BY <1>2 DEF IsSession, NewSession
    <2> QED BY <1>1, <2>1
  <1>4. SharedInv' /\ Grows /\ \A q \in Threads \ {p} : threads'[q] = threads[q]
    BY <1>1, <1>2, <1>3, WriteShared DEF Reply
  <1>5. LocalInv(p)'
    BY <1>1, <1>2, <1>4, WriterReplies
  <1> QED
    BY <1>4, <1>5 DEF StepOk

-----------------------------------------------------------------------------
(* Scoring. Graphs are scored in a list.                                   *)
LEMMA ChosenIsList ==
    ASSUME NEW codes, NEW op
    PROVE  LET gs == Chosen(op, GraphsForDtcs(codes))
           IN  Len(gs) \in Nat /\ DOMAIN gs = 1 .. Len(gs) /\ (op = "basket" => Len(gs) = 1)
  <1>1. CASE op = "basket"
    BY <1>1 DEF Chosen
  <1>2. CASE op # "basket"
    <2>1. PICK n \in Nat : \E g : GraphsForDtcs(codes) = [i \in 1 .. n |-> g[i]]
      BY SelectedIsList
    <2> PICK g : GraphsForDtcs(codes) = [i \in 1 .. n |-> g[i]]
      BY <2>1
    <2> QED BY <1>2 DEF Chosen
  <1> QED
    BY <1>1, <1>2

(* What a step of a scoring handler leaves alone.                          *)
LEMMA ScorerKeeps ==
    ASSUME NEW p \in Threads, ThreadInv(p), Grows, NEW l, threads'[p] = l,
           threads[p].at \notin {"idle", "done"},
           IsLocals(l), l.req = threads[p].req, l.before = threads[p].before,
           l.req.op \in {"diagnosis", "basket"}, l.at \in Steps(l.req.op)
    PROVE  /\ ThreadInv(p)' /\ SearchInv(p)' /\ WalkInv(p)'
           /\ Earlier(p)' = Earlier(p) /\ EarlierFlags(p)' = EarlierFlags(p)
           /\ Selected(p)' = Chosen(l.req.op, GraphsForDtcs(l.by))
  <1>1. l.at # "flag"
    BY DEF Steps, ScoreSteps, SellSteps
  <1>2. ThreadInv(p)'
    BY <1>1, AtStep DEF ThreadInv, Grows
  <1>3. Earlier(p)' = Earlier(p)
    BY DEF Earlier
  <1>4. EarlierFlags(p)' = EarlierFlags(p)
    BY <1>3 DEF EarlierFlags
  <1> QED
    BY <1>2, <1>3, <1>4 DEF SearchInv, WalkInv, Selected

(* A handler that fails answers nothing.                                   *)
LEMMA ScorerRefuses ==
    ASSUME SessionInv, NEW p \in Threads, threads[p].at \notin {"idle", "done"}, Grows,
           threads[p].req.op \in {"diagnosis", "basket"}, NEW status, status # 200, Refuse(p, status)
    PROVE  LocalInv(p)'
  <1> DEFINE l == threads'[p]
  <1>1. /\ LocalInv(p) /\ ThreadInv(p) /\ threads = [q \in Threads |-> threads[q]]
        /\ IsLocals(threads[p]) /\ threads[p] # Idle
    BY Handling
  <1>2. /\ IsLocals(l) /\ l.at = "done" /\ l.status = status /\ l.req = threads[p].req
        /\ l.before = threads[p].before /\ l.by = threads[p].by /\ l.scored = threads[p].scored
    BY <1>1, Replied DEF Refuse
  <1>3. threads'[p] = l
    OBVIOUS
  <1> HIDE DEF l
  <1>4. l.at \in Steps(l.req.op)
    BY <1>2 DEF Steps
  <1>5. /\ ThreadInv(p)' /\ SearchInv(p)' /\ WalkInv(p)'
        /\ Earlier(p)' = Earlier(p) /\ EarlierFlags(p)' = EarlierFlags(p)
        /\ Selected(p)' = Selected(p)
    BY <1>1, <1>2, <1>3, <1>4, ScorerKeeps DEF Selected
  <1>6. ScoreInv(p)'
    BY <1>1, <1>2, <1>3, <1>5 DEF LocalInv, ScoreInv, ScoreSteps, SellSteps
  <1> QED
    BY <1>5, <1>6 DEF LocalInv

(* Between two scores only the place in the code and what is looked        *)
(* through change.                                                         *)
LEMMA ScorerMoves ==
    ASSUME SessionInv, NEW p \in Threads, threads[p].at \notin {"idle", "done"}, Grows,
           threads[p].req.op \in {"diagnosis", "basket"},
           NEW l, threads'[p] = l, IsLocals(l), l.req = threads[p].req,
           l.before = threads[p].before, l.by = threads[p].by,
           l.scored = threads[p].scored, l.k = threads[p].k,
           l.at \in Steps(l.req.op) \ {"done", "graphs", "evidence", "collate"},
           l.at \in ScoreSteps => threads[p].at \in ScoreSteps \cup {"evidence"},
           l.at \in SellSteps => threads[p].at \in SellSteps,
           l.at = "flag_loop" => EarlierFlags(p) \subseteq l.flags,
           l.at \in {"scan", "scan_loop"} => ~Stops(Selected(p)[l.k], EarlierFlags(p)),
           l.at \in {"satisfied", "satisfied_loop"} => ~l.scored[1].score.stopped
    PROVE  LocalInv(p)'
  <1>1. LocalInv(p) /\ ThreadInv(p) /\ threads[p] # Idle
    BY Handling
  <1>2. /\ ThreadInv(p)' /\ SearchInv(p)' /\ WalkInv(p)'
        /\ Earlier(p)' = Earlier(p) /\ EarlierFlags(p)' = EarlierFlags(p)
        /\ Selected(p)' = Selected(p)
    BY <1>1, ScorerKeeps DEF Selected
  <1>3. l.at \in ScoreSteps =>
          /\ l.k = Len(l.scored) + 1
          /\ l.req.op = "basket" => l.scored = << >>
    <2>1. CASE threads[p].at \in ScoreSteps
      BY <1>1, <2>1 DEF LocalInv, ScoreInv
    <2>2. CASE threads[p].at = "evidence"
      <3>1. l.scored = << >> /\ l.k = 1
        BY <1>1, <2>2 DEF LocalInv, ScoreInv
      <3> QED BY <3>1, EmptyList, Zenon
    <2> QED BY <2>1, <2>2
  <1>4. l.at \in SellSteps => Len(l.scored) = 1
    BY <1>1 DEF LocalInv, ScoreInv
  <1>5. ScoreInv(p)'
    BY <1>1, <1>2, <1>3, <1>4 DEF LocalInv, ScoreInv
  <1> QED
    BY <1>2, <1>5 DEF LocalInv

(* Searching: what a handler that looks for the next test or for signals   *)
(* leaves alone.                                                           *)
LEMMA SearcherKeeps ==
    ASSUME NEW p \in Threads, ThreadInv(p), Grows, NEW l, threads'[p] = l,
           threads[p].at \notin {"idle", "done"},
           IsLocals(l), l.req = threads[p].req, l.before = threads[p].before,
           l.req.op \in {"next", "signals"}, l.at \in Steps(l.req.op)
    PROVE  ThreadInv(p)' /\ ScoreInv(p)' /\ WalkInv(p)' /\ Earlier(p)' = Earlier(p)
  <1>1. l.at # "flag"
    BY DEF Steps, ScoreSteps, SellSteps
  <1>2. ThreadInv(p)'
    BY <1>1, AtStep DEF ThreadInv, Grows
  <1>3. Earlier(p)' = Earlier(p)
    BY DEF Earlier
  <1> QED
    BY <1>2, <1>3 DEF ScoreInv, WalkInv

LEMMA SearcherRefuses ==
    ASSUME SessionInv, NEW p \in Threads, threads[p].at \notin {"idle", "done"}, Grows,
           threads[p].req.op \in {"next", "signals"}, NEW status, status # 200, Refuse(p, status)
    PROVE  LocalInv(p)'
  <1> DEFINE l == threads'[p]
  <1>1. /\ LocalInv(p) /\ ThreadInv(p) /\ threads = [q \in Threads |-> threads[q]]
        /\ IsLocals(threads[p]) /\ threads[p] # Idle
    BY Handling
  <1>2. /\ IsLocals(l) /\ l.at = "done" /\ l.status = status /\ l.req = threads[p].req
        /\ l.before = threads[p].before /\ l.seen = threads[p].seen
    BY <1>1, Replied DEF Refuse
  <1>3. threads'[p] = l
    OBVIOUS
  <1> HIDE DEF l
  <1>4. l.at \in Steps(l.req.op)
    BY <1>2 DEF Steps
  <1>5. ThreadInv(p)' /\ ScoreInv(p)' /\ WalkInv(p)' /\ Earlier(p)' = Earlier(p)
    BY <1>1, <1>2, <1>3, <1>4, SearcherKeeps
  <1>6. SearchInv(p)'
    BY <1>1, <1>2, <1>3, <1>5 DEF LocalInv, SearchInv
  <1> QED
    BY <1>5, <1>6 DEF LocalInv

LEMMA SearcherMoves ==
    ASSUME SessionInv, NEW p \in Threads, threads[p].at \notin {"idle", "done"}, Grows,
           threads[p].req.op \in {"next", "signals"},
           NEW l, threads'[p] = l, IsLocals(l), l.req = threads[p].req,
           l.before = threads[p].before, l.seen = threads[p].seen,
           l.at \in Steps(l.req.op) \ {"done"}
    PROVE  LocalInv(p)'
  <1>1. LocalInv(p) /\ ThreadInv(p) /\ threads[p] # Idle
    BY Handling
  <1>2. ThreadInv(p)' /\ ScoreInv(p)' /\ WalkInv(p)' /\ Earlier(p)' = Earlier(p)
    BY <1>1, SearcherKeeps
  <1>3. SearchInv(p)'
    BY <1>1, <1>2 DEF LocalInv, SearchInv
  <1> QED
    BY <1>2, <1>3 DEF LocalInv

LEMMA SelectGraphsStep ==
    ASSUME SessionInv, NEW p \in Threads, SelectGraphs(p)
    PROVE  StepOk(p)
  <1> DEFINE op == threads[p].req.op
             n == [threads[p] EXCEPT !.at = AfterGraphs(op), !.by = Session(p).dtcs]
  <1>1. threads[p].at = "graphs" /\ Untouched
    BY DEF SelectGraphs, At
  <1>2. /\ SharedInv /\ LocalInv(p) /\ ThreadInv(p) /\ threads = [q \in Threads |-> threads[q]]
        /\ threads[p] # Idle /\ IsLocals(threads[p])
        /\ op \in {"observe", "diagnosis", "basket", "next", "signals"}
    BY <1>1, Handling
  <1>3. CASE Reply(p, 422, NoReply)
    <2>1. SharedInv' /\ Grows /\ \A q \in Threads \ {p} : threads'[q] = threads[q]
      BY <1>1, <1>2, <1>3, UntouchedShared DEF Reply
    <2>2. CASE op = "observe"
      <3>1. LocalInv(p)'
        BY <1>1, <1>2, <1>3, <2>1, <2>2, WriterReplies
      <3> QED BY <2>1, <3>1 DEF StepOk
    <2>3. CASE op \in {"diagnosis", "basket"}
      <3>1. LocalInv(p)'
        BY <1>1, <1>2, <1>3, <2>1, <2>3, ScorerRefuses DEF Refuse
      <3> QED BY <2>1, <3>1 DEF StepOk
    <2>4. CASE op \in {"next", "signals"}
      <3>1. LocalInv(p)'
        BY <1>1, <1>2, <1>3, <2>1, <2>4, SearcherRefuses DEF Refuse
      <3> QED BY <2>1, <3>1 DEF StepOk
    <2> QED BY <1>2, <2>2, <2>3, <2>4
  <1>4. CASE Become(p, n)
    <2>1. /\ IsLocals(n) /\ n.at = AfterGraphs(op) /\ n.req = threads[p].req
          /\ n.before = threads[p].before /\ n.scored = threads[p].scored /\ n.k = threads[p].k
          /\ n.seen = threads[p].seen
      BY <1>2 DEF IsLocals, LocalKeys
    <2>2. AfterGraphs(op) \in Steps(op)
      BY <1>2 DEF AfterGraphs, Steps
    <2> HIDE DEF n
    <2>3. /\ SharedInv' /\ Grows /\ threads'[p] = n
          /\ \A q \in Threads \ {p} : threads'[q] = threads[q]
      BY <1>1, <1>2, <1>4, UntouchedShared
    <2>4. CASE op = "observe"
      <3>1. n.at = "record"
        BY <2>1, <2>4 DEF AfterGraphs
      <3>2. LocalInv(p)'
        BY <1>1, <1>2, <2>1, <2>2, <2>3, <2>4, <3>1, WriterKeeps
      <3> QED BY <2>3, <3>2 DEF StepOk
    <2>5. CASE op \in {"diagnosis", "basket"}
      <3>1. n.at = "evidence"
        BY <2>1, <2>5 DEF AfterGraphs
      <3>2. n.scored = << >> /\ n.k = 1
        BY <1>1, <1>2, <2>1, <2>5 DEF LocalInv, ScoreInv
      <3>3. /\ ThreadInv(p)' /\ SearchInv(p)' /\ WalkInv(p)'
        BY <1>1, <1>2, <2>1, <2>2, <2>3, <2>5, ScorerKeeps
      <3>4. DOMAIN n.scored = {} /\ IsList(n.scored)
        BY <3>2, EmptyList
      <3>5. ScoreInv(p)'
        BY <2>3, <3>1, <3>2, <3>4 DEF ScoreInv, ScoreSteps, SellSteps
      <3> QED BY <2>3, <3>3, <3>5 DEF StepOk, LocalInv
    <2>6. CASE op \in {"next", "signals"}
      <3>1. n.at = op
        BY <2>1, <2>6 DEF AfterGraphs
      <3>2. LocalInv(p)'
        BY <1>1, <1>2, <2>1, <2>2, <2>3, <2>6, <3>1, SearcherMoves
      <3> QED BY <2>3, <3>2 DEF StepOk
    <2> QED BY <1>2, <2>4, <2>5, <2>6
  <1> QED
    BY <1>3, <1>4 DEF SelectGraphs, Refuse

LEMMA ReadEvidenceStep ==
    ASSUME SessionInv, NEW p \in Threads, ReadEvidence(p)
    PROVE  StepOk(p)
  <1> DEFINE n == [threads[p] EXCEPT !.at = "flags", !.codes = Session(p).dtcs]
  <1>1. threads[p].at = "evidence" /\ Become(p, n) /\ Untouched
    BY DEF ReadEvidence, At
  <1>2. /\ SharedInv /\ threads[p].req.op \in {"diagnosis", "basket"} /\ IsLocals(threads[p])
    BY <1>1, Handling
  <1>3. /\ IsLocals(n) /\ n.at = "flags" /\ n.req = threads[p].req
        /\ n.before = threads[p].before /\ n.scored = threads[p].scored /\ n.k = threads[p].k
        /\ n.by = threads[p].by
    BY <1>2 DEF IsLocals, LocalKeys
  <1> HIDE DEF n
  <1>4. /\ SharedInv' /\ Grows /\ threads'[p] = n
        /\ \A q \in Threads \ {p} : threads'[q] = threads[q]
    BY <1>1, <1>2, UntouchedShared
  <1>5. n.at \in Steps(n.req.op) /\ n.at \notin SellSteps
    BY <1>2, <1>3 DEF Steps, ScoreSteps, SellSteps
  <1>6. LocalInv(p)'
    BY <1>1, <1>2, <1>3, <1>4, <1>5, ScorerMoves
  <1> QED
    BY <1>4, <1>6 DEF StepOk

LEMMA FlagsBeginStep ==
    ASSUME SessionInv, NEW p \in Threads, FlagsBegin(p)
    PROVE  StepOk(p)
  <1> DEFINE n == [threads[p] EXCEPT !.at = "flag_loop", !.flags = Session(p).flags]
  <1>1. threads[p].at = "flags" /\ Become(p, n) /\ Untouched
    BY DEF FlagsBegin, At
  <1>2. threads[p].at \in ScoreSteps
    BY <1>1 DEF ScoreSteps
  <1>3. /\ SharedInv /\ threads[p].req.op \in {"diagnosis", "basket"} /\ IsLocals(threads[p])
        /\ threads[p].before \subseteq acked
    BY <1>1, <1>2, Handling
  <1>4. /\ IsLocals(n) /\ n.at = "flag_loop" /\ n.req = threads[p].req
        /\ n.before = threads[p].before /\ n.scored = threads[p].scored /\ n.k = threads[p].k
        /\ n.by = threads[p].by /\ n.flags = Session(p).flags
    BY <1>3 DEF IsLocals, LocalKeys
  <1> HIDE DEF n
  <1>5. /\ SharedInv' /\ Grows /\ threads'[p] = n
        /\ \A q \in Threads \ {p} : threads'[q] = threads[q]
    BY <1>1, <1>3, UntouchedShared
  <1>6. n.at \in Steps(n.req.op) /\ n.at \notin SellSteps
    BY <1>3, <1>4 DEF Steps, ScoreSteps, SellSteps
  <1>7. EarlierFlags(p) \subseteq n.flags
    <2> SUFFICES ASSUME NEW f \in EarlierFlags(p) PROVE f \in n.flags
      OBVIOUS
    <2>1. PICK req \in Earlier(p) : f \in req.flags
      BY DEF EarlierFlags
    <2>2. req \in acked /\ req.sid = threads[p].req.sid
      BY <1>3, <2>1 DEF Earlier
    <2> QED
      BY <1>3, <1>4, <2>1, <2>2 DEF SharedInv, Session
  <1>8. LocalInv(p)'
    BY <1>1, <1>2, <1>3, <1>4, <1>5, <1>6, <1>7, ScorerMoves
  <1> QED
    BY <1>5, <1>8 DEF StepOk

LEMMA FlagsClearStep ==
    ASSUME SessionInv, NEW p \in Threads, FlagsClear(p)
    PROVE  StepOk(p)
  <1> DEFINE n == [threads[p] EXCEPT !.at = "scan"]
  <1>1. /\ threads[p].at = "flag_loop" /\ Become(p, n) /\ Untouched
        /\ ~Stops(Selected(p)[threads[p].k], threads[p].flags)
    BY DEF FlagsClear, At, Go, Graph
  <1>2. threads[p].at \in ScoreSteps
    BY <1>1 DEF ScoreSteps
  <1>3. /\ SharedInv /\ threads[p].req.op \in {"diagnosis", "basket"} /\ IsLocals(threads[p])
        /\ LocalInv(p) /\ threads[p] # Idle
    BY <1>1, <1>2, Handling
  <1>4. /\ IsLocals(n) /\ n.at = "scan" /\ n.req = threads[p].req
        /\ n.before = threads[p].before /\ n.scored = threads[p].scored /\ n.k = threads[p].k
        /\ n.by = threads[p].by
    BY <1>3 DEF IsLocals, LocalKeys
  <1> HIDE DEF n
  <1>5. /\ SharedInv' /\ Grows /\ threads'[p] = n
        /\ \A q \in Threads \ {p} : threads'[q] = threads[q]
    BY <1>1, <1>3, UntouchedShared
  <1>6. n.at \in Steps(n.req.op) /\ n.at \notin SellSteps
    BY <1>3, <1>4 DEF Steps, ScoreSteps, SellSteps
  <1>7. EarlierFlags(p) \subseteq threads[p].flags
    BY <1>1, <1>3 DEF LocalInv, ScoreInv
  <1>8. ~Stops(Selected(p)[n.k], EarlierFlags(p))
    BY <1>1, <1>4, <1>7 DEF Stops
  <1>9. LocalInv(p)'
    BY <1>1, <1>2, <1>3, <1>4, <1>5, <1>6, <1>8, ScorerMoves
  <1> QED
    BY <1>5, <1>9 DEF StepOk

LEMMA ScanBeginStep ==
    ASSUME SessionInv, NEW p \in Threads, ScanBegin(p)
    PROVE  StepOk(p)
  <1> DEFINE size == Cardinality(Observed(p))
             step == IF threads[p].at = "scan" THEN "scan_loop" ELSE "satisfied_loop"
             n == [threads[p] EXCEPT !.at = step, !.seen = << >>, !.size = size]
  <1>1. threads[p].at \in {"scan", "satisfied"} /\ Become(p, n) /\ Untouched
    BY DEF ScanBegin
  <1>2. threads[p].at \in ScoreSteps \cup SellSteps
    BY <1>1 DEF ScoreSteps, SellSteps
  <1>3. /\ SharedInv /\ threads[p].req.op \in {"diagnosis", "basket"} /\ IsLocals(threads[p])
        /\ LocalInv(p) /\ threads[p] # Idle /\ (threads[p].at \in SellSteps => threads[p].req.op = "basket")
    BY <1>1, <1>2, Handling
  <1> HIDE DEF size, step
  <1>4. /\ IsLocals(n) /\ n.at = step /\ n.req = threads[p].req
        /\ n.before = threads[p].before /\ n.scored = threads[p].scored /\ n.k = threads[p].k
        /\ n.by = threads[p].by
    BY <1>3 DEF IsLocals, LocalKeys
  <1> HIDE DEF n
  <1>5. /\ SharedInv' /\ Grows /\ threads'[p] = n
        /\ \A q \in Threads \ {p} : threads'[q] = threads[q]
    BY <1>1, <1>3, UntouchedShared
  <1>6. /\ n.at \in Steps(n.req.op) \ {"done", "graphs", "evidence", "collate"}
        /\ n.at \in ScoreSteps => threads[p].at \in ScoreSteps
        /\ n.at \in SellSteps => threads[p].at \in SellSteps
    BY <1>1, <1>3, <1>4 DEF Steps, ScoreSteps, SellSteps, step
  <1>7. n.at \in {"scan", "scan_loop"} => ~Stops(Selected(p)[n.k], EarlierFlags(p))
    BY <1>1, <1>3, <1>4 DEF LocalInv, ScoreInv, step
  <1>8. n.at \in {"satisfied", "satisfied_loop"} => ~n.scored[1].score.stopped
    BY <1>1, <1>3, <1>4 DEF LocalInv, ScoreInv, step
  <1>9. n.at # "flag_loop"
    BY <1>4 DEF step
  <1>10. LocalInv(p)'
    BY <1>1, <1>2, <1>3, <1>4, <1>5, <1>6, <1>7, <1>8, <1>9, ScorerMoves
  <1> QED
    BY <1>5, <1>10 DEF StepOk

LEMMA ScanNextStep ==
    ASSUME SessionInv, NEW p \in Threads, ScanNext(p)
    PROVE  StepOk(p)
  <1>1. threads[p].at \in {"scan_loop", "satisfied_loop"} /\ Untouched
    BY DEF ScanNext, Looping
  <1>2. PICK seen : Become(p, [threads[p] EXCEPT !.seen = seen])
    <2>1. PICK t \in Observed(p) \ DOMAIN threads[p].seen :
            Become(p, [threads[p] EXCEPT !.seen = Put(threads[p].seen, t, Session(p).observations[t])])
      BY DEF ScanNext
    <2> QED BY <2>1
  <1> DEFINE n == [threads[p] EXCEPT !.seen = seen]
  <1>3. threads[p].at \in ScoreSteps \cup SellSteps
    BY <1>1 DEF ScoreSteps, SellSteps
  <1>4. /\ SharedInv /\ threads[p].req.op \in {"diagnosis", "basket"} /\ IsLocals(threads[p])
        /\ LocalInv(p) /\ ThreadInv(p) /\ threads[p] # Idle
    BY <1>1, <1>3, Handling
  <1>5. /\ IsLocals(n) /\ n.at = threads[p].at /\ n.req = threads[p].req
        /\ n.before = threads[p].before /\ n.scored = threads[p].scored /\ n.k = threads[p].k
        /\ n.by = threads[p].by
    BY <1>4 DEF IsLocals, LocalKeys
  <1> HIDE DEF n
  <1>6. /\ SharedInv' /\ Grows /\ threads'[p] = n
        /\ \A q \in Threads \ {p} : threads'[q] = threads[q]
    BY <1>1, <1>2, <1>4, UntouchedShared DEF n
  <1>7. n.at \in Steps(n.req.op) \ {"done", "graphs", "evidence", "collate"}
    BY <1>1, <1>4, <1>5 DEF ThreadInv
  <1>8. n.at \in {"scan", "scan_loop"} => ~Stops(Selected(p)[n.k], EarlierFlags(p))
    BY <1>4, <1>5 DEF LocalInv, ScoreInv
  <1>9. n.at \in {"satisfied", "satisfied_loop"} => ~n.scored[1].score.stopped
    BY <1>4, <1>5 DEF LocalInv, ScoreInv
  <1>10. LocalInv(p)'
    BY <1>1, <1>4, <1>5, <1>6, <1>7, <1>8, <1>9, ScorerMoves
  <1> QED
    BY <1>6, <1>10 DEF StepOk

LEMMA ChangedStep ==
    ASSUME SessionInv, NEW p \in Threads, FlagsChanged(p) \/ ScanChanged(p)
    PROVE  StepOk(p)
  <1>1. /\ threads[p].at \in {"flag_loop", "scan_loop", "satisfied_loop"} /\ Refuse(p, 500) /\ Untouched
    BY DEF FlagsChanged, ScanChanged, Looping, ServerError, At
  <1>2. threads[p].at \in ScoreSteps \cup SellSteps
    BY <1>1 DEF ScoreSteps, SellSteps
  <1>3. SharedInv /\ threads[p].req.op \in {"diagnosis", "basket"}
    BY <1>1, <1>2, Handling
  <1>4. SharedInv' /\ Grows /\ \A q \in Threads \ {p} : threads'[q] = threads[q]
    BY <1>1, <1>3, UntouchedShared DEF Refuse, Reply
  <1>5. threads[p].at \notin {"idle", "done"} /\ Reply(p, 500, NoReply)
    BY <1>1 DEF Refuse
  <1>6. LocalInv(p)'
    BY <1>3, <1>4, <1>5, ScorerRefuses DEF Refuse
  <1> QED
    BY <1>4, <1>6 DEF StepOk

(* A score that used everything recorded earlier, or is stopped, and is    *)
(* stopped if an earlier flag says so.                                     *)
LEMMA GradedStep ==
    ASSUME SessionInv, NEW p \in Threads, threads[p].at \in {"flag_loop", "scan_loop"},
           NEW score, NEW used, Graded(p, score, used), Untouched,
           score.stopped \/ \A req \in Earlier(p) : req.test \in used,
           Stops(Selected(p)[threads[p].k], EarlierFlags(p)) => score.stopped
    PROVE  StepOk(p)
  <1> DEFINE e == [score |-> score, used |-> used]
             scored == Append(threads[p].scored, e)
             step == IF threads[p].req.op = "basket" THEN "basket"
                     ELSE IF threads[p].k = Len(Selected(p)) THEN "collate" ELSE "flags"
             n == [threads[p] EXCEPT !.at = step, !.scored = scored,
                                     !.seen = << >>, !.size = 0, !.flags = {}, !.k = @ + 1]
  <1>1. Become(p, n)
    BY DEF Graded
  <1>2. threads[p].at \in ScoreSteps
    BY DEF ScoreSteps
  <1>3. /\ SharedInv /\ threads[p].req.op \in {"diagnosis", "basket"} /\ IsLocals(threads[p])
        /\ LocalInv(p) /\ ThreadInv(p) /\ threads[p] # Idle
    BY <1>2, Handling
  <1> HIDE DEF scored, step
  <1>4. /\ IsLocals(n) /\ n.at = step /\ n.req = threads[p].req
        /\ n.before = threads[p].before /\ n.scored = scored /\ n.k = threads[p].k + 1
        /\ n.by = threads[p].by
    BY <1>3 DEF IsLocals, LocalKeys
  <1> HIDE DEF n
  <1>5. /\ SharedInv' /\ Grows /\ threads'[p] = n
        /\ \A q \in Threads \ {p} : threads'[q] = threads[q]
    BY <1>1, <1>3, UntouchedShared
  <1>6. step \in Steps(n.req.op)
    BY <1>3, <1>4 DEF Steps, ScoreSteps, SellSteps, step
  <1>7. /\ ThreadInv(p)' /\ SearchInv(p)' /\ WalkInv(p)'
        /\ Earlier(p)' = Earlier(p) /\ EarlierFlags(p)' = EarlierFlags(p)
        /\ Selected(p)' = Selected(p)
    BY <1>3, <1>4, <1>5, <1>6, ScorerKeeps DEF Selected
  <1>8. /\ IsList(threads[p].scored) /\ threads[p].k = Len(threads[p].scored) + 1
        /\ threads[p].req.op = "basket" => threads[p].scored = << >>
        /\ \A i \in DOMAIN threads[p].scored :
              /\ \/ threads[p].scored[i].score.stopped
                 \/ \A req \in Earlier(p) : req.test \in threads[p].scored[i].used
              /\ Stops(Selected(p)[i], EarlierFlags(p)) => threads[p].scored[i].score.stopped
    BY <1>2, <1>3 DEF LocalInv, ScoreInv
  <1>9. PICK m :
          /\ m = Len(threads[p].scored) /\ m \in Nat
          /\ IsList(scored) /\ Len(scored) = m + 1
          /\ \A i \in 1 .. m : scored[i] = threads[p].scored[i]
          /\ scored[m + 1] = e
          /\ DOMAIN threads[p].scored = 1 .. m /\ DOMAIN scored = 1 .. m + 1
    <2>1. IsList(threads[p].scored)
      BY <1>8
    <2> HIDE DEF e
    <2>2. IsAppended(scored, threads[p].scored, e)
      BY <2>1, Listed, Zenon DEF scored
    <2> QED
      BY <2>2, Zenon DEF IsAppended
  <1>10. \A i \in DOMAIN scored :
            /\ \/ scored[i].score.stopped
               \/ \A req \in Earlier(p) : req.test \in scored[i].used
            /\ Stops(Selected(p)[i], EarlierFlags(p)) => scored[i].score.stopped
    <2> SUFFICES ASSUME NEW i \in 1 .. m + 1
                 PROVE  /\ \/ scored[i].score.stopped
                           \/ \A req \in Earlier(p) : req.test \in scored[i].used
                        /\ Stops(Selected(p)[i], EarlierFlags(p)) => scored[i].score.stopped
      BY <1>9
    <2>1. CASE i \in 1 .. m
      <3>1. i \in DOMAIN threads[p].scored /\ scored[i] = threads[p].scored[i]
        BY <1>9, <2>1, Zenon
      <3>2. /\ \/ threads[p].scored[i].score.stopped
               \/ \A req \in Earlier(p) : req.test \in threads[p].scored[i].used
            /\ Stops(Selected(p)[i], EarlierFlags(p)) => threads[p].scored[i].score.stopped
        BY <1>8, <3>1, Zenon
      <3> QED BY <3>1, <3>2, Zenon
    <2>2. CASE i = m + 1
      <3>1. scored[i] = e
        BY <1>9, <2>2
      <3>2. scored[i].score = score /\ scored[i].used = used
        <4>1. e.score = score /\ e.used = used
          OBVIOUS
        <4> HIDE DEF e
        <4> QED BY <3>1, <4>1
      <3>3. i = threads[p].k
        BY <1>8, <1>9, <2>2, Zenon
      <3> QED BY <3>2, <3>3
    <2>3. i \in 1 .. m \/ i = m + 1
      <3>1. m \in Nat
        BY <1>9
      <3> HIDE DEF e
      <3> QED BY <3>1
    <2> QED BY <2>1, <2>2, <2>3, Zenon
  <1>11. step = "basket" => Len(scored) = 1
    <2> SUFFICES ASSUME step = "basket" PROVE Len(scored) = 1
      OBVIOUS
    <2>1. threads[p].scored = << >>
      BY <1>8 DEF step
    <2> QED BY <1>9, <2>1, EmptyList, Zenon
  <1>12. step = "collate" => Len(scored) = Len(Selected(p))
    BY <1>8, <1>9 DEF step
  <1>13. step = "flags" => n.k = Len(scored) + 1 /\ threads[p].req.op # "basket"
    BY <1>4, <1>8, <1>9 DEF step
  <1>14. step \in {"basket", "collate", "flags"}
    BY DEF step
  <1>15. ScoreInv(p)'
    <2> QED
      BY <1>4, <1>5, <1>7, <1>9, <1>10, <1>11, <1>12, <1>13, <1>14 DEF ScoreInv, ScoreSteps, SellSteps
  <1> QED
    BY <1>5, <1>7, <1>15 DEF StepOk, LocalInv

LEMMA FlagsStopStep ==
    ASSUME SessionInv, NEW p \in Threads, FlagsStop(p)
    PROVE  StepOk(p)
  <1> DEFINE score == StoppedScore(Graph(p))
  <1>1. threads[p].at = "flag_loop" /\ Graded(p, score, {}) /\ Untouched
    BY DEF FlagsStop, At
  <1>2. score.stopped
    BY DEF StoppedScore
  <1> HIDE DEF score
  <1> QED
    BY <1>1, <1>2, GradedStep

LEMMA ScanEndStep ==
    ASSUME SessionInv, NEW p \in Threads, ScanEnd(p)
    PROVE  StepOk(p)
  <1> DEFINE score == Score(Graph(p), threads[p].seen, {}, threads[p].codes)
             used == DOMAIN threads[p].seen
  <1>1. /\ threads[p].at = "scan_loop" /\ Graded(p, score, used) /\ Untouched
        /\ used = DOMAIN Session(p).observations
    BY DEF ScanEnd, At, AllSeen, Observed
  <1> HIDE DEF score, used
  <1>2. threads[p].at \in ScoreSteps
    BY <1>1 DEF ScoreSteps
  <1>3. /\ SharedInv /\ threads[p].req.op \in {"diagnosis", "basket"}
        /\ LocalInv(p) /\ threads[p] # Idle /\ threads[p].before \subseteq acked
    BY <1>1, <1>2, Handling
  <1>4. \A req \in Earlier(p) : req.test \in used
    BY <1>1, <1>3 DEF Earlier, SharedInv, Session
  <1>5. ~Stops(Selected(p)[threads[p].k], EarlierFlags(p))
    BY <1>1, <1>3 DEF LocalInv, ScoreInv
  <1> QED
    BY <1>1, <1>4, <1>5, GradedStep

(* The answers of a scoring handler that is through.                       *)
LEMMA ScorerAnswers ==
    ASSUME SessionInv, NEW p \in Threads, threads[p].at \notin {"idle", "done"},
           threads[p].req.op \in {"diagnosis", "basket"},
           NEW reply, Reply(p, 200, reply), Untouched,
           \A i \in DOMAIN Selected(p) :
              Stops(Selected(p)[i], EarlierFlags(p)) =>
                /\ threads[p].scored[i].score.stopped
                /\ threads[p].req.op = "basket" => reply = EmptyBasket
    PROVE  StepOk(p)
  <1> DEFINE l == threads'[p]
  <1>1. /\ SharedInv /\ LocalInv(p) /\ ThreadInv(p) /\ threads = [q \in Threads |-> threads[q]]
        /\ IsLocals(threads[p]) /\ threads[p] # Idle
    BY Handling
  <1>2. /\ IsLocals(l) /\ l.at = "done" /\ l.reply = reply /\ l.req = threads[p].req
        /\ l.before = threads[p].before /\ l.by = threads[p].by /\ l.scored = threads[p].scored
    BY <1>1, Replied
  <1>3. threads'[p] = l
    OBVIOUS
  <1>4. SharedInv' /\ Grows /\ \A q \in Threads \ {p} : threads'[q] = threads[q]
    BY <1>1, UntouchedShared DEF Reply
  <1> HIDE DEF l
  <1>5. l.at \in Steps(l.req.op)
    BY <1>2 DEF Steps
  <1>6. /\ ThreadInv(p)' /\ SearchInv(p)' /\ WalkInv(p)'
        /\ Earlier(p)' = Earlier(p) /\ EarlierFlags(p)' = EarlierFlags(p)
        /\ Selected(p)' = Selected(p)
    BY <1>1, <1>2, <1>3, <1>4, <1>5, ScorerKeeps DEF Selected
  <1>7. StoppedIn(p, Selected(p), EarlierFlags(p))'
    BY <1>2, <1>3, <1>6 DEF StoppedIn
  <1>8. ScoreInv(p)'
    BY <1>1, <1>2, <1>3, <1>6, <1>7 DEF LocalInv, ScoreInv, ScoreSteps, SellSteps
  <1> QED
    BY <1>4, <1>6, <1>8 DEF StepOk, LocalInv

LEMMA CollateStep ==
    ASSUME SessionInv, NEW p \in Threads, Collate(p)
    PROVE  StepOk(p)
  <1> DEFINE reply == [diagnoses |-> ByScore(Scores(p)), freezeFrame |-> Session(p).freezeFrame]
  <1>1. threads[p].at = "collate" /\ Reply(p, 200, reply) /\ Untouched
    BY DEF Collate, At
  <1> HIDE DEF reply
  <1>2. threads[p].req.op = "diagnosis" /\ LocalInv(p) /\ threads[p] # Idle
    BY <1>1, Handling
  <1>3. /\ Len(threads[p].scored) = Len(Selected(p)) /\ IsList(threads[p].scored)
        /\ \A i \in DOMAIN threads[p].scored :
              Stops(Selected(p)[i], EarlierFlags(p)) => threads[p].scored[i].score.stopped
    BY <1>1, <1>2 DEF LocalInv, ScoreInv
  <1>4. DOMAIN Selected(p) = 1 .. Len(Selected(p))
    BY ChosenIsList DEF Selected
  <1>5. DOMAIN threads[p].scored = 1 .. Len(threads[p].scored)
    BY <1>3, LenProperties DEF IsList
  <1>6. \A i \in DOMAIN Selected(p) :
           Stops(Selected(p)[i], EarlierFlags(p)) => threads[p].scored[i].score.stopped
    BY <1>3, <1>4, <1>5, Zenon
  <1> QED
    BY <1>1, <1>2, <1>6, ScorerAnswers

(* The one score of a basket's handler.                                    *)
LEMMA SoldScore ==
    ASSUME SessionInv, NEW p \in Threads, threads[p].at \in SellSteps
    PROVE  /\ DOMAIN Selected(p) = {1}
           /\ Stops(Selected(p)[1], EarlierFlags(p)) => threads[p].scored[1].score.stopped
  <1>1. threads[p].req.op = "basket" /\ LocalInv(p) /\ threads[p] # Idle
    BY Handling DEF SellSteps
  <1>2. /\ Len(threads[p].scored) = 1 /\ IsList(threads[p].scored)
        /\ \A i \in DOMAIN threads[p].scored :
              Stops(Selected(p)[i], EarlierFlags(p)) => threads[p].scored[i].score.stopped
    BY <1>1 DEF LocalInv, ScoreInv
  <1>3. Len(Selected(p)) = 1 /\ DOMAIN Selected(p) = 1 .. Len(Selected(p))
    BY <1>1, ChosenIsList DEF Selected
  <1>4. DOMAIN threads[p].scored = 1 .. Len(threads[p].scored)
    BY <1>2, LenProperties DEF IsList
  <1>5. 1 .. 1 = {1}
    OBVIOUS
  <1>6. 1 \in DOMAIN threads[p].scored
    BY <1>2, <1>4, <1>5, Zenon
  <1>7. DOMAIN Selected(p) = {1}
    BY <1>3, <1>5, Zenon
  <1> QED
    BY <1>2, <1>6, <1>7

LEMMA BasketEarlyStep ==
    ASSUME SessionInv, NEW p \in Threads, BasketEarly(p)
    PROVE  StepOk(p)
  <1>1. threads[p].at = "basket" /\ Untouched
    BY DEF BasketEarly, At
  <1>2. threads[p].at \in SellSteps
    BY <1>1 DEF SellSteps
  <1>3. /\ SharedInv /\ threads[p].req.op = "basket" /\ threads = [q \in Threads |-> threads[q]]
        /\ IsLocals(threads[p])
    BY <1>1, <1>2, Handling
  <1>4. CASE Reply(p, 200, EmptyBasket)
    <2>1. \A i \in DOMAIN Selected(p) :
             Stops(Selected(p)[i], EarlierFlags(p)) => threads[p].scored[i].score.stopped
      BY <1>2, SoldScore
    <2> QED BY <1>1, <1>3, <1>4, <2>1, ScorerAnswers
  <1>5. CASE Go(p, "satisfied") /\ ~threads[p].scored[1].score.stopped
    <2> DEFINE l == threads'[p]
    <2>1. /\ IsLocals(l) /\ l.at = "satisfied" /\ l.req = threads[p].req
          /\ l.before = threads[p].before /\ l.by = threads[p].by
          /\ l.scored = threads[p].scored /\ l.k = threads[p].k
      BY <1>3, <1>5, Moved
    <2>2. threads'[p] = l
      OBVIOUS
    <2>3. SharedInv' /\ Grows /\ \A q \in Threads \ {p} : threads'[q] = threads[q]
      BY <1>1, <1>3, <1>5, UntouchedShared DEF Go
    <2> HIDE DEF l
    <2>4. l.at \in Steps(l.req.op) /\ l.at \notin ScoreSteps
      BY <1>3, <2>1 DEF Steps, ScoreSteps, SellSteps
    <2>5. LocalInv(p)'
      BY <1>1, <1>2, <1>3, <1>5, <2>1, <2>2, <2>3, <2>4, ScorerMoves
    <2> QED BY <2>3, <2>5 DEF StepOk
  <1> QED
    BY <1>4, <1>5 DEF BasketEarly

LEMMA BasketReplyStep ==
    ASSUME SessionInv, NEW p \in Threads, BasketReply(p)
    PROVE  StepOk(p)
  <1> DEFINE reply == Basket(p, threads[p].seen)
  <1>1. threads[p].at = "satisfied_loop" /\ Reply(p, 200, reply) /\ Untouched
    BY DEF BasketReply, At
  <1> HIDE DEF reply
  <1>2. threads[p].at \in SellSteps
    BY <1>1 DEF SellSteps
  <1>3. threads[p].req.op = "basket" /\ LocalInv(p) /\ threads[p] # Idle
    BY <1>1, <1>2, Handling
  <1>4. ~threads[p].scored[1].score.stopped
    BY <1>1, <1>3 DEF LocalInv, ScoreInv
  <1>5. \A i \in DOMAIN Selected(p) : ~Stops(Selected(p)[i], EarlierFlags(p))
    BY <1>2, <1>4, SoldScore
  <1> QED
    BY <1>1, <1>3, <1>5, ScorerAnswers

-----------------------------------------------------------------------------
(* Searching. What was answered "recorded" before the handler began is     *)
(* among the observations it looks into.                                   *)
LEMMA EarlierObserved ==
    ASSUME SharedInv, NEW p \in Threads, threads[p].before \subseteq acked,
           NEW req \in Earlier(p)
    PROVE  req.test \in Observed(p) /\ req \in Requests /\ req.op = "observe"
  BY DEF SharedInv, Earlier, Observed, Session

LEMMA NextCheckStep ==
    ASSUME SessionInv, NEW p \in Threads, NextCheck(p)
    PROVE  StepOk(p)
  <1> DEFINE tests == TestsOf(Selected(p))
             k == threads[p].k
             found == IF k > Len(tests) THEN NoTest.id ELSE tests[k].id
             n == [threads[p] EXCEPT !.k = k + 1]
  <1>1. threads[p].at = "next" /\ Untouched
    BY DEF NextCheck, At
  <1>2. /\ SharedInv /\ LocalInv(p) /\ ThreadInv(p) /\ threads = [q \in Threads |-> threads[q]]
        /\ threads[p] # Idle /\ IsLocals(threads[p]) /\ threads[p].before \subseteq acked
        /\ threads[p].req.op = "next"
    BY <1>1, Handling
  <1>3. \/ Become(p, n)
        \/ Reply(p, 200, found) /\ (found = NoTest.id \/ found \notin Observed(p))
    BY DEF NextCheck
  <1> HIDE DEF found, tests, k
  <1>4. CASE Become(p, n)
    <2>1. /\ IsLocals(n) /\ n.at = "next" /\ n.req = threads[p].req
          /\ n.before = threads[p].before /\ n.seen = threads[p].seen
      BY <1>1, <1>2 DEF IsLocals, LocalKeys
    <2> HIDE DEF n
    <2>2. /\ SharedInv' /\ Grows /\ threads'[p] = n
          /\ \A q \in Threads \ {p} : threads'[q] = threads[q]
      BY <1>1, <1>2, <1>4, UntouchedShared
    <2>3. n.at \in Steps(n.req.op) \ {"done"}
      BY <1>2, <2>1 DEF Steps
    <2>4. LocalInv(p)'
      BY <1>1, <1>2, <2>1, <2>2, <2>3, SearcherMoves
    <2> QED BY <2>2, <2>4 DEF StepOk
  <1>5. CASE Reply(p, 200, found) /\ (found = NoTest.id \/ found \notin Observed(p))
    <2> DEFINE l == threads'[p]
    <2>1. /\ IsLocals(l) /\ l.at = "done" /\ l.reply = found /\ l.req = threads[p].req
          /\ l.before = threads[p].before
      BY <1>2, <1>5, Replied
    <2>2. threads'[p] = l
      OBVIOUS
    <2>3. SharedInv' /\ Grows /\ \A q \in Threads \ {p} : threads'[q] = threads[q]
      BY <1>1, <1>2, <1>5, UntouchedShared DEF Reply
    <2> HIDE DEF l
    <2>4. l.at \in Steps(l.req.op)
      BY <2>1 DEF Steps
    <2>5. ThreadInv(p)' /\ ScoreInv(p)' /\ WalkInv(p)' /\ Earlier(p)' = Earlier(p)
      BY <1>1, <1>2, <2>1, <2>2, <2>3, <2>4, SearcherKeeps
    <2>6. \A req \in Earlier(p) : found # req.test
      BY <1>2, <1>5, EarlierObserved, SessionAssumption
    <2>7. SearchInv(p)'
      BY <1>2, <2>1, <2>2, <2>5, <2>6 DEF SearchInv
    <2> QED BY <2>3, <2>5, <2>7 DEF StepOk, LocalInv
  <1> QED
    BY <1>3, <1>4, <1>5

LEMMA SignalCheckStep ==
    ASSUME SessionInv, NEW p \in Threads, SignalCheck(p)
    PROVE  StepOk(p)
  <1> DEFINE seen == threads[p].seen
  <1>1. threads[p].at = "signals" /\ Untouched
    BY DEF SignalCheck, At
  <1>2. /\ SharedInv /\ LocalInv(p) /\ ThreadInv(p) /\ threads = [q \in Threads |-> threads[q]]
        /\ threads[p] # Idle /\ IsLocals(threads[p]) /\ threads[p].before \subseteq acked
        /\ threads[p].req.op = "signals"
    BY <1>1, Handling
  <1>3. \A x \in DOMAIN seen : \A req \in Earlier(p) : seen[x].test = req.test => seen[x].acquired
    BY <1>2 DEF LocalInv, SearchInv
  <1>4. CASE Reply(p, 200, Range(seen))
    <2> DEFINE l == threads'[p]
    <2>1. /\ IsLocals(l) /\ l.at = "done" /\ l.reply = Range(seen) /\ l.req = threads[p].req
          /\ l.before = threads[p].before /\ l.seen = threads[p].seen
      BY <1>2, <1>4, Replied
    <2>2. threads'[p] = l
      OBVIOUS
    <2>3. SharedInv' /\ Grows /\ \A q \in Threads \ {p} : threads'[q] = threads[q]
      BY <1>1, <1>2, <1>4, UntouchedShared DEF Reply
    <2> HIDE DEF l
    <2>4. l.at \in Steps(l.req.op)
      BY <2>1 DEF Steps
    <2>5. ThreadInv(p)' /\ ScoreInv(p)' /\ WalkInv(p)' /\ Earlier(p)' = Earlier(p)
      BY <1>1, <1>2, <2>1, <2>2, <2>3, <2>4, SearcherKeeps
    <2>6. SearchInv(p)'
      BY <1>2, <1>3, <2>1, <2>2, <2>5 DEF SearchInv
    <2> QED BY <2>3, <2>5, <2>6 DEF StepOk, LocalInv
  <1>5. ASSUME NEW x,
               Become(p, [threads[p] EXCEPT
                   !.seen = Put(@, x, Measurement(Selected(p), x, Observed(p)))])
        PROVE  StepOk(p)
    <2> DEFINE e == Measurement(Selected(p), x, Observed(p))
               longer == Put(seen, x, e)
               n == [threads[p] EXCEPT !.seen = longer]
    <2>1. Become(p, n)
      BY <1>5
    <2>2. \A req \in Earlier(p) : e.test = req.test => e.acquired
      BY <1>2, EarlierObserved DEF Measurement
    <2> HIDE DEF e, longer
    <2>3. /\ IsLocals(n) /\ n.at = "signals" /\ n.req = threads[p].req
          /\ n.before = threads[p].before /\ n.seen = longer
      BY <1>1, <1>2 DEF IsLocals, LocalKeys
    <2> HIDE DEF n
    <2>4. /\ SharedInv' /\ Grows /\ threads'[p] = n
          /\ \A q \in Threads \ {p} : threads'[q] = threads[q]
      BY <1>1, <1>2, <2>1, UntouchedShared
    <2>5. n.at \in Steps(n.req.op)
      BY <1>2, <2>3 DEF Steps
    <2>6. ThreadInv(p)' /\ ScoreInv(p)' /\ WalkInv(p)' /\ Earlier(p)' = Earlier(p)
      BY <1>1, <1>2, <2>3, <2>4, <2>5, SearcherKeeps
    <2>7. /\ DOMAIN longer = DOMAIN seen \cup {x}
          /\ \A y \in DOMAIN longer : longer[y] = IF y = x THEN e ELSE seen[y]
      BY DEF longer, Put
    <2> HIDE DEF seen
    <2>9. SearchInv(p)'
      BY <1>2, <1>3, <2>2, <2>3, <2>4, <2>6, <2>7 DEF SearchInv
    <2> QED BY <2>4, <2>6, <2>9 DEF StepOk, LocalInv
  <1> QED
    BY <1>4, <1>5 DEF SignalCheck

-----------------------------------------------------------------------------
(* The walk over the sessions.                                             *)
LEMMA WalkerKeeps ==
    ASSUME NEW p \in Threads, ThreadInv(p), Grows, NEW l, threads'[p] = l,
           threads[p].at \notin {"idle", "done"},
           IsLocals(l), l.req = threads[p].req, l.before = threads[p].before,
           l.req.op = "demand", l.at \in Steps(l.req.op)
    PROVE  ThreadInv(p)' /\ ScoreInv(p)' /\ SearchInv(p)'
  <1>1. l.at # "flag"
    BY DEF Steps
  <1>2. ThreadInv(p)'
    BY <1>1, AtStep DEF ThreadInv, Grows
  <1> QED
    BY <1>2 DEF ScoreInv, SearchInv

LEMMA Walking ==
    ASSUME SessionInv, NEW p \in Threads, threads[p].at \in {"walk", "walk_loop"}
    PROVE  /\ SharedInv /\ ThreadInv(p) /\ threads = [q \in Threads |-> threads[q]]
           /\ threads[p] # Idle /\ IsLocals(threads[p])
           /\ threads[p].req.op = "demand" /\ Counted(threads[p].seen)
  <1>1. /\ SharedInv /\ ThreadInv(p) /\ threads = [q \in Threads |-> threads[q]]
        /\ threads[p] # Idle /\ IsLocals(threads[p])
        /\ threads[p].req.op = "demand" /\ LocalInv(p)
    BY Handling
  <1> QED
    BY <1>1 DEF LocalInv, WalkInv

LEMMA WalkBeginStep ==
    ASSUME SessionInv, NEW p \in Threads, WalkBegin(p)
    PROVE  StepOk(p)
  <1> DEFINE size == Cardinality(DOMAIN sessions)
             n == [threads[p] EXCEPT !.at = "walk_loop", !.size = size]
  <1>1. threads[p].at = "walk" /\ Become(p, n) /\ Untouched
    BY DEF WalkBegin, At
  <1> HIDE DEF size
  <1>2. /\ SharedInv /\ ThreadInv(p) /\ threads[p] # Idle /\ IsLocals(threads[p])
        /\ threads[p].req.op = "demand" /\ Counted(threads[p].seen)
    BY <1>1, Walking
  <1>3. /\ IsLocals(n) /\ n.at = "walk_loop" /\ n.req = threads[p].req
        /\ n.before = threads[p].before /\ n.seen = threads[p].seen
    BY <1>2 DEF IsLocals, LocalKeys
  <1> HIDE DEF n
  <1>4. /\ SharedInv' /\ Grows /\ threads'[p] = n
        /\ \A q \in Threads \ {p} : threads'[q] = threads[q]
    BY <1>1, <1>2, UntouchedShared
  <1>5. n.at \in Steps(n.req.op)
    BY <1>2, <1>3 DEF Steps
  <1>6. ThreadInv(p)' /\ ScoreInv(p)' /\ SearchInv(p)'
    BY <1>1, <1>2, <1>3, <1>4, <1>5, WalkerKeeps
  <1>7. WalkInv(p)'
    BY <1>2, <1>3, <1>4 DEF WalkInv, Counted, Grows
  <1> QED
    BY <1>4, <1>6, <1>7 DEF StepOk, LocalInv

LEMMA WalkNextStep ==
    ASSUME SessionInv, NEW p \in Threads, WalkNext(p)
    PROVE  StepOk(p)
  <1>1. threads[p].at = "walk_loop" /\ Untouched
    BY DEF WalkNext, At
  <1>2. /\ SharedInv /\ ThreadInv(p) /\ threads[p] # Idle /\ IsLocals(threads[p])
        /\ threads[p].req.op = "demand" /\ Counted(threads[p].seen)
    BY <1>1, Walking
  <1>3. PICK sid \in DOMAIN sessions :
          Become(p, [threads[p] EXCEPT !.seen = Put(@, sid, {PrimaryOf(sessions[sid].dtcs)})])
    BY DEF WalkNext
  <1> DEFINE seen == Put(threads[p].seen, sid, {PrimaryOf(sessions[sid].dtcs)})
             n == [threads[p] EXCEPT !.seen = seen]
  <1>4. Counted(seen)
    <2>1. DOMAIN seen = {sid} \cup DOMAIN threads[p].seen
      BY DEF Put
    <2>2. ASSUME NEW i \in DOMAIN seen
          PROVE  seen[i] = IF i = sid THEN {PrimaryOf(sessions[sid].dtcs)} ELSE threads[p].seen[i]
      BY DEF Put
    <2>3. ASSUME PrimaryOf(sessions[sid].dtcs) # NoFamily
          PROVE  << sid, PrimaryOf(sessions[sid].dtcs) >> \in held
      BY <1>2, <2>3 DEF PrimaryOf, SharedInv, Holding
    <2> HIDE DEF seen
    <2> QED BY <1>2, <2>1, <2>2, <2>3 DEF Counted
  <1> HIDE DEF seen
  <1>5. /\ IsLocals(n) /\ n.at = "walk_loop" /\ n.req = threads[p].req
        /\ n.before = threads[p].before /\ n.seen = seen
    BY <1>1, <1>2 DEF IsLocals, LocalKeys
  <1>6. Become(p, n)
    BY <1>3 DEF seen
  <1> HIDE DEF n
  <1>7. /\ SharedInv' /\ Grows /\ threads'[p] = n
        /\ \A q \in Threads \ {p} : threads'[q] = threads[q]
    BY <1>1, <1>2, <1>6, UntouchedShared
  <1>8. n.at \in Steps(n.req.op)
    BY <1>2, <1>5 DEF Steps
  <1>9. ThreadInv(p)' /\ ScoreInv(p)' /\ SearchInv(p)'
    BY <1>1, <1>2, <1>5, <1>7, <1>8, WalkerKeeps
  <1>10. WalkInv(p)'
    BY <1>4, <1>5, <1>7 DEF WalkInv, Counted, Grows
  <1> QED
    BY <1>7, <1>9, <1>10 DEF StepOk, LocalInv

(* The walk answers or fails.                                              *)
LEMMA WalkerAnswers ==
    ASSUME SessionInv, NEW p \in Threads, threads[p].at \in {"walk", "walk_loop"},
           NEW status, NEW reply, Reply(p, status, reply), Untouched,
           status = 200 => reply = Released(threads[p].seen)
    PROVE  StepOk(p)
  <1> DEFINE l == threads'[p]
  <1>1. /\ SharedInv /\ ThreadInv(p) /\ threads = [q \in Threads |-> threads[q]]
        /\ threads[p] # Idle /\ IsLocals(threads[p])
        /\ threads[p].req.op = "demand" /\ Counted(threads[p].seen)
    BY Walking
  <1>2. /\ IsLocals(l) /\ l.at = "done" /\ l.status = status /\ l.reply = reply
        /\ l.req = threads[p].req /\ l.before = threads[p].before /\ l.seen = threads[p].seen
    BY <1>1, Replied
  <1>3. threads'[p] = l
    OBVIOUS
  <1>4. SharedInv' /\ Grows /\ \A q \in Threads \ {p} : threads'[q] = threads[q]
    BY <1>1, UntouchedShared DEF Reply
  <1> HIDE DEF l
  <1>5. l.at \in Steps(l.req.op)
    BY <1>2 DEF Steps
  <1>6. ThreadInv(p)' /\ ScoreInv(p)' /\ SearchInv(p)'
    BY <1>1, <1>2, <1>3, <1>4, <1>5, WalkerKeeps
  <1>7. WalkInv(p)'
    BY <1>1, <1>2, <1>3, <1>4 DEF WalkInv, Counted, Grows
  <1> QED
    BY <1>4, <1>6, <1>7 DEF StepOk, LocalInv

LEMMA WalkDoneStep ==
    ASSUME SessionInv, NEW p \in Threads, WalkChanged(p) \/ WalkEnd(p)
    PROVE  StepOk(p)
  <1>1. threads[p].at = "walk_loop" /\ Untouched
    BY DEF WalkChanged, WalkEnd, At
  <1>2. Reply(p, 500, NoReply) \/ Reply(p, 200, Released(threads[p].seen))
    BY DEF WalkChanged, WalkEnd, ServerError, Refuse
  <1>3. 500 # 200
    OBVIOUS
  <1> QED
    BY <1>1, <1>2, <1>3, WalkerAnswers

-----------------------------------------------------------------------------
(* The invariant is inductive.                                             *)
LEMMA InitSession == SessionInit => SessionInv
  <1> SUFFICES ASSUME SessionInit PROVE SessionInv
    OBVIOUS
  <1> DEFINE holds == [i \in DOMAIN Opened |-> Holding(Opened[i].dtcs, i)]
             all == {holds[i] : i \in DOMAIN Opened}
  <1>1. held = UNION all
    BY DEF SessionInit
  <1>2. \A i \in DOMAIN Opened : IsFiniteSet(holds[i])
    BY FS_EmptySet, FS_Singleton DEF Holding
  <1>3. \A i \in DOMAIN Opened : Holding(Opened[i].dtcs, i) \subseteq held
    BY <1>1
  <1>4. IsFiniteSet(DOMAIN Opened) /\ DOMAIN holds = DOMAIN Opened
    BY SessionAssumption
  <1> HIDE DEF holds
  <1>5. holds \in Surjection(DOMAIN Opened, all)
    <2>1. holds = [i \in DOMAIN Opened |-> holds[i]]
      BY DEF holds
    <2> QED BY <2>1 DEF Surjection
  <1>6. IsFiniteSet(all)
    <2> HIDE DEF all
    <2> QED BY <1>4, <1>5, FS_Surjection
  <1>7. IsFiniteSet(held)
    BY <1>1, <1>2, <1>6, FS_UNION
  <1>8. SharedInv
    BY <1>3, <1>7, SessionAssumption DEF SessionInit, SharedInv
  <1>9. \A p \in Threads : threads[p] = Idle
    BY DEF SessionInit
  <1>10. \A p \in Threads : ThreadInv(p) /\ ScoreInv(p) /\ SearchInv(p) /\ WalkInv(p)
    BY <1>9 DEF ThreadInv, ScoreInv, SearchInv, WalkInv
  <1> QED
    BY <1>8, <1>10 DEF SessionInv

LEMMA HandleStep ==
    ASSUME SessionInv, NEW p \in Threads, Handle(p)
    PROVE  StepOk(p)
  BY CreateStep, SetVinStep, SetDtcsStep, RespondStep, RecordStep, FlagStep, PostStep,
     SelectGraphsStep, ReadEvidenceStep, FlagsBeginStep, FlagsStopStep, ChangedStep,
     FlagsClearStep, ScanBeginStep, ScanNextStep, ScanEndStep, CollateStep, BasketEarlyStep,
     BasketReplyStep, NextCheckStep, SignalCheckStep, WalkBeginStep, WalkNextStep, WalkDoneStep
     DEF Handle

LEMMA NextSession == SessionInv /\ [SessionNext]_vars => SessionInv'
  <1> SUFFICES ASSUME SessionInv, [SessionNext]_vars PROVE SessionInv'
    OBVIOUS
  <1>1. ASSUME NEW p \in Threads, StepOk(p) PROVE SessionInv'
    <2>1. \A q \in Threads \ {p} : LocalInv(q)'
      <3> SUFFICES ASSUME NEW q \in Threads \ {p} PROVE LocalInv(q)'
        OBVIOUS
      <3>1. LocalInv(q) /\ threads'[q] = threads[q] /\ Grows
        BY <1>1 DEF SessionInv, LocalInv, StepOk
      <3> QED BY <3>1, OthersKeep
    <2>2. LocalInv(p)' /\ SharedInv'
      BY <1>1 DEF StepOk
    <2> QED BY <2>1, <2>2 DEF SessionInv, LocalInv
  <1>2. CASE SessionNext
    <2>1. PICK p \in Threads : (\E req \in Requests : Begin(p, req)) \/ Handle(p)
      BY <1>2 DEF SessionNext
    <2>2. StepOk(p)
      BY <2>1, BeginStep, HandleStep
    <2> QED BY <1>1, <2>2
  <1>3. CASE UNCHANGED vars
    <2>1. SharedInv'
      BY <1>3 DEF SessionInv, SharedInv, vars
    <2>2. Grows
      BY <1>3 DEF Grows, vars
    <2>3. ASSUME NEW q \in Threads PROVE LocalInv(q)'
      <3>1. LocalInv(q) /\ threads'[q] = threads[q]
        BY <1>3 DEF SessionInv, LocalInv, vars
      <3> QED BY <2>2, <3>1, OthersKeep
    <2> QED BY <2>1, <2>3 DEF SessionInv, LocalInv
  <1> QED
    BY <1>2, <1>3

(* Dictionaries and handlers keep the shape they have in main.py, and      *)
(* every part of the argument below holds after every step.                *)
THEOREM SessionsWellFormed == SessionSpec => []SessionInv
  BY InitSession, NextSession, PTL DEF SessionSpec

-----------------------------------------------------------------------------
(* What was answered "recorded" is kept, and every answer to a request     *)
(* that begins afterwards uses it: the scores of a diagnosis or basket,    *)
(* the next test, the signals (main.py add_observation against its         *)
(* readers), for any number of threads and requests.                       *)
THEOREM ObservationsKept == SessionSpec => []RecordedIsKept
  <1>1. SessionInv => RecordedIsKept
    <2> SUFFICES ASSUME SessionInv PROVE RecordedIsKept
      OBVIOUS
    <2>1. \A req \in acked : req.test \in DOMAIN sessions[req.sid].observations
      BY DEF SessionInv, SharedInv
    <2>2. ASSUME NEW p \in Threads, Answers(p, "diagnosis") \/ Answers(p, "basket")
          PROVE  \A i \in DOMAIN threads[p].scored :
                    \/ threads[p].scored[i].score.stopped
                    \/ \A req \in Earlier(p) : req.test \in threads[p].scored[i].used
      BY <2>2 DEF SessionInv, ScoreInv, Answers, Idle
    <2>3. ASSUME NEW p \in Threads, Answers(p, "next")
          PROVE  \A req \in Earlier(p) : threads[p].reply # req.test
      BY <2>3 DEF SessionInv, SearchInv, Answers, Idle
    <2>4. ASSUME NEW p \in Threads, Answers(p, "signals")
          PROVE  \A a \in threads[p].reply : \A req \in Earlier(p) : a.test = req.test => a.acquired
      BY <2>4 DEF SessionInv, SearchInv, Answers, Idle, Range
    <2> QED
      BY <2>1, <2>2, <2>3, <2>4 DEF RecordedIsKept
  <1> QED
    BY <1>1, SessionsWellFormed, PTL

(* A stop-driving flag answered "recorded" stops every graph that lists it *)
(* in all later diagnoses, and leaves nothing to sell (engine.py score,    *)
(* main.py add_observation).                                               *)
THEOREM StopFlagsStick == SessionSpec => []StopSticks
  <1>1. SessionInv => StopSticks
    <2> SUFFICES ASSUME SessionInv, NEW p \in Threads,
                        Answers(p, "diagnosis") \/ Answers(p, "basket")
                 PROVE  StoppedIn(p, Selected(p), UNION {req.flags : req \in Earlier(p)})
      BY DEF StopSticks
    <2> QED
      BY DEF SessionInv, ScoreInv, Answers, EarlierFlags, Idle
  <1> QED
    BY <1>1, SessionsWellFormed, PTL

(* A family the demand analytics releases was the primary finding of at    *)
(* least PrivacyCount different sessions (main.py analytics_demand).       *)
THEOREM DemandKeepsPrivacy == SessionSpec => []DemandIsPrivate
  <1>1. SessionInv => DemandIsPrivate
    <2> SUFFICES ASSUME SessionInv, NEW p \in Threads, Answers(p, "demand"),
                        NEW f \in threads[p].reply.released
                 PROVE  Cardinality({h \in held : h[2] = f}) >= PrivacyCount
      BY DEF DemandIsPrivate
    <2> DEFINE of == threads[p].seen
               S == {sid \in DOMAIN of : f \in of[sid]}
               T == {h \in held : h[2] = f}
               pair == [sid \in S |-> << sid, f >>]
    <2>1. Counted(of) /\ threads[p].reply = Released(of) /\ IsFiniteSet(held)
      BY DEF SessionInv, SharedInv, WalkInv, Answers, Idle
    <2>2. f # NoFamily /\ Cardinality(S) >= PrivacyCount
      BY <2>1 DEF Released
    <2>3. \A sid \in S : << sid, f >> \in T
      BY <2>1, <2>2 DEF Counted
    <2>4. IsFiniteSet(T)
      BY <2>1, FS_Subset
    <2> HIDE DEF S, T
    <2>5. pair \in Injection(S, T)
      BY <2>3 DEF Injection, IsInjective
    <2>6. Cardinality(S) <= Cardinality(T) /\ IsFiniteSet(S)
      <3> HIDE DEF pair
      <3> QED BY <2>4, <2>5, FS_Injection
    <2>7. Cardinality(S) \in Nat /\ Cardinality(T) \in Nat
      BY <2>4, <2>6, FS_CardinalityType
    <2>8. Cardinality(T) >= PrivacyCount
      BY <2>2, <2>6, <2>7, SessionAssumption
    <2> QED
      BY <2>8 DEF T
  <1> QED
    BY <1>1, SessionsWellFormed, PTL

-----------------------------------------------------------------------------
(* A request that nothing is written into while it is handled. Its handler *)
(* follows the session (s) it looks at: what it has put together so far is *)
(* what the engine's operators make of that session.                       *)
Readers == {"diagnosis", "basket", "next", "signals"}

ScoreOf(g, s) == Score(g, s.observations, s.flags, s.dtcs)

Follows(l, s) ==
    LET all == GraphsForDtcs(s.dtcs)
        gs  == Chosen(l.req.op, all)
    IN  /\ l.at = "graphs" => l.k = 1 /\ l.seen = << >>
        /\ l.at # "graphs" => l.by = s.dtcs /\ all # << >>
        /\ l.at \in ScoreSteps \cup SellSteps \cup {"collate"} =>
              /\ l.codes = s.dtcs
              /\ \A i \in DOMAIN l.scored : l.scored[i].score = ScoreOf(gs[i], s)
        /\ l.at = "flag_loop" => l.flags = s.flags
        /\ l.at \in {"scan", "scan_loop"} => ~Stops(gs[l.k], s.flags)
        /\ l.at \in Looping =>
              /\ l.size = Cardinality(DOMAIN s.observations)
              /\ l.seen = [t \in DOMAIN l.seen |-> s.observations[t]]
        /\ l.at = "next" =>
              /\ l.k \in Nat \ {0}
              /\ \A i \in 1 .. l.k - 1 : TestsOf(all)[i].id \in DOMAIN s.observations
        /\ l.at = "signals" => \A x \in DOMAIN l.seen :
              /\ x \in SignalsOf(all)
              /\ l.seen[x] = Measurement(all, x, DOMAIN s.observations)

(* The walk of the demand analytics follows all sessions.                  *)
WalkFollows(l, all) ==
    /\ l.at = "walk" => l.seen = << >>
    /\ l.at = "walk_loop" =>
          /\ l.size = Cardinality(DOMAIN all)
          /\ l.seen = [i \in DOMAIN l.seen |-> {PrimaryOf(all[i].dtcs)}]

AnsweredRight(p) ==
    \/ threads'[p].status = 200 /\ threads'[p].reply = Expected(threads[p].req)
    \/ threads'[p].status = 422 /\ GraphsForDtcs(Session(p).dtcs) = << >>

KeepsUp(p) ==
    IF threads'[p].at = "done" THEN AnsweredRight(p) ELSE Follows(threads'[p], Session(p))

WalkKeepsUp(p) ==
    IF threads'[p].at = "done" THEN AnsweredRight(p) ELSE WalkFollows(threads'[p], sessions)

LEMMA SelectKeepsUp ==
    ASSUME SessionInv, NEW p \in Threads, SelectGraphs(p), threads[p].req.op \in Readers,
           Follows(threads[p], Session(p))
    PROVE  KeepsUp(p)
  <1> DEFINE s == Session(p)
             all == GraphsForDtcs(s.dtcs)
             op == threads[p].req.op
             n == [threads[p] EXCEPT !.at = AfterGraphs(op), !.by = s.dtcs]
  <1>1. threads[p].at = "graphs"
    BY DEF SelectGraphs, At
  <1>2. IsLocals(threads[p]) /\ threads = [q \in Threads |-> threads[q]] /\ LocalInv(p) /\ threads[p] # Idle
    BY <1>1, Handling
  <1>3. CASE all = << >>
    <2>1. Reply(p, 422, NoReply)
      BY <1>3 DEF SelectGraphs, Refuse
    <2>2. threads'[p].at = "done" /\ threads'[p].status = 422
      BY <1>2, <2>1, Replied
    <2> QED BY <1>3, <2>2 DEF KeepsUp, AnsweredRight
  <1>4. CASE all # << >>
    <2>1. Become(p, n)
      BY <1>4 DEF SelectGraphs, Readers
    <2>2. /\ n.at = AfterGraphs(op) /\ n.by = s.dtcs /\ n.req = threads[p].req
          /\ n.scored = threads[p].scored /\ n.seen = threads[p].seen /\ n.k = threads[p].k
      BY <1>2 DEF IsLocals, LocalKeys
    <2> HIDE DEF n
    <2>3. threads'[p] = n
      BY <1>2, <2>1 DEF Become
    <2>4. threads[p].seen = << >> /\ threads[p].k = 1
      BY <1>1 DEF Follows
    <2>5. n.at \in {"evidence", "next", "signals"}
      BY <2>2 DEF AfterGraphs, Readers
    <2>6. Follows(n, s)
      BY <1>4, <2>2, <2>4, <2>5 DEF Follows, ScoreSteps, SellSteps, Looping
    <2> QED BY <2>3, <2>5, <2>6 DEF KeepsUp
  <1> QED BY <1>3, <1>4

LEMMA EvidenceKeepsUp ==
    ASSUME SessionInv, NEW p \in Threads, ReadEvidence(p), Follows(threads[p], Session(p))
    PROVE  KeepsUp(p)
  <1> DEFINE s == Session(p)
             n == [threads[p] EXCEPT !.at = "flags", !.codes = s.dtcs]
  <1>1. threads[p].at = "evidence" /\ Become(p, n)
    BY DEF ReadEvidence, At
  <1>2. /\ IsLocals(threads[p]) /\ threads = [q \in Threads |-> threads[q]] /\ LocalInv(p)
        /\ threads[p] # Idle /\ threads[p].req.op \in {"diagnosis", "basket"}
    BY <1>1, Handling
  <1>3. /\ n.at = "flags" /\ n.by = threads[p].by /\ n.req = threads[p].req
        /\ n.scored = threads[p].scored /\ n.codes = s.dtcs
    BY <1>2 DEF IsLocals, LocalKeys
  <1> HIDE DEF n
  <1>4. threads[p].scored = << >> /\ DOMAIN << >> = {}
    BY <1>1, <1>2 DEF LocalInv, ScoreInv
  <1>5. Follows(n, s)
    BY <1>1, <1>3, <1>4 DEF Follows, ScoreSteps, SellSteps, Looping
  <1>6. threads'[p] = n
    BY <1>1, <1>2 DEF Become
  <1> QED BY <1>3, <1>5, <1>6 DEF KeepsUp

LEMMA FlagsKeepUp ==
    ASSUME SessionInv, NEW p \in Threads, FlagsBegin(p) \/ FlagsClear(p),
           Follows(threads[p], Session(p))
    PROVE  KeepsUp(p)
  <1> DEFINE s == Session(p)
             n == [threads[p] EXCEPT !.at = "flag_loop", !.flags = s.flags]
             c == [threads[p] EXCEPT !.at = "scan"]
  <1>1. threads[p].at \in {"flags", "flag_loop"}
    BY DEF FlagsBegin, FlagsClear, At
  <1>2. /\ IsLocals(threads[p]) /\ threads = [q \in Threads |-> threads[q]]
        /\ threads[p].req.op \in {"diagnosis", "basket"}
    BY <1>1, Handling DEF ScoreSteps
  <1>3. CASE FlagsBegin(p)
    <2>1. threads'[p] = n
      BY <1>2, <1>3 DEF FlagsBegin, Become
    <2>2. /\ n.at = "flag_loop" /\ n.by = threads[p].by /\ n.req = threads[p].req
          /\ n.scored = threads[p].scored /\ n.codes = threads[p].codes /\ n.flags = s.flags
      BY <1>2 DEF IsLocals, LocalKeys
    <2> HIDE DEF n
    <2>3. Follows(n, s)
      BY <1>1, <2>2 DEF Follows, ScoreSteps, SellSteps, Looping
    <2> QED BY <2>1, <2>2, <2>3 DEF KeepsUp
  <1>4. CASE FlagsClear(p)
    <2>1. /\ threads'[p] = c /\ threads[p].at = "flag_loop"
          /\ ~Stops(Selected(p)[threads[p].k], threads[p].flags)
      BY <1>2, <1>4 DEF FlagsClear, Go, Become, Graph, At
    <2>2. /\ c.at = "scan" /\ c.by = threads[p].by /\ c.req = threads[p].req /\ c.k = threads[p].k
          /\ c.scored = threads[p].scored /\ c.codes = threads[p].codes
      BY <1>2 DEF IsLocals, LocalKeys
    <2> HIDE DEF c
    <2>3. Selected(p) = Chosen(c.req.op, GraphsForDtcs(s.dtcs)) /\ threads[p].flags = s.flags
      BY <2>1, <2>2 DEF Follows, Selected
    <2>4. Follows(c, s)
      BY <1>1, <2>1, <2>2, <2>3 DEF Follows, ScoreSteps, SellSteps, Looping
    <2> QED BY <2>1, <2>2, <2>4 DEF KeepsUp
  <1> QED BY <1>3, <1>4

(* What grew meanwhile would have been a write.                            *)
LEMMA NothingGrew ==
    ASSUME SessionInv, NEW p \in Threads, Follows(threads[p], Session(p))
    PROVE  ~FlagsChanged(p) /\ ~ScanChanged(p)
  BY DEF FlagsChanged, ScanChanged, Follows, At, Observed

LEMMA ScanBeginKeepsUp ==
    ASSUME SessionInv, NEW p \in Threads, ScanBegin(p), Follows(threads[p], Session(p))
    PROVE  KeepsUp(p)
  <1> DEFINE s == Session(p)
             size == Cardinality(Observed(p))
             step == IF threads[p].at = "scan" THEN "scan_loop" ELSE "satisfied_loop"
             n == [threads[p] EXCEPT !.at = step, !.seen = << >>, !.size = size]
  <1>1. threads[p].at \in {"scan", "satisfied"}
    BY DEF ScanBegin
  <1>2. /\ IsLocals(threads[p]) /\ threads = [q \in Threads |-> threads[q]]
        /\ threads[p].req.op \in {"diagnosis", "basket"}
    BY <1>1, Handling DEF ScoreSteps, SellSteps
  <1>3. threads'[p] = n
    BY <1>2 DEF ScanBegin, Become
  <1>4. /\ n.at = step /\ n.by = threads[p].by /\ n.req = threads[p].req /\ n.k = threads[p].k
        /\ n.scored = threads[p].scored /\ n.codes = threads[p].codes
        /\ n.seen = << >> /\ n.size = size
    BY <1>2 DEF IsLocals, LocalKeys
  <1> HIDE DEF n
  <1>5. step \in Looping /\ (step = "scan_loop" => threads[p].at = "scan") /\ step \notin {"done", "graphs"}
    BY DEF Looping
  <1>6. step \in ScoreSteps \cup SellSteps /\ step \notin {"flag_loop", "scan", "next", "signals"}
    BY DEF ScoreSteps, SellSteps
  <1>7. size = Cardinality(DOMAIN s.observations)
    BY DEF Observed
  <1> HIDE DEF step, size
  <1>8. << >> = [t \in DOMAIN << >> |-> s.observations[t]]
    OBVIOUS
  <1>9. /\ threads[p].by = s.dtcs /\ GraphsForDtcs(s.dtcs) # << >> /\ threads[p].codes = s.dtcs
        /\ \A i \in DOMAIN threads[p].scored :
              threads[p].scored[i].score = ScoreOf(Chosen(threads[p].req.op, GraphsForDtcs(s.dtcs))[i], s)
        /\ threads[p].at = "scan" =>
              ~Stops(Chosen(threads[p].req.op, GraphsForDtcs(s.dtcs))[threads[p].k], s.flags)
    BY <1>1 DEF Follows, ScoreSteps, SellSteps
  <1>10. Follows(n, s)
    BY <1>4, <1>5, <1>6, <1>7, <1>8, <1>9 DEF Follows
  <1> QED BY <1>3, <1>4, <1>5, <1>10 DEF KeepsUp

LEMMA ScanNextKeepsUp ==
    ASSUME SessionInv, NEW p \in Threads, ScanNext(p), Follows(threads[p], Session(p))
    PROVE  KeepsUp(p)
  <1> DEFINE s == Session(p)
             all == GraphsForDtcs(s.dtcs)
  <1>1. threads[p].at \in {"scan_loop", "satisfied_loop"}
    BY DEF ScanNext, Looping
  <1>2. /\ IsLocals(threads[p]) /\ threads = [q \in Threads |-> threads[q]]
        /\ threads[p].req.op \in {"diagnosis", "basket"}
    BY <1>1, Handling DEF ScoreSteps, SellSteps
  <1> PICK t \in Observed(p) :
        Become(p, [threads[p] EXCEPT !.seen = Put(@, t, Session(p).observations[t])])
    BY DEF ScanNext
  <1> DEFINE seen == Put(threads[p].seen, t, s.observations[t])
             n == [threads[p] EXCEPT !.seen = seen]
  <1>3. threads'[p] = n
    BY <1>2 DEF Become
  <1>4. seen = [x \in DOMAIN seen |-> s.observations[x]]
    <2>1. threads[p].seen = [x \in DOMAIN threads[p].seen |-> s.observations[x]]
      BY <1>1 DEF Follows, Looping
    <2> QED BY <2>1 DEF Put
  <1> HIDE DEF seen
  <1>5. /\ n.at = threads[p].at /\ n.by = threads[p].by /\ n.req = threads[p].req /\ n.k = threads[p].k
        /\ n.scored = threads[p].scored /\ n.codes = threads[p].codes
        /\ n.seen = seen /\ n.size = threads[p].size
    BY <1>2 DEF IsLocals, LocalKeys
  <1> HIDE DEF n
  <1>6. /\ threads[p].by = s.dtcs /\ all # << >> /\ threads[p].codes = s.dtcs
        /\ threads[p].size = Cardinality(DOMAIN s.observations)
        /\ \A i \in DOMAIN threads[p].scored :
              threads[p].scored[i].score = ScoreOf(Chosen(threads[p].req.op, all)[i], s)
        /\ threads[p].at \in {"scan", "scan_loop"} =>
              ~Stops(Chosen(threads[p].req.op, all)[threads[p].k], s.flags)
    BY <1>1 DEF Follows, ScoreSteps, SellSteps, Looping
  <1>7. Follows(n, s)
    BY <1>1, <1>4, <1>5, <1>6 DEF Follows
  <1> QED BY <1>1, <1>3, <1>5, <1>7 DEF KeepsUp

LEMMA GradedKeepsUp ==
    ASSUME SessionInv, NEW p \in Threads, Follows(threads[p], Session(p)),
           threads[p].at \in {"flag_loop", "scan_loop"}, NEW score, NEW used, Graded(p, score, used),
           score = ScoreOf(Graph(p), Session(p))
    PROVE  KeepsUp(p)
  <1> DEFINE s == Session(p)
             old == threads[p].scored
             e == [score |-> score, used |-> used]
             scored == Append(old, e)
             step == IF threads[p].req.op = "basket" THEN "basket"
                     ELSE IF threads[p].k = Len(Selected(p)) THEN "collate" ELSE "flags"
             n == [threads[p] EXCEPT !.at = step, !.scored = scored,
                                     !.seen = << >>, !.size = 0, !.flags = {}, !.k = @ + 1]
  <1>1. threads[p].at \in ScoreSteps /\ threads[p].at # "graphs"
    BY DEF ScoreSteps
  <1>2. /\ IsLocals(threads[p]) /\ threads = [q \in Threads |-> threads[q]] /\ LocalInv(p)
        /\ threads[p] # Idle /\ threads[p].req.op \in {"diagnosis", "basket"}
    BY <1>1, Handling
  <1>3. threads'[p] = n
    BY <1>2 DEF Graded, Become
  <1> HIDE DEF scored, step
  <1>4. /\ n.at = step /\ n.by = threads[p].by /\ n.req = threads[p].req
        /\ n.scored = scored /\ n.codes = threads[p].codes
    BY <1>2 DEF IsLocals, LocalKeys
  <1> HIDE DEF n
  <1> DEFINE all == GraphsForDtcs(s.dtcs)
             gs == Chosen(threads[p].req.op, all)
  <1>5. threads[p].by = s.dtcs /\ all # << >> /\ threads[p].codes = s.dtcs
        /\ \A i \in DOMAIN old : old[i].score = ScoreOf(gs[i], s)
    BY <1>1 DEF Follows
  <1>6. Graph(p) = gs[threads[p].k]
    BY <1>5 DEF Graph, Selected
  <1>7. IsList(old) /\ threads[p].k = Len(old) + 1
    BY <1>1, <1>2 DEF LocalInv, ScoreInv
  <1> HIDE DEF gs, all
  <1>8. PICK m : /\ m = Len(old) /\ DOMAIN old = 1 .. m /\ DOMAIN scored = 1 .. m + 1 /\ m \in Nat
                 /\ \A i \in 1 .. m : scored[i] = old[i]
                 /\ scored[m + 1] = e
    <2> HIDE DEF e
    <2>1. IsAppended(scored, old, e)
      BY <1>7, Listed, Zenon DEF scored
    <2> QED
      BY <2>1, Zenon DEF IsAppended
  <1>9. e.score = ScoreOf(gs[m + 1], s)
    <2>1. e.score = score
      OBVIOUS
    <2> HIDE DEF e
    <2> QED BY <1>6, <1>7, <1>8, <2>1, Zenon
  <1> HIDE DEF e
  <1>10. \A i \in DOMAIN scored : scored[i].score = ScoreOf(gs[i], s)
    <2> SUFFICES ASSUME NEW i \in 1 .. m + 1 PROVE scored[i].score = ScoreOf(gs[i], s)
      BY <1>8, Zenon
    <2>1. i \in 1 .. m \/ i = m + 1
      BY <1>8
    <2> QED BY <1>5, <1>8, <1>9, <2>1, Zenon
  <1>11. step \in {"basket", "collate", "flags"}
    BY DEF step
  <1>12. /\ step \notin {"done", "graphs", "flag_loop", "scan", "scan_loop", "next", "signals"}
         /\ step \notin Looping
    BY <1>11 DEF Looping
  <1>13. Follows(n, s)
    BY <1>4, <1>5, <1>10, <1>12 DEF Follows, gs, all
  <1> QED BY <1>3, <1>4, <1>12, <1>13 DEF KeepsUp

LEMMA ScoresKeepUp ==
    ASSUME SessionInv, NEW p \in Threads, FlagsStop(p) \/ ScanEnd(p),
           Follows(threads[p], Session(p))
    PROVE  KeepsUp(p)
  <1> DEFINE s == Session(p)
             g == Graph(p)
  <1>1. threads[p].at \in {"flag_loop", "scan_loop"}
    BY DEF FlagsStop, ScanEnd, At
  <1>2. /\ threads[p].req.op \in {"diagnosis", "basket"}
        /\ threads[p].req.op \notin {"create", "demand"} => IsSession(s)
    BY <1>1, Handling DEF ScoreSteps
  <1>3. g = Chosen(threads[p].req.op, GraphsForDtcs(s.dtcs))[threads[p].k]
    BY <1>1 DEF Follows, Graph, Selected
  <1>4. CASE FlagsStop(p)
    <2>1. Graded(p, StoppedScore(g), {}) /\ Stops(g, threads[p].flags) /\ threads[p].flags = s.flags
      BY <1>4 DEF FlagsStop, At, Follows
    <2>2. StoppedScore(g) = ScoreOf(g, s)
      BY <2>1 DEF ScoreOf, Score
    <2> QED BY <1>1, <2>1, <2>2, GradedKeepsUp
  <1>5. CASE ScanEnd(p)
    <2>1. Graded(p, Score(g, threads[p].seen, {}, threads[p].codes), DOMAIN threads[p].seen)
      BY <1>5 DEF ScanEnd
    <2>2. /\ threads[p].codes = s.dtcs /\ DOMAIN threads[p].seen = DOMAIN s.observations
          /\ threads[p].seen = [t \in DOMAIN threads[p].seen |-> s.observations[t]]
      BY <1>5 DEF ScanEnd, At, AllSeen, Observed, Follows, Looping, ScoreSteps
    <2>3. threads[p].seen = s.observations
      BY <1>2, <2>2 DEF IsSession
    <2>4. ~Stops(g, s.flags)
      BY <1>3, <1>5 DEF ScanEnd, At, Follows
    <2>5. Score(g, threads[p].seen, {}, threads[p].codes) = ScoreOf(g, s)
      BY <2>2, <2>3, <2>4 DEF ScoreOf, Score, Stops
    <2> QED BY <1>1, <2>1, <2>5, GradedKeepsUp
  <1> QED BY <1>4, <1>5

LEMMA CollateKeepsUp ==
    ASSUME SessionInv, NEW p \in Threads, Collate(p), Follows(threads[p], Session(p))
    PROVE  KeepsUp(p)
  <1> DEFINE s == Session(p)
             all == GraphsForDtcs(s.dtcs)
             scored == threads[p].scored
             reply == [diagnoses |-> ByScore(Scores(p)), freezeFrame |-> s.freezeFrame]
  <1>1. threads[p].at = "collate" /\ Reply(p, 200, reply)
    BY DEF Collate, At
  <1> HIDE DEF reply
  <1>2. /\ threads[p].req.op = "diagnosis" /\ LocalInv(p) /\ threads[p] # Idle
        /\ IsLocals(threads[p]) /\ threads = [q \in Threads |-> threads[q]]
    BY <1>1, Handling
  <1>3. threads[p].by = s.dtcs /\ \A i \in DOMAIN scored : scored[i].score = ScoreOf(all[i], s)
    BY <1>1, <1>2 DEF Follows, Chosen
  <1>4. DOMAIN scored = DOMAIN all
    <2>1. Len(scored) = Len(Selected(p)) /\ IsList(scored)
      BY <1>1, <1>2 DEF LocalInv, ScoreInv
    <2>2. Selected(p) = all
      BY <1>2, <1>3 DEF Selected, Chosen
    <2>3. DOMAIN Selected(p) = 1 .. Len(Selected(p))
      BY ChosenIsList DEF Selected
    <2>4. DOMAIN scored = 1 .. Len(scored)
      BY <2>1, LenProperties DEF IsList
    <2> QED BY <2>1, <2>2, <2>3, <2>4
  <1>5. Scores(p) = {ScoreOf(all[i], s) : i \in DOMAIN all}
    BY <1>3, <1>4 DEF Scores
  <1>6. ByScore(Scores(p)) = ScoreAll(all, s.observations, s.flags, s.dtcs)
    BY <1>5 DEF ScoreAll, ScoreOf
  <1>7. Expected(threads[p].req) = reply
    <2>1. Expected(threads[p].req) =
            [diagnoses |-> ScoreAll(all, s.observations, s.flags, s.dtcs), freezeFrame |-> s.freezeFrame]
      BY <1>2 DEF Expected, Session
    <2> QED BY <1>6, <2>1 DEF reply
  <1>8. threads'[p].at = "done" /\ threads'[p].status = 200 /\ threads'[p].reply = reply
    BY <1>1, <1>2, Replied
  <1> QED BY <1>7, <1>8 DEF KeepsUp, AnsweredRight

LEMMA BasketKeepsUp ==
    ASSUME SessionInv, NEW p \in Threads, BasketEarly(p) \/ BasketReply(p),
           Follows(threads[p], Session(p))
    PROVE  KeepsUp(p)
  <1> DEFINE s == Session(p)
             g == Head(GraphsForDtcs(s.dtcs))
             score == threads[p].scored[1].score
  <1>1. threads[p].at \in {"basket", "satisfied_loop"} /\ threads[p].at \in SellSteps
    BY DEF BasketEarly, BasketReply, At, SellSteps
  <1>2. /\ threads[p].req.op = "basket" /\ LocalInv(p) /\ threads[p] # Idle
        /\ IsLocals(threads[p]) /\ threads = [q \in Threads |-> threads[q]]
        /\ threads[p].req.op \notin {"create", "demand"} => IsSession(s)
    BY <1>1, Handling
  <1>3. /\ threads[p].by = s.dtcs /\ GraphsForDtcs(s.dtcs) # << >> /\ threads[p].codes = s.dtcs
        /\ \A i \in DOMAIN threads[p].scored : threads[p].scored[i].score = ScoreOf(<< g >>[i], s)
    BY <1>1, <1>2 DEF Follows, Chosen
  <1>4. Head(Selected(p)) = g
    BY <1>2, <1>3 DEF Selected, Chosen
  <1>5. score = ScoreOf(g, s)
    <2>1. Len(threads[p].scored) = 1 /\ IsList(threads[p].scored)
      BY <1>1, <1>2 DEF LocalInv, ScoreInv
    <2>2. DOMAIN threads[p].scored = 1 .. 1
      BY <2>1, LenProperties DEF IsList
    <2> QED BY <1>3, <2>2
  <1>6. Expected(threads[p].req) = RepairBasket(g, score, s.observations)
    BY <1>2, <1>5 DEF Expected, Session, ScoreOf
  <1> HIDE DEF score
  <1>7. ASSUME NEW reply, Reply(p, 200, reply), reply = RepairBasket(g, score, s.observations)
        PROVE  KeepsUp(p)
    <2>1. threads'[p].at = "done" /\ threads'[p].status = 200 /\ threads'[p].reply = reply
      BY <1>2, <1>7, Replied
    <2> QED BY <1>6, <1>7, <2>1 DEF KeepsUp, AnsweredRight
  <1>8. CASE BasketReply(p)
    <2>1. /\ Reply(p, 200, Basket(p, threads[p].seen)) /\ DOMAIN threads[p].seen = DOMAIN s.observations
          /\ threads[p].seen = [t \in DOMAIN threads[p].seen |-> s.observations[t]]
      BY <1>8 DEF BasketReply, At, AllSeen, Observed, Follows, Looping, SellSteps
    <2>2. threads[p].seen = s.observations
      BY <1>2, <2>1 DEF IsSession
    <2>3. Basket(p, threads[p].seen) = RepairBasket(g, score, s.observations)
      BY <1>4, <2>2 DEF Basket, score
    <2> QED BY <1>7, <2>1, <2>3
  <1>9. CASE BasketEarly(p)
    <2>1. CASE score.stopped \/ Observed(p) = {}
      <3>1. Reply(p, 200, EmptyBasket)
        BY <1>9, <2>1 DEF BasketEarly, score
      <3>2. RepairBasket(g, score, s.observations) = EmptyBasket
        BY <2>1 DEF RepairBasket, Observed
      <3> QED BY <1>7, <3>1, <3>2
    <2>2. CASE ~(score.stopped \/ Observed(p) = {})
      <3>1. Go(p, "satisfied")
        BY <1>9, <2>2 DEF BasketEarly, score
      <3> DEFINE l == threads'[p]
      <3>2. /\ l.at = "satisfied" /\ l.req = threads[p].req /\ l.by = threads[p].by
            /\ l.codes = threads[p].codes /\ l.scored = threads[p].scored
        BY <1>2, <3>1, Moved
      <3> HIDE DEF l
      <3>3. Follows(l, s)
        BY <1>2, <1>3, <3>2 DEF Follows, Chosen, Looping, ScoreSteps
      <3> QED BY <3>2, <3>3 DEF KeepsUp, l
    <2> QED BY <2>1, <2>2
  <1> QED BY <1>8, <1>9

-----------------------------------------------------------------------------
(* Every selected graph is one of the loaded ones.                         *)
LEMMA SelectedAreGraphs ==
    ASSUME NEW codes
    PROVE  \A at \in DOMAIN GraphsForDtcs(codes) :
              \E k \in DOMAIN Graphs : GraphsForDtcs(codes)[at] = Graphs[k] /\ Matching(k, codes) > 0
  <1> DEFINE matched == {k \in DOMAIN Graphs : Matching(k, codes) > 0}
             before(j, k) == \/ Matching(j, codes) > Matching(k, codes)
                             \/ Matching(j, codes) = Matching(k, codes) /\ j < k
             order == InOrder(matched, before)
             g == [i \in DOMAIN order |-> Graphs[order[i]]]
             R == {pair \in matched \X matched : before(pair[1], pair[2])}
             Below(x) == {y \in matched : << y, x >> \in R}
  <1>1. IsFiniteSet(matched)
    BY SessionAssumption, FS_Subset
  <1>2. \A k \in matched : k \in Nat /\ Matching(k, codes) \in Nat
    <2>1. \A k \in DOMAIN Graphs : k \in Nat /\ IsFiniteSet(Graphs[k].dtcs)
      BY GraphsAssumption, LenProperties DEF WellFormed
    <2>2. \A k \in DOMAIN Graphs : Matching(k, codes) \in Nat
      BY <2>1, FS_Intersection, FS_CardinalityType DEF Matching
    <2> QED BY <2>1, <2>2
  <1>3. GraphsForDtcs(codes) = g
    BY DEF GraphsForDtcs, GraphsIn
  <1>4. DOMAIN g = DOMAIN order /\ \A i \in DOMAIN order : g[i] = Graphs[order[i]]
    OBVIOUS
  <1>5. DOMAIN order = 1 .. Cardinality(matched)
    BY DEF InOrder
  <1>6. \A i \in 1 .. Cardinality(matched) :
           order[i] = CHOOSE x \in matched : Cardinality({y \in matched : before(y, x)}) = i - 1
    BY DEF InOrder
  <1>7. \A x \in matched : {y \in matched : before(y, x)} = Below(x)
    OBVIOUS
  <1>8. \A i \in 1 .. Cardinality(matched) : \E x \in matched : Cardinality(Below(x)) = i - 1
    <2>1. \A x \in matched : << x, x >> \notin R
      BY <1>2
    <2>2. \A x, y \in matched : x # y => << x, y >> \in R \/ << y, x >> \in R
      BY <1>2
    <2>3. \A x, y, z \in matched : << x, y >> \in R /\ << y, z >> \in R => << x, z >> \in R
      BY <1>2
    <2> HIDE DEF R, matched
    <2> QED
      BY <1>1, <2>1, <2>2, <2>3, Ranking, Zenon
  <1>9. ASSUME NEW i \in 1 .. Cardinality(matched) PROVE order[i] \in matched
    <2>1. \E x \in matched : Cardinality({y \in matched : before(y, x)}) = i - 1
      BY <1>7, <1>8
    <2> HIDE DEF matched, order
    <2> QED BY <1>6, <2>1
  <1> HIDE DEF order, g
  <1>10. \A at \in DOMAIN g : \E k \in matched : g[at] = Graphs[k]
    <2> HIDE DEF matched
    <2> QED BY <1>4, <1>5, <1>9
  <1> QED
    BY <1>3, <1>10

LEMMA TestsAreList ==
    ASSUME NEW codes
    PROVE  IsList(TestsOf(GraphsForDtcs(codes)))
  <1> DEFINE gs == GraphsForDtcs(codes)
             lists == [i \in DOMAIN gs |-> gs[i].tests]
             T == UNION {Range(gs[i].tests) : i \in DOMAIN gs}
  <1>1. PICK n \in Nat : DOMAIN gs = 1 .. n
    BY SelectedIsList
  <1>2. \A i \in DOMAIN gs : gs[i].tests \in Seq(T)
    <2> SUFFICES ASSUME NEW i \in DOMAIN gs PROVE gs[i].tests \in Seq(T)
      OBVIOUS
    <2>1. PICK k \in DOMAIN Graphs : gs[i] = Graphs[k]
      BY SelectedAreGraphs
    <2>2. gs[i].tests \in Seq(Range(gs[i].tests))
      BY <2>1, GraphsAssumption DEF WellFormed
    <2>3. Range(gs[i].tests) \subseteq T
      OBVIOUS
    <2> HIDE DEF T, gs
    <2> QED BY <2>2, <2>3, SeqMonotonic
  <1>3. lists \in Seq(Seq(T))
    <2>1. lists \in [1 .. n -> Seq(T)]
      BY <1>1, <1>2
    <2> HIDE DEF lists, T
    <2> QED BY <2>1, SeqDef
  <1>4. TestsOf(gs) \in Seq(T)
    <2> HIDE DEF T
    <2> QED BY <1>3, Flattened DEF TestsOf
  <1> HIDE DEF T, gs
  <1>5. TestsOf(gs) \in Seq(Range(TestsOf(gs)))
    <2> PICK t : t = TestsOf(gs)
      OBVIOUS
    <2>1. t \in [1 .. Len(t) -> T] /\ Len(t) \in Nat
      BY <1>4, LenProperties
    <2>2. t \in [1 .. Len(t) -> Range(t)]
      BY <2>1 DEF Range
    <2> QED BY <2>1, <2>2, SeqDef
  <1> QED
    BY <1>5 DEF IsList, gs

LEMMA NextKeepsUp ==
    ASSUME SessionInv, NEW p \in Threads, NextCheck(p), Follows(threads[p], Session(p))
    PROVE  KeepsUp(p)
  <1> DEFINE s == Session(p)
             all == GraphsForDtcs(s.dtcs)
             tests == TestsOf(all)
             k == threads[p].k
             recorded == DOMAIN s.observations
             untested == {i \in DOMAIN tests : tests[i].id \notin recorded}
  <1>1. threads[p].at = "next"
    BY DEF NextCheck, At
  <1>2. /\ IsLocals(threads[p]) /\ threads = [q \in Threads |-> threads[q]]
        /\ threads[p].req.op = "next"
    BY <1>1, Handling
  <1>3. /\ threads[p].by = s.dtcs /\ all # << >> /\ k \in Nat \ {0}
        /\ \A i \in 1 .. k - 1 : tests[i].id \in recorded
    BY <1>1 DEF Follows
  <1>4. TestsOf(Selected(p)) = tests
    BY <1>2, <1>3 DEF Selected, Chosen
  <1>5. Len(tests) \in Nat /\ DOMAIN tests = 1 .. Len(tests)
    BY TestsAreList, LenProperties DEF IsList
  <1>6. Expected(threads[p].req) = NextTest(all, recorded).id
    BY <1>2 DEF Expected, Session
  <1>7. NextTest(all, recorded) = IF untested = {} THEN NoTest ELSE tests[Min(untested)]
    BY DEF NextTest
  <1>8. ASSUME NEW reply, Reply(p, 200, reply), reply = NextTest(all, recorded).id
        PROVE  KeepsUp(p)
    <2>1. threads'[p].at = "done" /\ threads'[p].status = 200 /\ threads'[p].reply = reply
      BY <1>2, <1>8, Replied
    <2> QED BY <1>6, <1>8, <2>1 DEF KeepsUp, AnsweredRight
  <1>9. CASE k > Len(tests)
    <2>1. Reply(p, 200, NoTest.id)
      BY <1>4, <1>9 DEF NextCheck
    <2>2. untested = {}
      <3> HIDE DEF tests, recorded, k
      <3> QED BY <1>3, <1>5, <1>9
    <2> QED BY <1>7, <1>8, <2>1, <2>2
  <1>10. CASE ~(k > Len(tests)) /\ tests[k].id \notin Observed(p)
    <2>1. Reply(p, 200, tests[k].id)
      BY <1>4, <1>10 DEF NextCheck
    <2>2. k \in untested /\ \A i \in untested : k <= i /\ i \in Nat
      <3>1. Observed(p) = recorded
        BY DEF Observed
      <3> HIDE DEF tests, recorded, k
      <3> QED BY <1>3, <1>5, <1>10, <3>1
    <2>3. Min(untested) = k
      <3> HIDE DEF untested, k
      <3>1. \A x \in untested : (\A y \in untested : x <= y) => x = k
        BY <1>3, <2>2
      <3> QED BY <2>2, <3>1 DEF Min
    <2> QED BY <1>7, <1>8, <2>1, <2>2, <2>3
  <1>11. CASE ~(k > Len(tests)) /\ tests[k].id \in Observed(p)
    <2> DEFINE n == [threads[p] EXCEPT !.k = k + 1]
    <2>1. Become(p, n)
      BY <1>4, <1>11 DEF NextCheck
    <2>2. n.at = "next" /\ n.by = s.dtcs /\ n.k = k + 1 /\ n.req = threads[p].req
      BY <1>1, <1>2, <1>3 DEF IsLocals, LocalKeys
    <2> HIDE DEF n
    <2>3. threads'[p] = n
      BY <1>2, <2>1 DEF Become
    <2>4. k + 1 \in Nat \ {0} /\ \A i \in 1 .. k + 1 - 1 : tests[i].id \in recorded
      <3>1. Observed(p) = recorded
        BY DEF Observed
      <3> HIDE DEF tests, recorded, k
      <3> QED BY <1>3, <1>11, <3>1
    <2>5. Follows(n, s)
      BY <1>3, <2>2, <2>4 DEF Follows, Looping, ScoreSteps, SellSteps
    <2> QED BY <2>2, <2>3, <2>5 DEF KeepsUp
  <1> QED BY <1>9, <1>10, <1>11

LEMMA SignalsKeepUp ==
    ASSUME SessionInv, NEW p \in Threads, SignalCheck(p), Follows(threads[p], Session(p))
    PROVE  KeepsUp(p)
  <1> DEFINE s == Session(p)
             all == GraphsForDtcs(s.dtcs)
             seen == threads[p].seen
             recorded == DOMAIN s.observations
             open == SignalsOf(all) \ DOMAIN seen
  <1>1. threads[p].at = "signals"
    BY DEF SignalCheck, At
  <1>2. /\ IsLocals(threads[p]) /\ threads = [q \in Threads |-> threads[q]]
        /\ threads[p].req.op = "signals"
    BY <1>1, Handling
  <1>3. /\ threads[p].by = s.dtcs /\ all # << >>
        /\ \A x \in DOMAIN seen : x \in SignalsOf(all) /\ seen[x] = Measurement(all, x, recorded)
    BY <1>1 DEF Follows
  <1>4. Selected(p) = all /\ Observed(p) = recorded
    BY <1>2, <1>3 DEF Selected, Chosen, Observed
  <1>5. CASE open = {}
    <2>1. Reply(p, 200, Range(seen))
      BY <1>4, <1>5 DEF SignalCheck
    <2>2. threads'[p].at = "done" /\ threads'[p].status = 200 /\ threads'[p].reply = Range(seen)
      BY <1>2, <2>1, Replied
    <2>3. DOMAIN seen = SignalsOf(all)
      BY <1>3, <1>5
    <2>4. Range(seen) = RequiredSignals(all, recorded)
      BY <1>3, <2>3 DEF Range, RequiredSignals
    <2>5. Expected(threads[p].req) = RequiredSignals(all, recorded)
      BY <1>2 DEF Expected, Session
    <2> QED BY <2>2, <2>4, <2>5 DEF KeepsUp, AnsweredRight
  <1>6. CASE open # {}
    <2>1. PICK x \in open : Become(p, [threads[p] EXCEPT !.seen = Put(@, x, Measurement(all, x, recorded))])
      BY <1>4, <1>6 DEF SignalCheck
    <2> DEFINE more == Put(seen, x, Measurement(all, x, recorded))
               n == [threads[p] EXCEPT !.seen = more]
    <2>2. DOMAIN more = DOMAIN seen \cup {x} /\ more[x] = Measurement(all, x, recorded)
          /\ \A y \in DOMAIN seen \ {x} : more[y] = seen[y]
      BY DEF Put
    <2> HIDE DEF more
    <2>3. n.at = "signals" /\ n.by = s.dtcs /\ n.seen = more /\ n.req = threads[p].req
      BY <1>1, <1>2, <1>3 DEF IsLocals, LocalKeys
    <2>4. threads'[p] = n
      BY <1>2, <2>1 DEF Become, more
    <2> HIDE DEF n
    <2>5. \A y \in DOMAIN more : y \in SignalsOf(all) /\ more[y] = Measurement(all, y, recorded)
      BY <1>3, <2>2
    <2>6. Follows(n, s)
      BY <1>3, <2>3, <2>5 DEF Follows, Looping, ScoreSteps, SellSteps
    <2> QED BY <2>3, <2>4, <2>6 DEF KeepsUp
  <1> QED BY <1>5, <1>6

LEMMA WalkBeginKeepsUp ==
    ASSUME SessionInv, NEW p \in Threads, WalkBegin(p), WalkFollows(threads[p], sessions)
    PROVE  WalkKeepsUp(p)
  <1> DEFINE size == Cardinality(DOMAIN sessions)
             n == [threads[p] EXCEPT !.at = "walk_loop", !.size = size]
  <1>1. threads[p].at = "walk" /\ Become(p, n)
    BY DEF WalkBegin, At
  <1>2. IsLocals(threads[p]) /\ threads = [q \in Threads |-> threads[q]]
    BY <1>1, Walking
  <1>3. threads[p].seen = << >>
    BY <1>1 DEF WalkFollows
  <1>4. n.at = "walk_loop" /\ n.size = size /\ n.seen = << >>
    BY <1>2, <1>3 DEF IsLocals, LocalKeys
  <1> HIDE DEF n
  <1>5. threads'[p] = n
    BY <1>1, <1>2 DEF Become
  <1>6. << >> = [i \in DOMAIN << >> |-> {PrimaryOf(sessions[i].dtcs)}]
    OBVIOUS
  <1>7. WalkFollows(n, sessions)
    BY <1>4, <1>6 DEF WalkFollows
  <1> QED BY <1>4, <1>5, <1>7 DEF WalkKeepsUp

LEMMA WalkNextKeepsUp ==
    ASSUME SessionInv, NEW p \in Threads, WalkNext(p), WalkFollows(threads[p], sessions)
    PROVE  WalkKeepsUp(p)
  <1> DEFINE seen == threads[p].seen
  <1>1. threads[p].at = "walk_loop"
    BY DEF WalkNext, At
  <1>2. IsLocals(threads[p]) /\ threads = [q \in Threads |-> threads[q]]
    BY <1>1, Walking
  <1>3. PICK sid \in DOMAIN sessions :
          Become(p, [threads[p] EXCEPT !.seen = Put(@, sid, {PrimaryOf(sessions[sid].dtcs)})])
    BY DEF WalkNext
  <1> DEFINE more == Put(seen, sid, {PrimaryOf(sessions[sid].dtcs)})
             n == [threads[p] EXCEPT !.seen = more]
  <1>4. more = [i \in DOMAIN more |-> {PrimaryOf(sessions[i].dtcs)}]
    <2>1. seen = [i \in DOMAIN seen |-> {PrimaryOf(sessions[i].dtcs)}]
      BY <1>1 DEF WalkFollows
    <2> HIDE DEF seen
    <2> QED BY <2>1 DEF Put
  <1>5. threads'[p] = n
    BY <1>2, <1>3 DEF Become
  <1> HIDE DEF more
  <1>6. n.at = "walk_loop" /\ n.size = threads[p].size /\ n.seen = more
    BY <1>1, <1>2 DEF IsLocals, LocalKeys
  <1> HIDE DEF n
  <1>7. WalkFollows(n, sessions)
    BY <1>1, <1>4, <1>6 DEF WalkFollows
  <1> QED BY <1>5, <1>6, <1>7 DEF WalkKeepsUp

LEMMA WalkEndKeepsUp ==
    ASSUME SessionInv, NEW p \in Threads, WalkChanged(p) \/ WalkEnd(p), WalkFollows(threads[p], sessions)
    PROVE  WalkKeepsUp(p)
  <1> DEFINE seen == threads[p].seen
             of == [i \in DOMAIN sessions |-> {PrimaryOf(sessions[i].dtcs)}]
  <1>1. threads[p].at = "walk_loop"
    BY DEF WalkChanged, WalkEnd, At
  <1>2. /\ IsLocals(threads[p]) /\ threads = [q \in Threads |-> threads[q]]
        /\ threads[p].req.op = "demand"
    BY <1>1, Walking
  <1>3. /\ threads[p].size = Cardinality(DOMAIN sessions)
        /\ seen = [i \in DOMAIN seen |-> {PrimaryOf(sessions[i].dtcs)}]
    BY <1>1 DEF WalkFollows
  <1>4. WalkEnd(p)
    BY <1>3 DEF WalkChanged, Walked
  <1>5. Reply(p, 200, Released(seen)) /\ DOMAIN seen = DOMAIN sessions
    BY <1>4 DEF WalkEnd
  <1>6. seen = of
    BY <1>3, <1>5
  <1>7. Expected(threads[p].req) = Released(seen)
    <2>1. Expected(threads[p].req) = Released(of)
      BY <1>2 DEF Expected
    <2> HIDE DEF of, seen
    <2> QED BY <1>6, <2>1
  <1>8. threads'[p].at = "done" /\ threads'[p].status = 200 /\ threads'[p].reply = Released(seen)
    <2> HIDE DEF seen
    <2> QED BY <1>2, <1>5, Replied
  <1> HIDE DEF seen
  <1> QED BY <1>7, <1>8 DEF WalkKeepsUp, AnsweredRight

-----------------------------------------------------------------------------
(* A handler keeps its request and when it began, and counts its writes.   *)
Kept(p) == threads'[p].req = threads[p].req /\ threads'[p].began = threads[p].began

LEMMA KeptBy ==
    ASSUME SessionInv, NEW p \in Threads, threads[p].at \notin {"idle", "done"},
           NEW n, Become(p, n), n.req = threads[p].req, n.began = threads[p].began
    PROVE  Kept(p)
  <1>1. threads = [q \in Threads |-> threads[q]]
    BY Handling
  <1> QED BY <1>1 DEF Become, Kept

LEMMA ReplyKeeps ==
    ASSUME SessionInv, NEW p \in Threads, threads[p].at \notin {"idle", "done"},
           NEW status, NEW reply, Reply(p, status, reply)
    PROVE  Kept(p)
  <1> DEFINE n == [threads[p] EXCEPT !.at = "done", !.status = status, !.reply = reply]
  <1>1. IsLocals(threads[p])
    BY Handling
  <1>2. n.req = threads[p].req /\ n.began = threads[p].began
    BY <1>1 DEF IsLocals, LocalKeys
  <1>3. Become(p, n)
    BY DEF Reply
  <1> HIDE DEF n
  <1> QED BY <1>2, <1>3, KeptBy

LEMMA MovesKeep ==
    ASSUME SessionInv, NEW p \in Threads, threads[p].at \notin {"idle", "done"},
           \/ \E step : Go(p, step)
           \/ \E status, reply : Reply(p, status, reply)
    PROVE  Kept(p)
  <1>1. IsLocals(threads[p])
    BY Handling
  <1>2. ASSUME NEW step, Go(p, step) PROVE Kept(p)
    <2> DEFINE n == [threads[p] EXCEPT !.at = step]
    <2>1. Become(p, n) /\ n.req = threads[p].req /\ n.began = threads[p].began
      BY <1>1, <1>2 DEF IsLocals, LocalKeys, Go
    <2> HIDE DEF n
    <2> QED BY <2>1, KeptBy
  <1> QED BY <1>2, ReplyKeeps

LEMMA ReadsKeep ==
    ASSUME SessionInv, NEW p \in Threads, threads[p].at \notin {"idle", "done"},
           \/ SelectGraphs(p) \/ ReadEvidence(p) \/ FlagsBegin(p) \/ ScanBegin(p) \/ ScanNext(p)
           \/ FlagsStop(p) \/ ScanEnd(p)
    PROVE  Kept(p)
  <1>1. IsLocals(threads[p])
    BY Handling
  <1>2. ASSUME SelectGraphs(p) PROVE Kept(p)
    <2> DEFINE n == [threads[p] EXCEPT !.at = AfterGraphs(threads[p].req.op), !.by = Session(p).dtcs]
    <2>1. n.req = threads[p].req /\ n.began = threads[p].began
      BY <1>1 DEF IsLocals, LocalKeys
    <2>2. Reply(p, 422, NoReply) \/ Become(p, n)
      BY <1>2 DEF SelectGraphs, Refuse
    <2> HIDE DEF n
    <2> QED BY <2>1, <2>2, KeptBy, MovesKeep
  <1>3. ASSUME ReadEvidence(p) PROVE Kept(p)
    <2> DEFINE n == [threads[p] EXCEPT !.at = "flags", !.codes = Session(p).dtcs]
    <2>1. Become(p, n) /\ n.req = threads[p].req /\ n.began = threads[p].began
      BY <1>1, <1>3 DEF IsLocals, LocalKeys, ReadEvidence
    <2> HIDE DEF n
    <2> QED BY <2>1, KeptBy
  <1>4. ASSUME FlagsBegin(p) PROVE Kept(p)
    <2> DEFINE n == [threads[p] EXCEPT !.at = "flag_loop", !.flags = Session(p).flags]
    <2>1. Become(p, n) /\ n.req = threads[p].req /\ n.began = threads[p].began
      BY <1>1, <1>4 DEF IsLocals, LocalKeys, FlagsBegin
    <2> HIDE DEF n
    <2> QED BY <2>1, KeptBy
  <1>5. ASSUME ScanBegin(p) PROVE Kept(p)
    <2> DEFINE step == IF threads[p].at = "scan" THEN "scan_loop" ELSE "satisfied_loop"
               n == [threads[p] EXCEPT !.at = step, !.seen = << >>, !.size = Cardinality(Observed(p))]
    <2>1. Become(p, n)
      BY <1>5 DEF ScanBegin
    <2> HIDE DEF step
    <2>2. n.req = threads[p].req /\ n.began = threads[p].began
      BY <1>1 DEF IsLocals, LocalKeys
    <2> HIDE DEF n
    <2> QED BY <2>1, <2>2, KeptBy
  <1>6. ASSUME ScanNext(p) PROVE Kept(p)
    <2>1. PICK t : Become(p, [threads[p] EXCEPT !.seen = Put(@, t, Session(p).observations[t])])
      BY <1>6 DEF ScanNext
    <2> DEFINE n == [threads[p] EXCEPT !.seen = Put(@, t, Session(p).observations[t])]
    <2>2. n.req = threads[p].req /\ n.began = threads[p].began
      BY <1>1 DEF IsLocals, LocalKeys
    <2> QED BY <2>1, <2>2, KeptBy
  <1>7. ASSUME FlagsStop(p) \/ ScanEnd(p) PROVE Kept(p)
    <2>1. PICK score, used : Graded(p, score, used)
      BY <1>7 DEF FlagsStop, ScanEnd
    <2> DEFINE step == IF threads[p].req.op = "basket" THEN "basket"
                       ELSE IF threads[p].k = Len(Selected(p)) THEN "collate" ELSE "flags"
               scored == Append(threads[p].scored, [score |-> score, used |-> used])
               n == [threads[p] EXCEPT !.at = step, !.scored = scored,
                                       !.seen = << >>, !.size = 0, !.flags = {}, !.k = @ + 1]
    <2>2. Become(p, n)
      BY <2>1 DEF Graded
    <2> HIDE DEF step, scored
    <2>3. n.req = threads[p].req /\ n.began = threads[p].began
      BY <1>1 DEF IsLocals, LocalKeys
    <2> HIDE DEF n
    <2> QED BY <2>2, <2>3, KeptBy
  <1> QED
    BY <1>2, <1>3, <1>4, <1>5, <1>6, <1>7

LEMMA SearchesKeep ==
    ASSUME SessionInv, NEW p \in Threads, threads[p].at \notin {"idle", "done"},
           NextCheck(p) \/ SignalCheck(p) \/ WalkBegin(p) \/ WalkNext(p)
    PROVE  Kept(p)
  <1>1. IsLocals(threads[p])
    BY Handling
  <1>2. ASSUME NextCheck(p) PROVE Kept(p)
    <2> DEFINE n == [threads[p] EXCEPT !.k = threads[p].k + 1]
    <2>1. n.req = threads[p].req /\ n.began = threads[p].began
      BY <1>1 DEF IsLocals, LocalKeys
    <2>2. (\E reply : Reply(p, 200, reply)) \/ Become(p, n)
      BY <1>2 DEF NextCheck
    <2> HIDE DEF n
    <2> QED BY <2>1, <2>2, KeptBy, MovesKeep
  <1>3. ASSUME NEW seen, Become(p, [threads[p] EXCEPT !.seen = seen]) PROVE Kept(p)
    <2> DEFINE n == [threads[p] EXCEPT !.seen = seen]
    <2>1. Become(p, n) /\ n.req = threads[p].req /\ n.began = threads[p].began
      BY <1>1, <1>3 DEF IsLocals, LocalKeys
    <2> HIDE DEF n
    <2> QED BY <2>1, KeptBy
  <1>4. ASSUME SignalCheck(p) PROVE Kept(p)
    <2> DEFINE open == SignalsOf(Selected(p)) \ DOMAIN threads[p].seen
    <2>1. CASE open = {}
      <3>1. Reply(p, 200, Range(threads[p].seen))
        BY <1>4, <2>1 DEF SignalCheck
      <3> QED BY <3>1, MovesKeep
    <2>2. CASE open # {}
      <3>1. PICK x : Become(p, [threads[p] EXCEPT
                        !.seen = Put(@, x, Measurement(Selected(p), x, Observed(p)))])
        BY <1>4, <2>2 DEF SignalCheck
      <3> QED BY <1>3, <3>1
    <2> QED BY <2>1, <2>2
  <1>5. ASSUME WalkBegin(p) PROVE Kept(p)
    <2> DEFINE n == [threads[p] EXCEPT !.at = "walk_loop", !.size = Cardinality(DOMAIN sessions)]
    <2>1. Become(p, n) /\ n.req = threads[p].req /\ n.began = threads[p].began
      BY <1>1, <1>5 DEF IsLocals, LocalKeys, WalkBegin
    <2> HIDE DEF n
    <2> QED BY <2>1, KeptBy
  <1>6. ASSUME WalkNext(p) PROVE Kept(p)
    <2>1. PICK sid : Become(p, [threads[p] EXCEPT !.seen = Put(@, sid, {PrimaryOf(sessions[sid].dtcs)})])
      BY <1>6 DEF WalkNext
    <2> QED BY <1>3, <2>1
  <1> QED
    BY <1>2, <1>4, <1>5, <1>6

LEMMA HandleKeeps ==
    ASSUME SessionInv, NEW p \in Threads, Handle(p)
    PROVE  /\ threads[p].at \notin {"idle", "done"}
           /\ Kept(p)
           /\ \A q \in Threads \ {p} : threads'[q] = threads[q]
           /\ (version' = version /\ sessions' = sessions) \/ version' = version + 1
  <1>1. threads[p].at \notin {"idle", "done"}
    BY DEF Handle, Create, SetVin, SetDtcs, Respond, Record, Flag, PostOutcome, SetFreezeFrame,
           SelectGraphs, ReadEvidence, FlagsBegin, FlagsStop, FlagsChanged, FlagsClear, ScanBegin,
           ScanChanged, ScanNext, ScanEnd, Collate, BasketEarly, BasketReply, NextCheck, SignalCheck,
           WalkBegin, WalkNext, WalkChanged, WalkEnd, At, Looping
  <1>2. \A q \in Threads \ {p} : threads'[q] = threads[q]
    BY HandleStep DEF StepOk
  <1>3. (version' = version /\ sessions' = sessions) \/ version' = version + 1
    BY DEF Handle, Create, SetVin, SetDtcs, Respond, Record, Flag, PostOutcome, SetFreezeFrame,
           SelectGraphs, ReadEvidence, FlagsBegin, FlagsStop, FlagsChanged, FlagsClear, ScanBegin,
           ScanChanged, ScanNext, ScanEnd, Collate, BasketEarly, BasketReply, NextCheck, SignalCheck,
           WalkBegin, WalkNext, WalkChanged, WalkEnd, Write, Untouched
  <1>4. \/ \E step : Go(p, step)
        \/ \E status, reply : Reply(p, status, reply)
        \/ SelectGraphs(p) \/ ReadEvidence(p) \/ FlagsBegin(p) \/ ScanBegin(p) \/ ScanNext(p)
        \/ FlagsStop(p) \/ ScanEnd(p)
        \/ NextCheck(p) \/ SignalCheck(p) \/ WalkBegin(p) \/ WalkNext(p)
    BY DEF Handle, Create, SetVin, SetDtcs, Respond, Record, Flag, PostOutcome, SetFreezeFrame,
           FlagsChanged, FlagsClear, ScanChanged, Collate, BasketEarly, BasketReply,
           WalkChanged, WalkEnd, ServerError, Refuse
  <1>5. Kept(p)
    BY <1>1, <1>4, MovesKeep, ReadsKeep, SearchesKeep
  <1> QED
    BY <1>1, <1>2, <1>3, <1>5

-----------------------------------------------------------------------------
(* A reader's handler nothing was written into since it began follows the  *)
(* session, one of the demand analytics all sessions.                      *)
Paces(l, all, v) ==
    l # Idle =>
       /\ l.began \in Nat /\ l.began <= v
       /\ l.began = v /\ l.at # "done" =>
             /\ l.req.op \in Readers => Follows(l, all[l.req.sid])
             /\ l.req.op = "demand" => WalkFollows(l, all)

PaceInv ==
    /\ SessionInv /\ version \in Nat
    /\ \A p \in Threads : Paces(threads[p], sessions, version)

LEMMA ReaderKeepsUp ==
    ASSUME SessionInv, NEW p \in Threads, Handle(p), threads[p].req.op \in Readers,
           Follows(threads[p], Session(p))
    PROVE  KeepsUp(p) /\ version' = version /\ sessions' = sessions
  <1>1. threads[p].at \notin {"idle", "done"}
    BY HandleKeeps
  <1>2. /\ threads[p].at \notin {"vin", "dtcs", "respond", "record", "flag", "create", "outcome",
                                 "freeze", "walk", "walk_loop"}
    BY <1>1, Handling DEF Readers
  <1>3. \/ SelectGraphs(p) \/ ReadEvidence(p) \/ FlagsBegin(p) \/ FlagsClear(p) \/ ScanBegin(p)
        \/ FlagsChanged(p) \/ ScanChanged(p) \/ ScanNext(p) \/ FlagsStop(p) \/ ScanEnd(p)
        \/ Collate(p) \/ BasketEarly(p) \/ BasketReply(p) \/ NextCheck(p) \/ SignalCheck(p)
    BY <1>2 DEF Handle, Create, SetVin, SetDtcs, Respond, Record, Flag, PostOutcome, SetFreezeFrame,
                WalkBegin, WalkNext, WalkChanged, WalkEnd, At
  <1>4. KeepsUp(p)
    BY <1>3, NothingGrew, SelectKeepsUp, EvidenceKeepsUp, FlagsKeepUp, ScanBeginKeepsUp,
       ScanNextKeepsUp, ScoresKeepUp, CollateKeepsUp, BasketKeepsUp, NextKeepsUp, SignalsKeepUp
  <1>5. version' = version /\ sessions' = sessions
    BY <1>3 DEF SelectGraphs, ReadEvidence, FlagsBegin, FlagsClear, ScanBegin, FlagsChanged,
                ScanChanged, ScanNext, FlagsStop, ScanEnd, Collate, BasketEarly, BasketReply,
                NextCheck, SignalCheck, Untouched
  <1> QED BY <1>4, <1>5

LEMMA WalkerKeepsUp ==
    ASSUME SessionInv, NEW p \in Threads, Handle(p), threads[p].req.op = "demand",
           WalkFollows(threads[p], sessions)
    PROVE  WalkKeepsUp(p) /\ version' = version /\ sessions' = sessions
  <1>1. threads[p].at \notin {"idle", "done"}
    BY HandleKeeps
  <1>2. threads[p].at \in {"walk", "walk_loop"}
    BY <1>1, Handling DEF LocalInv, ThreadInv, Steps
  <1>3. WalkBegin(p) \/ WalkNext(p) \/ WalkChanged(p) \/ WalkEnd(p)
    BY <1>2 DEF Handle, Create, SetVin, SetDtcs, Respond, Record, Flag, PostOutcome, SetFreezeFrame,
                SelectGraphs, ReadEvidence, FlagsBegin, FlagsStop, FlagsChanged, FlagsClear, ScanBegin,
                ScanChanged, ScanNext, ScanEnd, Collate, BasketEarly, BasketReply, NextCheck,
                SignalCheck, At, Looping
  <1>4. WalkKeepsUp(p)
    BY <1>3, WalkBeginKeepsUp, WalkNextKeepsUp, WalkEndKeepsUp
  <1>5. version' = version /\ sessions' = sessions
    BY <1>3 DEF WalkBegin, WalkNext, WalkChanged, WalkEnd, Untouched
  <1> QED BY <1>4, <1>5

LEMMA BeginPaces ==
    ASSUME PaceInv, NEW p \in Threads, NEW req \in Requests, Begin(p, req)
    PROVE  Paces(threads'[p], sessions', version') /\ version' = version /\ sessions' = sessions
  <1>1. version' = version /\ sessions' = sessions
    BY DEF Begin, Untouched
  <1>2. threads = [q \in Threads |-> threads[q]] /\ version \in Nat
    BY DEF PaceInv, SessionInv, SharedInv
  <1>3. PICK step, status : /\ threads'[p] = Locals(req, step, status)
                            /\ step = "done" \/ step = FirstStep(req.op)
    BY <1>2 DEF Begin, Become
  <1> DEFINE l == Locals(req, step, status)
  <1>4. l.at = step /\ l.req = req /\ l.began = version /\ l.seen = << >> /\ l.k = 1
    BY DEF Locals
  <1> HIDE DEF l
  <1>5. ASSUME NEW s, step # "done", req.op \in Readers PROVE Follows(l, s)
    <2>1. step = "graphs"
      BY <1>3, <1>5 DEF FirstStep, Readers
    <2> QED BY <1>4, <2>1 DEF Follows, ScoreSteps, SellSteps, Looping
  <1>6. ASSUME step # "done", req.op = "demand" PROVE WalkFollows(l, sessions)
    <2>1. step = "walk"
      BY <1>3, <1>6 DEF FirstStep
    <2> QED BY <1>4, <2>1 DEF WalkFollows
  <1>7. Paces(l, sessions, version)
    BY <1>2, <1>4, <1>5, <1>6 DEF Paces
  <1> QED
    BY <1>1, <1>3, <1>7 DEF l

(* What others do is a write, or leaves all as it was.                     *)
LEMMA OthersPace ==
    ASSUME PaceInv, NEW q \in Threads, threads'[q] = threads[q],
           (version' = version /\ sessions' = sessions) \/ version' = version + 1
    PROVE  Paces(threads'[q], sessions', version')
  <1> PICK l : l = threads[q]
    OBVIOUS
  <1>1. Paces(l, sessions, version) /\ version \in Nat
    BY DEF PaceInv
  <1>2. CASE version' = version /\ sessions' = sessions
    BY <1>1, <1>2
  <1>3. CASE version' = version + 1
    BY <1>1, <1>3 DEF Paces
  <1> QED BY <1>2, <1>3

LEMMA HandlePaces ==
    ASSUME PaceInv, NEW p \in Threads, Handle(p)
    PROVE  Paces(threads'[p], sessions', version')
  <1> PICK l, n : l = threads[p] /\ n = threads'[p]
    OBVIOUS
  <1>1. /\ SessionInv /\ version \in Nat /\ Paces(l, sessions, version)
        /\ l.at \notin {"idle", "done"} /\ n.req = l.req /\ n.began = l.began
        /\ (version' = version /\ sessions' = sessions) \/ version' = version + 1
    BY HandleKeeps DEF PaceInv, Kept
  <1>2. l # Idle
    BY <1>1 DEF Idle
  <1>3. l.began \in Nat /\ l.began <= version
    BY <1>1, <1>2 DEF Paces
  <1>4. CASE version' = version + 1
    BY <1>1, <1>3, <1>4 DEF Paces
  <1>5. CASE version' = version /\ sessions' = sessions
    <2>1. ASSUME n.began = version, n.at # "done", n.req.op \in Readers
          PROVE  Follows(n, sessions[n.req.sid])
      <3>1. Follows(l, sessions[l.req.sid])
        BY <1>1, <1>2, <2>1 DEF Paces
      <3>2. KeepsUp(p)
        BY <1>1, <2>1, <3>1, ReaderKeepsUp DEF Session
      <3> QED BY <1>1, <2>1, <3>2 DEF KeepsUp, Session
    <2>2. ASSUME n.began = version, n.at # "done", n.req.op = "demand"
          PROVE  WalkFollows(n, sessions)
      <3>1. WalkFollows(l, sessions)
        BY <1>1, <1>2, <2>2 DEF Paces
      <3>2. WalkKeepsUp(p)
        BY <1>1, <2>2, <3>1, WalkerKeepsUp
      <3> QED BY <2>2, <3>2 DEF WalkKeepsUp
    <2>3. Paces(n, sessions, version)
      BY <1>1, <1>3, <2>1, <2>2 DEF Paces
    <2> QED BY <1>5, <2>3
  <1> QED BY <1>1, <1>4, <1>5

LEMMA InitPace == SessionInit => PaceInv
  <1> SUFFICES ASSUME SessionInit PROVE PaceInv
    OBVIOUS
  <1>1. SessionInv
    BY InitSession
  <1>2. version = 0 /\ \A p \in Threads : threads[p] = Idle
    BY DEF SessionInit
  <1> QED BY <1>1, <1>2 DEF PaceInv, Paces

LEMMA NextPace == PaceInv /\ [SessionNext]_vars => PaceInv'
  <1> SUFFICES ASSUME PaceInv, [SessionNext]_vars PROVE PaceInv'
    OBVIOUS
  <1>1. SessionInv'
    BY NextSession DEF PaceInv
  <1>2. CASE SessionNext
    <2>1. PICK p \in Threads : (\E req \in Requests : Begin(p, req)) \/ Handle(p)
      BY <1>2 DEF SessionNext
    <2>2. /\ \A q \in Threads \ {p} : threads'[q] = threads[q]
          /\ (version' = version /\ sessions' = sessions) \/ version' = version + 1
          /\ Paces(threads'[p], sessions', version')
      <3>1. CASE \E req \in Requests : Begin(p, req)
        BY <3>1, BeginStep, BeginPaces DEF PaceInv, StepOk
      <3>2. CASE Handle(p)
        BY <3>2, HandleKeeps, HandlePaces DEF PaceInv
      <3> QED BY <2>1, <3>1, <3>2
    <2>3. \A q \in Threads : Paces(threads'[q], sessions', version')
      BY <2>2, OthersPace
    <2>4. version' \in Nat
      BY <2>2 DEF PaceInv
    <2> QED BY <1>1, <2>3, <2>4 DEF PaceInv
  <1>3. CASE UNCHANGED vars
    BY <1>1, <1>3 DEF PaceInv, vars
  <1> QED BY <1>2, <1>3

(* An answer nothing was written into is the one the engine defines for    *)
(* the session, whatever else the threads do in between (main.py's         *)
(* handlers over engine.py).                                               *)
THEOREM UndisturbedIsSequential == SessionSpec => UndisturbedAgrees
  <1>1. PaceInv /\ [SessionNext]_vars => [AnswersAgree]_vars
    <2> SUFFICES ASSUME PaceInv, SessionNext, NEW p \in Threads,
                        threads[p].at \notin {"idle", "done"}, threads'[p].at = "done",
                        threads[p].began = version,
                        threads[p].req.op \in Readers \cup {"demand"}
                 PROVE  AnsweredRight(p)
      BY DEF Readers, AnswersAgree, AnsweredRight
    <2>1. SessionInv /\ Paces(threads[p], sessions, version) /\ threads[p] # Idle
      BY DEF PaceInv, Idle
    <2>2. Handle(p)
      <3>1. PICK q \in Threads : (\E req \in Requests : Begin(q, req)) \/ Handle(q)
        BY DEF SessionNext
      <3>2. q = p
        BY <2>1, <3>1, BeginStep, HandleKeeps DEF StepOk
      <3> QED BY <3>1, <3>2 DEF Begin
    <2>3. CASE threads[p].req.op \in Readers
      <3>1. Follows(threads[p], Session(p))
        BY <2>1, <2>3 DEF Paces, Session
      <3> QED BY <2>1, <2>2, <2>3, <3>1, ReaderKeepsUp DEF KeepsUp
    <2>4. CASE threads[p].req.op = "demand"
      <3>1. WalkFollows(threads[p], sessions)
        BY <2>1, <2>4 DEF Paces
      <3> QED BY <2>1, <2>2, <2>4, <3>1, WalkerKeepsUp DEF WalkKeepsUp
    <2> QED BY <2>3, <2>4
  <1> QED
    BY <1>1, InitPace, NextPace, PTL DEF SessionSpec, UndisturbedAgrees
=============================================================================
