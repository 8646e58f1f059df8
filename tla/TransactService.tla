-------------------------- MODULE TransactService ---------------------------
(***************************************************************************)
(* What a caller of tp_transact may rely on, one step per call and per     *)
(* answer: a call that succeeds returns one whole answer an ECU gave, each *)
(* answer at most once - but not necessarily the answer to this call,      *)
(* because answers nobody took stay pending across calls.  CanSession      *)
(* implements this service frame by frame; ObdClient uses it.              *)
(***************************************************************************)
EXTENDS Integers, Sequences

CONSTANTS
    Answers,    (* every answer an ECU can give: a.req, asked by call a.call *)
    NotSent     (* stands for a request that could not be transmitted *)

VARIABLES
    asked,      \* the requests of the calls made so far, in order
    busy,       \* a call is in progress
    given,      \* answers an ECU has given
    returned,   \* answers some call has returned
    outcome,    \* what the last call returned: an answer or an error
    lossy       \* the receive queue has dropped a frame

serviceVars == << asked, busy, given, returned, outcome, lossy >>

(* A call ends with one answer or, with no answer, an error code.          *)
Error(code) == [code |-> code, answer |-> {}]
Ok(a) == [code |-> "OK", answer |-> {a}]

(* The call in progress, or the last one.                                  *)
Current == Len(asked)

Pending == given \ returned

ServiceInit ==
    /\ asked = << >>
    /\ busy = FALSE
    /\ given = {}
    /\ returned = {}
    /\ outcome = Error("NONE")
    /\ lossy = FALSE

Ask(r) ==
    /\ ~busy
    /\ busy' = TRUE
    /\ asked' = Append(asked, r)
    /\ outcome' = Error("NONE")
    /\ UNCHANGED << given, returned, lossy >>

(* The request could not be transmitted.                                   *)
AskFails ==
    /\ ~busy
    /\ asked' = Append(asked, NotSent)
    /\ outcome' = Error("TIMEOUT")
    /\ UNCHANGED << busy, given, returned, lossy >>

(* The answer is to this or an earlier call, and not given before.         *)
Fresh(a) ==
    /\ a.call \in DOMAIN asked
    /\ a.req = asked[a.call]
    /\ a \notin given

(* An ECU gives its answer, at any time.                                   *)
Say(a) ==
    /\ Fresh(a)
    /\ given' = given \cup {a}
    /\ UNCHANGED << asked, busy, returned, outcome, lossy >>

Ends(res) ==
    /\ busy
    /\ busy' = FALSE
    /\ outcome' = res
    /\ UNCHANGED << asked, given, lossy >>

Return(a) ==
    /\ a \in Pending
    /\ Ends(Ok(a))
    /\ returned' = returned \cup {a}

GiveUp == Ends(Error("TIMEOUT")) /\ UNCHANGED returned

(* A transfer is refused only where an answer to an earlier call got in    *)
(* its way, or frames were missed.                                         *)
Refuse ==
    /\ lossy \/ \E a \in Pending : a.call < Current
    /\ Ends(Error("PROTOCOL"))
    /\ UNCHANGED returned

(* With frames missing, bytes of two answers can be joined.                *)
Garble ==
    /\ lossy
    /\ Ends(Error("GARBLED"))
    /\ \E gone \in SUBSET Pending : returned' = returned \cup gone

(* The queue is full: a frame is dropped, maybe of an answer just begun.   *)
Miss ==
    /\ lossy' = TRUE
    /\ \/ UNCHANGED given
       \/ \E a \in Answers : Fresh(a) /\ given' = given \cup {a}
    /\ UNCHANGED << asked, busy, returned, outcome >>

ServiceNext ==
    \/ \E a \in Answers : Say(a) \/ Return(a)
    \/ AskFails \/ \E r \in {a.req : a \in Answers} : Ask(r)
    \/ GiveUp \/ Refuse \/ Garble \/ Miss

ServiceSpec == ServiceInit /\ [][ServiceNext]_serviceVars
=============================================================================
