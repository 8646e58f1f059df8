------------------------------- MODULE Rules --------------------------------
(***************************************************************************)
(* The "when" rules of the diagnostic graphs (backend/app/engine.py,       *)
(* _Parser and eval_rule): a recursive-descent evaluator over the tokens   *)
(* of a rule and the fields of one measurement.                            *)
(*                                                                         *)
(* A rule is the sequence of its tokens, each a string. A float is a       *)
(* rational <<numerator, denominator>>, denominator positive.              *)
(***************************************************************************)
EXTENDS Integers, Sequences

CONSTANT Literals   \* [numeric token -> the rational it denotes]

Fraction == Int \X {d \in Int : d > 0}

ASSUME LiteralsAssumption == Literals \in [DOMAIN Literals -> Fraction]

Zero == << 0, 1 >>
Truth(b) == IF b THEN << 1, 1 >> ELSE Zero
Holds(v) == v[1] # 0

-----------------------------------------------------------------------------
(* Arithmetic and comparison of two values.                                *)
Plus(a, b)  == << a[1] * b[2] + b[1] * a[2], a[2] * b[2] >>
Times(a, b) == << a[1] * b[1], a[2] * b[2] >>
Minus(a)    == << -a[1], a[2] >>
Over(a, b)  == IF b[1] > 0 THEN << a[1] * b[2], a[2] * b[1] >>
                           ELSE << -a[1] * b[2], -a[2] * b[1] >>
Less(a, b)  == a[1] * b[2] < b[1] * a[2]
Same(a, b)  == a[1] * b[2] = b[1] * a[2]

Compared(op, a, b) ==
    CASE op = ">"  -> Less(b, a)
      [] op = ">=" -> ~Less(a, b)
      [] op = "<"  -> Less(a, b)
      [] op = "<=" -> ~Less(b, a)
      [] op = "==" -> Same(a, b)
      [] op = "!=" -> ~Same(a, b)

-----------------------------------------------------------------------------
(* A method of the parser returns the next position and a value, or        *)
(* raises: `at` is then 0, and every caller raises in turn.                *)
Raised == [at |-> 0, value |-> Zero]
Yield(at, value) == [at |-> at, value |-> value]

ChainsAndLikeOr ==
    [or  |-> [ops |-> {"or", "and"}, operand |-> "cmp"],
     and |-> [ops |-> {"and"},    operand |-> "cmp"],
     add |-> [ops |-> {"+", "-"}, operand |-> "mul"],
     mul |-> [ops |-> {"*", "/"}, operand |-> "atom"]]

(* The methods that loop over a left-associative operator: which operators *)
(* they consume and which method reads an operand.                         *)
Chains == [or  |-> [ops |-> {"or"},     operand |-> "and"],
           and |-> [ops |-> {"and"},    operand |-> "cmp"],
           add |-> [ops |-> {"+", "-"}, operand |-> "mul"],
           mul |-> [ops |-> {"*", "/"}, operand |-> "atom"]]

Comparisons == {">", ">=", "<", "<=", "==", "!="}

(* One turn of a loop: `l` before it, `r` the operand read after op.       *)
Combined(op, l, r) ==
    IF r = Raised \/ (op = "/" /\ r.value[1] = 0) THEN Raised
    ELSE Yield(r.at,
               CASE op = "or"  -> Truth(Holds(l) \/ Holds(r.value))
                 [] op = "and" -> Truth(Holds(l) /\ Holds(r.value))
                 [] op = "+"   -> Plus(l, r.value)
                 [] op = "-"   -> Plus(l, Minus(r.value))
                 [] op = "*"   -> Times(l, r.value)
                 [] op = "/"   -> Over(l, r.value))

(* The parser. Goal <<"parse", m, at, v>>: method m called at position at  *)
(* (v is not used). Goal <<"rest", m, at, v>>: the loop of m, having got   *)
(* as far as at with value v.                                              *)
Parser(toks, fields) ==
    LET Peek(i) == IF i \in DOMAIN toks THEN toks[i] ELSE "the end"
        P[goal \in {"parse", "rest"} \X STRING \X Nat \X Fraction] ==
            LET method == goal[2]
                at     == goal[3]
                Call(m, i) == P[<< "parse", m, i, Zero >>]
                Rest(m, r) == IF r = Raised THEN Raised ELSE P[<< "rest", m, r.at, r.value >>]
                Negation(m) ==
                    LET r == Call(m, at + 1)
                    IN  IF r = Raised THEN Raised
                        ELSE Yield(r.at, IF m = "cmp" THEN Truth(~Holds(r.value))
                                                      ELSE Minus(r.value))
                Comparison(l) ==
                    IF l = Raised \/ Peek(l.at) \notin Comparisons THEN l
                    ELSE LET r == Call("add", l.at + 1)
                         IN  IF r = Raised THEN Raised
                             ELSE Yield(r.at, Truth(Compared(Peek(l.at), l.value, r.value)))
                Bracketed ==
                    LET r == Call("or", at + 1)
                    IN  IF r # Raised /\ Peek(r.at) = ")" THEN Yield(r.at + 1, r.value) ELSE Raised
                Word(t) ==
                    IF t \in DOMAIN Literals THEN Yield(at + 1, Literals[t])
                    ELSE IF t \in DOMAIN fields THEN Yield(at + 1, fields[t])
                    ELSE Raised
            IN  CASE goal[1] = "rest" ->
                         IF Peek(at) \in Chains[method].ops
                         THEN Rest(method, Combined(Peek(at), goal[4],
                                                    Call(Chains[method].operand, at + 1)))
                         ELSE Yield(at, goal[4])
                  [] goal[1] = "parse" /\ method \in DOMAIN Chains ->
                         Rest(method, Call(Chains[method].operand, at))
                  [] goal[1] = "parse" /\ method = "cmp" ->
                         IF Peek(at) = "not" THEN Negation("cmp") ELSE Comparison(Call("add", at))
                  [] goal[1] = "parse" /\ method = "atom" ->
                         CASE Peek(at) = "(" -> Bracketed
                           [] Peek(at) = "-" -> Negation("atom")
                           [] OTHER -> Word(Peek(at))
    IN  P[<< "parse", "or", 1, Zero >>]

(* eval_rule, and score's reading of an exception as "did not match": the  *)
(* whole rule must have been consumed.                                     *)
EvalRule(toks, fields) ==
    LET r == Parser(toks, fields)
    IN  r.at = Len(toks) + 1 /\ Holds(r.value)
=============================================================================
