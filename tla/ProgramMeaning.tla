--------------------------- MODULE ProgramMeaning ---------------------------
(* What a program of FnCompiler means, statement by statement, without       *)
(* registers or jumps: the reference its chunk is compared with.  Operators  *)
(* evaluate from left to right, "and" does not evaluate its right side when  *)
(* the left is false, a division by zero panics, a range evaluates its       *)
(* bounds once, and "continue" goes on with the next value of a range.       *)
EXTENDS Bytecode

Openers == {"if", "for", "range"}

(* Nesting of the statements after k: how many blocks opened by k or later   *)
(* are open before m.                                                        *)
DepthBetween(body, k, m) ==
  Cardinality({j \in k .. m - 1 : body[j][1] \in Openers})
    - Cardinality({j \in k .. m - 1 : body[j][1] = "end"})

(* The first statement of that kind that belongs to the block opened at k.   *)
Matching(body, k, kinds) ==
  LET own == {m \in k + 1 .. Len(body) : /\ body[m][1] \in kinds
                                         /\ DepthBetween(body, k, m) = 1}
  IN CHOOSE m \in own : \A n \in own : m <= n

EndOf(body, k) == Matching(body, k, {"end"})
ElseOf(body, k) == Matching(body, k, {"else", "end"})
OpenerOf(body, m) == CHOOSE k \in 1 .. m - 1 : body[k][1] \in Openers /\ EndOf(body, k) = m

(* The innermost loop around statement m.                                    *)
LoopAround(body, m) ==
  LET loops == {k \in 1 .. m - 1 : body[k][1] \in {"for", "range"} /\ EndOf(body, k) > m}
  IN CHOOSE k \in loops : \A j \in loops : j <= k

-----------------------------------------------------------------------------
(* An evaluation: the variables, what the environment has seen, the value of *)
(* the last expression.                                                      *)
ValueOf(s, a) == IF a[1] = "lit" THEN a[2] ELSE s.env[a[2]]

Yield(s, v) == [s EXCEPT !.value = v]
Truth(s, b) == Yield(s, IF b THEN 1 ELSE 0)

Observe(s, report, input) ==
  [Yield(s, Answer(input, Len(s.seen) + 1)) EXCEPT !.seen = Append(@, report)]

EvalCall(s, f, x, y, input) ==
  IF f = Small THEN Yield(s, Sum(x, y)) ELSE Observe(s, <<f, x, y>>, input)

EvalRef(s, f, v, input) ==
  IF f = Look THEN Observe(s, <<Look, s.env[v]>>, input)
  ELSE LET t == Observe(s, <<Change>>, input) IN [t EXCEPT !.env[v] = t.value]

EvalSimple(s, e, input) ==
  IF e[1] = "call" THEN EvalCall(s, e[2], ValueOf(s, e[3]), ValueOf(s, e[4]), input)
                   ELSE Yield(s, ValueOf(s, e))

EvalAnd(s, a, b, input) ==
  IF ValueOf(s, a) = 0 THEN Yield(s, 0) ELSE EvalSimple(s, b, input)

Eval(s, e, input) ==
  LET a == ValueOf(s, e[2])
      b == ValueOf(s, e[3])
  IN CASE e[1] \in {"lit", "var", "call"} -> EvalSimple(s, e, input)
       [] e[1] = "add" -> Yield(s, Sum(a, b))
       [] e[1] = "div" -> IF b = 0 THEN [s EXCEPT !.status = "panicked"] ELSE Yield(s, a \div b)
       [] e[1] = "less" -> Truth(s, a < b)
       [] e[1] = "equal" -> Truth(s, a = b)
       [] e[1] = "not" -> Truth(s, a = 0)
       [] e[1] = "and" -> EvalAnd(s, e[2], e[3], input)
       [] e[1] = "ref" -> EvalRef(s, e[2], e[3], input)
       [] e[1] = "spread" -> Observe(s, <<Spread, a, b>>, input)

-----------------------------------------------------------------------------
Goto(s, m) == [s EXCEPT !.at = m]
SetVar(s, v) == [s EXCEPT !.env = [w \in DOMAIN @ \cup {v} |-> IF w = v THEN s.value ELSE @[w]]]
LeaveWith(s, v) == [s EXCEPT !.seen = Append(@, <<v>>), !.status = "returned"]

(* A range begins with its first value, and its end goes on with the next.   *)
RangeFrom(s, body, k, v) ==
  LET t == SetVar(Yield(s, v), body[k][2])
  IN Goto(t, IF v < ValueOf(s, body[k][4]) THEN k + 1 ELSE EndOf(body, k) + 1)

AtEnd(s, body) ==
  LET k == OpenerOf(body, s.at)
  IN CASE body[k][1] = "if" -> Goto(s, s.at + 1)
       [] body[k][1] = "for" -> Goto(s, k)
       [] body[k][1] = "range" -> RangeFrom(s, body, k, Sum(s.env[body[k][2]], 1))

ExecuteStatement(s, body, input) ==
  LET st == body[s.at]
      on == Goto(s, s.at + 1)
      branch(t, over) == Goto(t, IF t.value = 0 THEN over + 1 ELSE s.at + 1)
  IN CASE st[1] \in {"let", "set"} -> SetVar(Eval(on, st[3], input), st[2])
       [] st[1] = "bump" -> SetVar(Yield(on, Sum(s.env[st[2]], 1)), st[2])
       [] st[1] = "do" -> Eval(on, st[2], input)
       [] st[1] = "if" -> branch(Eval(s, st[2], input), ElseOf(body, s.at))
       [] st[1] = "for" -> branch(Eval(s, st[2], input), EndOf(body, s.at))
       [] st[1] = "range" -> RangeFrom(s, body, s.at, ValueOf(s, st[3]))
       [] st[1] = "else" ->
            Goto(s, CHOOSE m \in s.at + 1 .. Len(body) :
                      /\ body[m][1] = "end" /\ ElseOf(body, OpenerOf(body, m)) = s.at)
       [] st[1] = "end" -> AtEnd(s, body)
       [] st[1] = "break" -> Goto(s, EndOf(body, LoopAround(body, s.at)) + 1)
       [] st[1] = "continue" -> Goto(s, EndOf(body, LoopAround(body, s.at)))
       [] st[1] = "return" ->
            LET t == Eval(on, st[2], input)
            IN IF t.status = "running" THEN LeaveWith(t, t.value) ELSE t

Meaning(program, input, fuel) ==
  LET entry == [at |-> 1, env |-> [v \in 0 .. program.params - 1 |-> input.args[v + 1]],
                value |-> 0, seen |-> <<>>, status |-> "running"]
      step(s) == IF s.at > Len(program.body) THEN LeaveWith(s, 0)
                 ELSE ExecuteStatement(s, program.body, input)
      last == Repeat(step, entry, fuel)
  IN [seen |-> last.seen, status |-> last.status]
=============================================================================
