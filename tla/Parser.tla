------------------------------- MODULE Parser -------------------------------
(***************************************************************************)
(* The parser (parser/mod.rs, parser/items.rs): recursive descent over the *)
(* tokens of one file.  A token is a tuple that begins with its kind; an   *)
(* identifier carries its name and whether the name begins with a capital. *)
(* What a function reads is [e |-> the node, p |-> where it stopped], at   *)
(* place 0 if it failed: nothing stands there, so that what follows a      *)
(* failure fails too.  The first failure of a file is its result: the      *)
(* resynchronisation behind it only looks for more to report.              *)
(***************************************************************************)
EXTENDS Naturals, Sequences, SequencesExt

Failed == [e |-> <<>>, p |-> 0]
Produced(node, p) == [e |-> node, p |-> p]
Nothing == <<"nothing">>

TokenAt(ts, p) == IF p = 0 THEN "failed" ELSE IF p > Len(ts) THEN "eof" ELSE ts[p][1]
Sees(ts, p, kind) == TokenAt(ts, p) = kind
Expect(ts, p, kind) == IF Sees(ts, p, kind) THEN p + 1 ELSE 0
ReadName(ts, p) == IF Sees(ts, p, "id") THEN Produced(ts[p][2], p + 1) ELSE Failed

LiteralKinds == {"int", "float", "str", "bytes", "true", "false"}
PrefixKinds == {"!", "-", "++", "--", "*", "&"}
Assignments == {"=", "+=", "-=", "*=", "/=", "%="}
TypeStarts == {"type", "id", "[", "&", "*", "!", "fn"}      \* not "**"

\* What a rule of the grammar reads at a place: the functions of the parser call
\* each other through it.
RECURSIVE Parse(_, _, _)

\* One or more, with commas between them.
RECURSIVE ReadMany(_, _, _)
ReadMany(rule, ts, p) ==
  LET one == Parse(rule, ts, p)
      more == IF Sees(ts, one.p, ",") THEN ReadMany(rule, ts, one.p + 1) ELSE Produced(<<>>, one.p)
  IN Produced(<<one.e>> \o more.e, more.p)

\* None or more, up to the closing token.
ReadWithin(what, close, ts, p) ==
  LET list == IF Sees(ts, p, close) THEN Produced(<<>>, p) ELSE ReadMany(what, ts, p)
  IN Produced(list.e, Expect(ts, list.p, close))

-----------------------------------------------------------------------------
(* Types. *)

ReadTypeArgs(ts, p) ==
  LET list == ReadMany("type", ts, Expect(ts, p, "[")) IN Produced(list.e, Expect(ts, list.p, "]"))
ReadOptionalTypeArgs(ts, p) == IF Sees(ts, p, "[") THEN Parse("typeargs", ts, p) ELSE Produced(<<>>, p)
ReadGenericParams(ts, p) ==
  IF ~Sees(ts, p, "[") THEN Produced(<<>>, p)
  ELSE LET list == ReadMany("name", ts, p + 1) IN Produced(list.e, Expect(ts, list.p, "]"))

\* Type arguments in front of a call; what does not read as such is left alone.
TryTypeArgs(ts, p) ==
  LET args == IF Sees(ts, p, "[") THEN Parse("typeargs", ts, p) ELSE Failed
  IN IF args.p = 0 THEN Produced(<<>>, p) ELSE args

RECURSIVE ReadPath(_, _, _)
ReadPath(ts, name, p) ==
  IF ~Sees(ts, p, ".") THEN Produced(name, p)
  ELSE LET next == ReadName(ts, p + 1) IN ReadPath(ts, name \o <<next.e>>, next.p)
ReadNamed(ts, p) ==
  LET name == ReadPath(ts, <<ts[p][2]>>, p + 1)
      args == ReadOptionalTypeArgs(ts, name.p)
  IN Produced(<<"named", name.e, args.e>>, args.p)
ReadDyn(ts, p) == LET name == ReadName(ts, p) IN Produced(<<"dyn", name.e>>, name.p)
ReadSequence(ts, p) ==
  LET elem == Parse("type", ts, p)
      length == elem.p + 1
  IN IF ~Sees(ts, elem.p, ";") THEN Produced(<<"slice", elem.e>>, Expect(ts, elem.p, "]"))
     ELSE IF Sees(ts, length, "..") THEN Produced(<<"flexible", elem.e>>, Expect(ts, length + 1, "]"))
     ELSE IF Sees(ts, length, "int") THEN Produced(<<"array", elem.e, ts[length][2]>>, Expect(ts, length + 1, "]"))
     ELSE Failed
ReadFnType(ts, p) ==
  LET params == ReadWithin("type", ")", ts, Expect(ts, p, "("))
      ret == IF TokenAt(ts, params.p) \in TypeStarts THEN Parse("type", ts, params.p) ELSE Produced(<<"prim", "void">>, params.p)
  IN Produced(<<"fntype", params.e, ret.e>>, ret.p)

ReadType(ts, p) ==
  LET k == TokenAt(ts, p)
      inner == Parse("type", ts, p + 1)
  IN CASE k = "type" -> Produced(<<"prim", ts[p][2]>>, p + 1)
       [] k = "id" -> IF ts[p][2] = "dyn" THEN ReadDyn(ts, p + 1) ELSE ReadNamed(ts, p)
       [] k = "[" -> ReadSequence(ts, p + 1)
       [] k = "!" -> Produced(<<"never">>, p + 1)
       [] k = "&" -> IF Sees(ts, inner.p, "!") THEN Produced(<<"mutref", inner.e>>, inner.p + 1) ELSE Produced(<<"ref", inner.e>>, inner.p)
       [] k = "*" -> Produced(<<"ptr", inner.e>>, inner.p)
       [] k = "**" -> Produced(<<"ptr", <<"ptr", inner.e>>>>, inner.p)
       [] k = "fn" -> ReadFnType(ts, p + 1)
       [] OTHER -> Failed

-----------------------------------------------------------------------------
(* Expressions. *)

\* The operators of the levels of one token.
LevelSigns ==
  [or |-> {}, and |-> {}, equality |-> {"==", "!="}, comparison |-> {"<", "<=", ">", ">="}, bitor |-> {"|"}, xor |-> {"^"},
   bitand |-> {"&"}, shift |-> {"<<", ">>"}, term |-> {"+", "-"}, factor |-> {"*", "/", "%"}]

\* Mutant: a bitwise level takes one half of a logical operator.
SingleOperatorAt(level, ts, p) == LET k == TokenAt(ts, p) IN IF k \in LevelSigns[level] THEN <<k, 1>> ELSE <<>>
\* The operator of a level here, with its length: two tokens make a logical one,
\* and the bitwise levels leave those alone.
OperatorAt(level, ts, p) ==
  LET k == TokenAt(ts, p)
      doubled == k \in {"|", "&"} /\ Sees(ts, p + 1, k)
  IN IF doubled THEN IF <<level, k>> \in {<<"or", "|">>, <<"and", "&">>} THEN <<level, 2>> ELSE <<>>
     ELSE IF k \in LevelSigns[level] THEN <<k, 1>> ELSE <<>>

\* Operators of a level, each with an operand of the next one: they group to the left.
RECURSIVE ReadRest(_, _, _, _)
ReadRest(level, tighter, ts, p) ==
  LET op == OperatorAt(level, ts, p)
      right == Parse(tighter, ts, p + op[2])
      more == ReadRest(level, tighter, ts, right.p)
  IN IF op = <<>> THEN Produced(<<>>, p) ELSE Produced(<< <<op[1], right.e>> >> \o more.e, more.p)
Combined(left, rest) == <<"binary", rest[1], left, rest[2]>>
ReadLevel(level, tighter, ts, p) ==
  LET first == Parse(tighter, ts, p)
      rest == ReadRest(level, tighter, ts, first.p)
  IN IF first.p = 0 THEN Failed ELSE IF rest.e = <<>> THEN first ELSE Produced(FoldLeft(Combined, first.e, rest.e), rest.p)

ReadLogicalOr(ts, p) == ReadLevel("or", "and", ts, p)
ReadLogicalAnd(ts, p) == ReadLevel("and", "equality", ts, p)
ReadEquality(ts, p) == ReadLevel("equality", "comparison", ts, p)
ReadComparison(ts, p) == ReadLevel("comparison", "bitor", ts, p)
ReadBitwiseOr(ts, p) == ReadLevel("bitor", "xor", ts, p)
ReadBitwiseXor(ts, p) == ReadLevel("xor", "bitand", ts, p)
ReadBitwiseAnd(ts, p) == ReadLevel("bitand", "shift", ts, p)
ReadShift(ts, p) == ReadLevel("shift", "term", ts, p)
ReadTerm(ts, p) == ReadLevel("term", "factor", ts, p)
ReadFactor(ts, p) == ReadLevel("factor", "power", ts, p)

\* It groups to the right.
ReadPower(ts, p) ==
  LET base == Parse("unary", ts, p)
      power == Parse("power", ts, base.p + 1)
  IN IF Sees(ts, base.p, "**") THEN Produced(Combined(base.e, <<"**", power.e>>), power.p) ELSE base

ReadRange(ts, p) ==
  LET start == Parse("or", ts, p)
      end == Parse("or", ts, start.p + 1)
      whole(e) == <<"cast", e, <<"prim", "i64">>>>
  IN IF TokenAt(ts, start.p) \notin {"..", "..="} THEN start
     ELSE Produced(<<"init", "Range", <<<<"start", whole(start.e)>>, <<"end", whole(end.e)>>,
                                    <<"inclusive", <<"literal", <<IF Sees(ts, start.p, "..=") THEN "true" ELSE "false">>>>>>>>>>, end.p)

ReadExpr(ts, p) ==
  LET left == ReadRange(ts, p)
      value == Parse("expr", ts, left.p + 1)
  IN IF TokenAt(ts, left.p) \in Assignments THEN Produced(<<"assign", ts[left.p][1], left.e, value.e>>, value.p) ELSE left

ReadUnary(ts, p) ==
  LET k == TokenAt(ts, p)
      x == Parse("unary", ts, p + 1)
  IN IF k \notin PrefixKinds THEN Parse("postfix", ts, p)
     ELSE IF k = "&" /\ Sees(ts, x.p, "!") THEN Produced(<<"prefix", "&!", x.e>>, x.p + 1)
     ELSE Produced(<<"prefix", k, x.e>>, x.p)

\* Arguments: the named ones, a name and "=", come last.
RECURSIVE ReadArgs(_, _)
ReadArgs(ts, p) ==
  LET isNamed == Sees(ts, p, "id") /\ Sees(ts, p + 1, "=")
      value == Parse("expr", ts, IF isNamed THEN p + 2 ELSE p)
      arg == IF isNamed THEN <<ts[p][2], value.e>> ELSE <<value.e>>
      more == IF Sees(ts, value.p, ",") THEN ReadArgs(ts, value.p + 1) ELSE Produced(<<>>, value.p)
  IN IF isNamed /\ more.e # <<>> /\ Len(more.e[1]) = 1 THEN Failed ELSE Produced(<<arg>> \o more.e, more.p)
ReadCallArgs(ts, p) ==
  LET args == IF Sees(ts, p + 1, ")") THEN Produced(<<>>, p + 1) ELSE ReadArgs(ts, p + 1)
      Positional(a) == Len(a) = 1
      Named(a) == Len(a) = 2
      values == SelectSeq(args.e, Positional)
  IN Produced(<<[k \in DOMAIN values |-> values[k][1]], SelectSeq(args.e, Named)>>, Expect(ts, args.p, ")"))

\* What may stand behind an expression, without the expression.
Attached(x, tail) == <<tail[1], x>> \o SubSeq(tail, 2, Len(tail))

ReadCall(ts, types) ==
  LET args == Parse("args", ts, types.p) IN Produced(<<"call", types.e>> \o args.e, args.p)

\* .name, or a call of a method.
ReadMember(ts, p) ==
  LET name == ReadName(ts, p + 1)
      types == Parse("callargs", ts, name.p)
      args == Parse("args", ts, types.p)
  IN IF Sees(ts, types.p, "(") THEN Produced(<<"method", name.e, types.e>> \o args.e, args.p)
     ELSE Produced(<<"field", name.e>>, name.p)

\* [i, j], or a slice [start:end:step] with bounds that may be left out.
ReadBound(ts, p, stops) == IF TokenAt(ts, p) \in stops THEN Produced(Nothing, p) ELSE Parse("expr", ts, p)
ReadSlice(ts, first) ==
  LET end == ReadBound(ts, first.p + 1, {":", "]"})
      step == IF Sees(ts, end.p, ":") THEN ReadBound(ts, end.p + 1, {"]"}) ELSE Produced(Nothing, end.p)
      Given(b, default) == IF b.e = Nothing THEN <<"literal", <<"int", default>>>> ELSE b.e
      Omitted(b) == <<"literal", <<IF b.e = Nothing THEN "true" ELSE "false">>>>
  IN Produced(<<"method", "__slice", <<>>, <<Given(first, 0), Given(end, 0), Given(step, 1), Omitted(first), Omitted(end)>>, <<>>>>,
          Expect(ts, step.p, "]"))
ReadIndices(ts, p) == LET list == ReadMany("expr", ts, p) IN Produced(<<"index", list.e>>, Expect(ts, list.p, "]"))
ReadSubscript(ts, p) ==
  LET first == ReadBound(ts, p + 1, {":"}) IN IF Sees(ts, first.p, ":") THEN ReadSlice(ts, first) ELSE ReadIndices(ts, p + 1)

ReadCast(ts, p) == LET type == Parse("type", ts, p + 1) IN Produced(<<"cast", type.e>>, type.p)

RECURSIVE ReadTails(_, _)
ReadTails(ts, p) ==
  LET types == Parse("callargs", ts, p)
      k == TokenAt(ts, p)
      tail == CASE Sees(ts, types.p, "(") -> ReadCall(ts, types)
                [] ~Sees(ts, types.p, "(") /\ k = "[" -> ReadSubscript(ts, p)
                [] k = "." -> ReadMember(ts, p)
                [] k \in {"++", "--", "?"} -> Produced(<<"postfix", k>>, p + 1)
                [] k = "as" -> ReadCast(ts, p)
                [] OTHER -> Produced(<<>>, p)
      more == ReadTails(ts, tail.p)
  IN IF tail.e = <<>> \/ tail.p = 0 THEN Produced(<<>>, tail.p) ELSE Produced(<<tail.e>> \o more.e, more.p)
ReadPostfix(ts, p) ==
  LET x == Parse("primary", ts, p)
      tails == ReadTails(ts, x.p)
  IN IF x.p = 0 THEN Failed ELSE IF tails.e = <<>> THEN Produced(x.e, tails.p) ELSE Produced(FoldLeft(Attached, x.e, tails.e), tails.p)

-----------------------------------------------------------------------------
(* Matches and primary expressions. *)

\* A name is a variant when it is qualified, has fields or begins with a capital.
ReadPattern(ts, p) ==
  LET qualified == Sees(ts, p + 1, ".")
      at == IF qualified THEN p + 2 ELSE p
      fields == ReadWithin("pattern", ")", ts, at + 2)
      owner == IF qualified THEN <<ts[p][2]>> ELSE <<>>
  IN IF TokenAt(ts, p) \in LiteralKinds \ {"bytes"} THEN Produced(<<"literal", ts[p]>>, p + 1)
     ELSE IF ~Sees(ts, p, "id") THEN Failed
     ELSE IF ts[p][2] = "_" THEN Produced(<<"wildcard">>, p + 1)
     ELSE IF ~Sees(ts, at, "id") THEN Failed
     ELSE IF Sees(ts, at + 1, "(") THEN Produced(<<"variant", owner, ts[at][2], fields.e>>, fields.p)
     ELSE IF qualified \/ ts[at][3] THEN Produced(<<"variant", owner, ts[at][2], <<>>>>, at + 1)
     ELSE Produced(<<"bind", ts[at][2]>>, p + 1)

RECURSIVE ReadArms(_, _)
ReadArms(ts, p) ==
  LET pattern == Parse("pattern", ts, p)
      guard == IF Sees(ts, pattern.p, "if") THEN Parse("expr", ts, pattern.p + 1) ELSE Produced(Nothing, pattern.p)
      value == Parse("expr", ts, Expect(ts, guard.p, "=>"))
      more == IF Sees(ts, value.p, ",") THEN ReadArms(ts, value.p + 1) ELSE Produced(<<>>, value.p)
  IN IF Sees(ts, p, "}") THEN Produced(<<>>, p) ELSE Produced(<< <<pattern.e, guard.e, value.e>> >> \o more.e, more.p)
ReadMatch(ts, p) ==
  LET of == Parse("expr", ts, p)
      arms == ReadArms(ts, Expect(ts, of.p, "{"))
  IN Produced(<<"match", of.e, arms.e>>, Expect(ts, arms.p, "}"))

\* A name followed by {} or { name: is a structure.
IsStructure(ts, p) == Sees(ts, p, "{") /\ (Sees(ts, p + 1, "}") \/ (Sees(ts, p + 1, "id") /\ Sees(ts, p + 2, ":")))
RECURSIVE ReadFields(_, _)
ReadFields(ts, p) ==
  LET name == ReadName(ts, p)
      value == Parse("expr", ts, Expect(ts, name.p, ":"))
      more == IF Sees(ts, value.p, ",") THEN ReadFields(ts, value.p + 1) ELSE Produced(<<>>, value.p)
  IN IF Sees(ts, p, "}") THEN Produced(<<>>, p) ELSE Produced(<< <<name.e, value.e>> >> \o more.e, more.p)
ReadStructure(ts, p) ==
  LET fields == ReadFields(ts, p + 2) IN Produced(<<"init", ts[p][2], fields.e>>, Expect(ts, fields.p, "}"))

\* The elements of an array; a comma may follow the last.
RECURSIVE ReadElements(_, _)
ReadElements(ts, p) ==
  LET elem == Parse("expr", ts, p)
      more == IF Sees(ts, elem.p, ",") THEN ReadElements(ts, elem.p + 1) ELSE Produced(<<>>, elem.p)
  IN IF Sees(ts, p, "]") THEN Produced(<<>>, p) ELSE Produced(<<elem.e>> \o more.e, more.p)
ReadArray(ts, p) == LET elems == ReadElements(ts, p) IN Produced(<<"list", elems.e>>, Expect(ts, elems.p, "]"))

\* |a, b| body; a comma may follow the last parameter.
RECURSIVE ReadParams(_, _)
ReadParams(ts, p) ==
  LET name == ReadName(ts, p)
      more == IF Sees(ts, name.p, ",") THEN ReadParams(ts, name.p + 1) ELSE Produced(<<>>, name.p)
  IN IF Sees(ts, p, "|") THEN Produced(<<>>, p) ELSE Produced(<<name.e>> \o more.e, more.p)
ReadClosure(ts, p) ==
  LET params == ReadParams(ts, p)
      body == Parse("expr", ts, Expect(ts, params.p, "|"))
  IN Produced(<<"closure", params.e, body.e>>, body.p)

ReadGroup(ts, p) == LET inner == Parse("expr", ts, p) IN Produced(<<"group", inner.e>>, Expect(ts, inner.p, ")"))

ReadPrimary(ts, p) ==
  LET k == TokenAt(ts, p)
  IN CASE k \in LiteralKinds -> Produced(<<"literal", ts[p]>>, p + 1)
       [] k = "id" -> IF IsStructure(ts, p + 1) THEN ReadStructure(ts, p) ELSE Produced(<<"name", ts[p][2]>>, p + 1)
       [] k = "(" -> ReadGroup(ts, p + 1)
       [] k = "match" -> ReadMatch(ts, p + 1)
       [] k = "[" -> ReadArray(ts, p + 1)
       [] k = "|" -> ReadClosure(ts, p + 1)
       [] OTHER -> Failed

-----------------------------------------------------------------------------
(* Statements. *)

\* What may follow a name: a type, a value.
ReadTyped(ts, p) == IF Sees(ts, p, ":") THEN Parse("type", ts, p + 1) ELSE Produced(Nothing, p)
ReadValue(ts, p) == IF Sees(ts, p, "=") THEN Parse("expr", ts, p + 1) ELSE Produced(Nothing, p)

ReadVar(ts, attrs, p) ==
  LET name == ReadName(ts, p)
      type == ReadTyped(ts, name.p)
      value == ReadValue(ts, type.p)
  IN Produced(<<"var", attrs, name.e, type.e, value.e>>, Expect(ts, value.p, ";"))
ReadConst(ts, attrs, p) ==
  LET name == ReadName(ts, p)
      type == ReadTyped(ts, name.p)
      value == Parse("expr", ts, Expect(ts, type.p, "="))
  IN Produced(<<"const", attrs, name.e, type.e, value.e>>, Expect(ts, value.p, ";"))
ReadReturn(ts, p) == LET value == ReadBound(ts, p, {";"}) IN Produced(<<"ret", value.e>>, Expect(ts, value.p, ";"))

ReadCondition(ts, p) ==
  LET inner == Parse("expr", ts, p + 1)
  IN IF Sees(ts, p, "(") THEN Produced(inner.e, Expect(ts, inner.p, ")")) ELSE Parse("expr", ts, p)
RECURSIVE ReadElses(_, _, _)
ReadElses(ts, elseIfs, p) ==
  LET condition == ReadCondition(ts, p + 2)
      then == Parse("block", ts, condition.p)
      last == Parse("block", ts, p + 1)
  IN IF ~Sees(ts, p, "else") THEN Produced(<<elseIfs, Nothing>>, p)
     ELSE IF Sees(ts, p + 1, "if") THEN ReadElses(ts, Append(elseIfs, <<condition.e, then.e>>), then.p)
     ELSE Produced(<<elseIfs, last.e>>, last.p)
ReadIf(ts, p) ==
  LET condition == ReadCondition(ts, p)
      then == Parse("block", ts, condition.p)
      elses == ReadElses(ts, <<>>, then.p)
  IN Produced(<<"if", condition.e, then.e, elses.e[1], elses.e[2]>>, elses.p)

\* A loop over what follows the colon: start..end, or the items of one value.
ReadEach(ts, vars, p) ==
  LET left == Parse("or", ts, p)
      isRange == Sees(ts, left.p, "..")
      right == Parse("expr", ts, left.p + 1)
      body == Parse("block", ts, IF isRange THEN right.p ELSE left.p)
  IN Produced(<<"each", vars, IF isRange THEN <<"range", left.e, right.e>> ELSE left.e, body.e>>, body.p)

\* The rest of a loop with three parts, at its first semicolon.
ReadClauses(ts, init, p) ==
  LET condition == ReadBound(ts, Expect(ts, p, ";"), {";"})
      update == ReadBound(ts, Expect(ts, condition.p, ";"), {"{"})
      body == Parse("block", ts, update.p)
  IN Produced(<<"clauses", init, condition.e, update.e, body.e>>, body.p)

\* The second variable of a loop over pairs.
ReadSecond(ts, p) ==
  LET name == ReadName(ts, p + 1) IN IF Sees(ts, p, ",") THEN Produced(<<name.e>>, name.p) ELSE Produced(<<>>, p)
ReadForVar(ts, p) ==
  LET name == ReadName(ts, p)
      second == ReadSecond(ts, name.p)
      value == Parse("expr", ts, second.p + 1)
  IN IF Sees(ts, second.p, ":") THEN ReadEach(ts, <<name.e>> \o second.e, second.p + 1)
     ELSE IF Sees(ts, second.p, "=") THEN ReadClauses(ts, <<"var", <<>>, name.e, Nothing, value.e>>, value.p)
     ELSE Failed
ReadForExpr(ts, p) ==
  LET head == Parse("expr", ts, p)
      second == ReadSecond(ts, head.p)
      body == Parse("block", ts, head.p)
  IN IF Sees(ts, second.p, ":")
     THEN IF head.e[1] = "name" THEN ReadEach(ts, <<head.e[2]>> \o second.e, second.p + 1) ELSE Failed
     ELSE IF Sees(ts, head.p, "{") THEN Produced(<<"while", head.e, body.e>>, body.p)
     ELSE IF Sees(ts, head.p, ";") THEN ReadClauses(ts, <<"do", head.e>>, head.p)
     ELSE Failed
ReadFor(ts, p) ==
  LET body == Parse("block", ts, p)
  IN CASE Sees(ts, p, "{") -> Produced(<<"while", Nothing, body.e>>, body.p)
       [] Sees(ts, p, ";") -> ReadClauses(ts, Nothing, p)
       [] Sees(ts, p, "var") -> ReadForVar(ts, p + 1)
       [] OTHER -> ReadForExpr(ts, p)

ReadStmts(ts, p) ==
  LET stmt == Parse("stmt", ts, p)
      more == Parse("stmts", ts, stmt.p)
  IN CASE Sees(ts, p, ";") -> Parse("stmts", ts, p + 1)
       [] Sees(ts, p, "}") -> Produced(<<>>, p)
       [] OTHER -> IF stmt.p = 0 THEN Failed ELSE Produced(<<stmt.e>> \o more.e, more.p)
ReadBlock(ts, p) ==
  LET stmts == Parse("stmts", ts, Expect(ts, p, "{")) IN Produced(stmts.e, Expect(ts, stmts.p, "}"))

\* Attributes stand before a variable, a constant or, alone, a @cfg block.
ReadAttributed(ts, p) ==
  LET attrs == Parse("attributes", ts, p)
      body == Parse("block", ts, attrs.p)
  IN CASE Len(attrs.e) = 1 /\ attrs.e[1][1] = "cfg" /\ Sees(ts, attrs.p, "{") -> Produced(<<"cfg", attrs.e[1], body.e>>, body.p)
       [] Sees(ts, attrs.p, "var") -> ReadVar(ts, attrs.e, attrs.p + 1)
       [] Sees(ts, attrs.p, "const") -> ReadConst(ts, attrs.e, attrs.p + 1)
       [] OTHER -> Failed
ReadExprStmt(ts, p) == LET x == Parse("expr", ts, p) IN Produced(<<"do", x.e>>, Expect(ts, x.p, ";"))

ReadStmt(ts, p) ==
  LET k == TokenAt(ts, p)
      body == Parse("block", ts, p + 1)
  IN CASE k = "@" -> ReadAttributed(ts, p)
       [] k = "unsafe" -> Produced(<<"unsafe", body.e>>, body.p)
       [] k = "var" -> ReadVar(ts, <<>>, p + 1)
       [] k = "const" -> ReadConst(ts, <<>>, p + 1)
       [] k = "ret" -> ReadReturn(ts, p + 1)
       [] k = "if" -> ReadIf(ts, p + 1)
       [] k = "for" -> ReadFor(ts, p + 1)
       [] k \in {"break", "continue"} -> Produced(<<k>>, Expect(ts, p + 1, ";"))
       [] OTHER -> ReadExprStmt(ts, p)

-----------------------------------------------------------------------------
(* Attributes and items. *)

\* Values and key = value, with commas that may be left out.
RECURSIVE ReadAttributeArgs(_, _)
ReadAttributeArgs(ts, p) ==
  LET keyed == Sees(ts, p, "id") /\ Sees(ts, p + 1, "=")
      at == IF keyed THEN p + 2 ELSE p
      arg == IF keyed THEN <<"key", ts[p][2], SubSeq(ts[at], 1, 2)>> ELSE <<"value", SubSeq(ts[at], 1, 2)>>
      more == ReadAttributeArgs(ts, IF Sees(ts, at + 1, ",") THEN at + 2 ELSE at + 1)
  IN IF Sees(ts, p, ")") THEN Produced(<<>>, p)
     ELSE IF TokenAt(ts, at) \in {"str", "int", "id"} THEN Produced(<<arg>> \o more.e, more.p)
     ELSE Failed
ReadAttributes(ts, p) ==
  LET name == ReadName(ts, p + 1)
      listed == ReadAttributeArgs(ts, name.p + 1)
      args == IF Sees(ts, name.p, "(") THEN Produced(listed.e, Expect(ts, listed.p, ")")) ELSE Produced(<<>>, name.p)
      more == Parse("attributes", ts, args.p)
  IN IF Sees(ts, p, "@") THEN Produced(<< <<name.e, args.e>> >> \o more.e, more.p) ELSE Produced(<<>>, p)

\* name : type
ReadNamedType(ts, p) ==
  LET name == ReadName(ts, p)
      type == Parse("type", ts, Expect(ts, name.p, ":"))
  IN Produced(<<name.e, type.e>>, type.p)
\* A result, which may be left out in front of the tokens.
ReadResult(ts, p, before) == IF TokenAt(ts, p) \in before THEN Produced(<<"prim", "void">>, p) ELSE Parse("type", ts, p)

\* Parameters, with whether "..." ends them; none follows a variadic one.
RECURSIVE ReadFnParams(_, _, _)
ReadFnParam(ts, params, attrs, variadic, p) ==
  LET named == ReadNamedType(ts, p)
      all == Append(params, <<attrs>> \o named.e \o <<variadic>>)
  IN IF Sees(ts, named.p, ",") THEN IF variadic THEN Failed ELSE ReadFnParams(ts, all, named.p + 1) ELSE Produced(<<all, FALSE>>, named.p)
ReadFnParams(ts, params, p) ==
  LET attrs == Parse("attributes", ts, p)
      variadic == Sees(ts, attrs.p, "...")
  IN IF Sees(ts, p, "...") /\ Sees(ts, p + 1, ")") THEN Produced(<<params, TRUE>>, p + 1)
     ELSE ReadFnParam(ts, params, attrs.e, variadic, IF variadic THEN attrs.p + 1 ELSE attrs.p)
ReadParamList(ts, p) ==
  LET params == IF Sees(ts, p, ")") THEN Produced(<<<<>>, FALSE>>, p) ELSE ReadFnParams(ts, <<>>, p)
  IN Produced(params.e, Expect(ts, params.p, ")"))
ReadBody(ts, p) == IF Sees(ts, p, ";") THEN Produced(Nothing, p + 1) ELSE Parse("block", ts, p)
ReadFn(ts, attrs, flags, p) ==
  LET name == ReadName(ts, Expect(ts, p, "fn"))
      generics == ReadGenericParams(ts, name.p)
      params == ReadParamList(ts, Expect(ts, generics.p, "("))
      ret == ReadResult(ts, params.p, {"{", ";"})
      body == ReadBody(ts, ret.p)
  IN Produced(<<"fn", attrs, flags, name.e, generics.e>> \o params.e \o <<ret.e, body.e>>, body.p)

\* What stands between braces: rule after rule, up to the closing one.
RECURSIVE ReadAll(_, _, _)
ReadAll(rule, ts, p) ==
  LET one == Parse(rule, ts, p)
      more == ReadAll(rule, ts, one.p)
  IN IF Sees(ts, p, "}") THEN Produced(<<>>, p) ELSE IF one.p = 0 THEN Failed ELSE Produced(<<one.e>> \o more.e, more.p)
ReadBraces(rule, ts, p) == LET all == ReadAll(rule, ts, Expect(ts, p, "{")) IN Produced(all.e, Expect(ts, all.p, "}"))
\* The head of a declaration: its name and its generic parameters.
ReadHead(ts, p) ==
  LET name == ReadName(ts, p)
      generics == ReadGenericParams(ts, name.p)
  IN Produced(<<name.e, generics.e>>, generics.p)
\* A separator, which may be left out.
Separated(ts, p) == IF TokenAt(ts, p) \in {",", ";"} THEN p + 1 ELSE p

MaxBits == 255
ReadBits(ts, p) ==
  CASE ~Sees(ts, p, ":") -> Produced(0, p)
    [] Sees(ts, p, ":") /\ Sees(ts, p + 1, "int") /\ ts[p + 1][2] \in 1..MaxBits -> Produced(ts[p + 1][2], p + 2)
    [] OTHER -> Produced(0, 0)
ReadField(ts, p) ==
  LET isConst == Sees(ts, p, "const")
      named == ReadNamedType(ts, IF isConst THEN p + 1 ELSE p)
      attrs == Parse("attributes", ts, named.p)
      bits == ReadBits(ts, attrs.p)
      after == Parse("attributes", ts, bits.p)
  IN Produced(<<isConst>> \o named.e \o <<bits.e, attrs.e \o after.e>>, Separated(ts, after.p))
ReadAggregate(ts, attrs, isPub, p) ==
  LET head == ReadHead(ts, p + 1)
      members == ReadBraces("member", ts, head.p)
  IN Produced(<<ts[p][1], attrs, isPub>> \o head.e \o <<members.e>>, members.p)

ReadTraitMethod(ts, p) ==
  LET head == ReadHead(ts, Expect(ts, p, "fn"))
      params == ReadWithin("named", ")", ts, Expect(ts, head.p, "("))
      ret == ReadResult(ts, params.p, {";"})
  IN Produced(head.e \o <<params.e, ret.e>>, Expect(ts, ret.p, ";"))
ReadVariant(ts, p) ==
  LET name == ReadName(ts, p)
      payload == IF Sees(ts, name.p, "(") THEN ReadWithin("type", ")", ts, name.p + 1) ELSE Produced(<<>>, name.p)
  IN Produced(<<name.e, payload.e>>, Separated(ts, payload.p))
\* A trait with its methods, an enumeration with its variants.
ReadDeclared(kind, rule, ts, attrs, isPub, p) ==
  LET head == ReadHead(ts, p + 1)
      all == ReadBraces(rule, ts, head.p)
  IN Produced(<<kind, attrs, isPub>> \o head.e \o <<all.e>>, all.p)
ReadTrait(ts, attrs, isPub, p) == ReadDeclared("trait", "method", ts, attrs, isPub, p)
ReadEnum(ts, attrs, isPub, p) == ReadDeclared("enum", "variant", ts, attrs, isPub, p)

RECURSIVE ReadModifiers(_, _, _)
ReadModifiers(ts, flags, p) ==
  IF TokenAt(ts, p) \in {"pub", "unsafe"} THEN ReadModifiers(ts, flags \cup {TokenAt(ts, p)}, p + 1) ELSE Produced(flags, p)
ReadMethod(ts, p) ==
  LET attrs == Parse("attributes", ts, p)
      flags == ReadModifiers(ts, {}, attrs.p)
  IN ReadFn(ts, attrs.e, flags.e, flags.p)
ReadTarget(ts, first) ==
  LET second == Parse("type", ts, first.p + 1)
  IN IF Sees(ts, first.p, "for") THEN Produced(<<first.e, second.e>>, second.p) ELSE Produced(<<Nothing, first.e>>, first.p)
ReadImpl(ts, p) ==
  LET target == ReadTarget(ts, Parse("type", ts, p + 1))
      methods == ReadBraces("fn", ts, target.p)
  IN Produced(<<"impl">> \o target.e \o <<methods.e>>, methods.p)

ReadAlias(ts, attrs, isPub, p) ==
  LET head == ReadHead(ts, p + 1)
      type == Parse("type", ts, Expect(ts, head.p, "="))
  IN Produced(<<"alias", attrs, isPub>> \o head.e \o <<type.e>>, Expect(ts, type.p, ";"))
ReadForeignGlobal(ts, attrs, isPub, p) ==
  LET named == ReadNamedType(ts, p + 1) IN Produced(<<"global", attrs, isPub>> \o named.e, Expect(ts, named.p, ";"))

\* The segments of a path, up to a dot in front of something else.
RECURSIVE ReadImportPath(_, _, _)
ReadImportPath(ts, path, p) ==
  IF Sees(ts, p, ".") /\ Sees(ts, p + 1, "id") THEN ReadImportPath(ts, Append(path, ts[p + 1][2]), p + 2) ELSE Produced(path, p)
\* What is imported, behind the path: without a selector, the last segment.
ReadSelection(ts, path, p) ==
  LET names == ReadWithin("name", "}", ts, p + 2)
      alias == ReadName(ts, p + 1)
  IN CASE Sees(ts, p, ".") /\ Sees(ts, p + 1, "{") -> Produced(<<path, <<"multiple", names.e>>>>, names.p)
       [] Sees(ts, p, ".") /\ Sees(ts, p + 1, "*") -> Produced(<<path, <<"all">>>>, p + 2)
       [] Sees(ts, p, ".") /\ TokenAt(ts, p + 1) \notin {"{", "*"} -> Failed
       [] Sees(ts, p, "as") -> Produced(<<Front(path), <<"aliased", Last(path), alias.e>>>>, alias.p)
       [] OTHER -> Produced(<<Front(path), <<"single", Last(path)>>>>, p)
ReadImport(ts, attrs, isPub, p) ==
  LET relative == Sees(ts, p + 1, ".") /\ Sees(ts, p + 2, "/")
      first == ReadName(ts, IF relative THEN p + 3 ELSE p + 1)
      path == ReadImportPath(ts, <<first.e>>, first.p)
      chosen == ReadSelection(ts, path.e, path.p)
  IN IF path.p = 0 \/ chosen.p = 0 THEN Failed
     ELSE Produced(<<"import", attrs, isPub, relative>> \o chosen.e, Expect(ts, chosen.p, ";"))

\* The declaration behind its attributes and pub.
ReadDeclaration(ts, attrs, isPub, p) ==
  LET k == TokenAt(ts, p)
      flags == IF isPub THEN {"pub"} ELSE {}
  IN CASE k = "import" -> ReadImport(ts, attrs, isPub, p)
       [] k = "unsafe" -> ReadFn(ts, attrs, flags \cup {"unsafe"}, p + 1)
       [] k = "fn" -> ReadFn(ts, attrs, flags, p)
       [] k \in {"struct", "union"} -> ReadAggregate(ts, attrs, isPub, p)
       [] k = "trait" -> ReadTrait(ts, attrs, isPub, p)
       [] k = "enum" -> ReadEnum(ts, attrs, isPub, p)
       [] k = "impl" -> ReadImpl(ts, p)
       [] k = "alias" -> ReadAlias(ts, attrs, isPub, p)
       [] k = "var" -> ReadForeignGlobal(ts, attrs, isPub, p)
       [] OTHER -> Failed
ReadItem(ts, p) ==
  LET attrs == Parse("attributes", ts, p)
      isPub == Sees(ts, attrs.p, "pub")
  IN ReadDeclaration(ts, attrs.e, isPub, IF isPub THEN attrs.p + 1 ELSE attrs.p)

\* parse: the items of the file, or nothing when one of them fails.
ReadItems(ts, p) ==
  LET item == Parse("item", ts, p)
      more == Parse("items", ts, item.p)
  IN IF Sees(ts, p, "eof") THEN Produced(<<>>, p) ELSE IF item.p = 0 THEN Failed ELSE Produced(<<item.e>> \o more.e, more.p)

Parse(rule, ts, p) ==
  CASE rule = "items" -> ReadItems(ts, p) [] rule = "item" -> ReadItem(ts, p) [] rule = "member" -> ReadField(ts, p)
    [] rule = "method" -> ReadTraitMethod(ts, p) [] rule = "variant" -> ReadVariant(ts, p) [] rule = "fn" -> ReadMethod(ts, p)
    [] rule = "named" -> ReadNamedType(ts, p) [] rule = "attributes" -> ReadAttributes(ts, p)
    [] rule = "block" -> ReadBlock(ts, p) [] rule = "stmts" -> ReadStmts(ts, p) [] rule = "stmt" -> ReadStmt(ts, p)
    [] rule = "name" -> ReadName(ts, p) [] rule = "type" -> ReadType(ts, p) [] rule = "typeargs" -> ReadTypeArgs(ts, p)
    [] rule = "callargs" -> TryTypeArgs(ts, p) [] rule = "args" -> ReadCallArgs(ts, p) [] rule = "pattern" -> ReadPattern(ts, p)
    [] rule = "expr" -> ReadExpr(ts, p) [] rule = "or" -> ReadLogicalOr(ts, p) [] rule = "and" -> ReadLogicalAnd(ts, p)
    [] rule = "equality" -> ReadEquality(ts, p) [] rule = "comparison" -> ReadComparison(ts, p)
    [] rule = "bitor" -> ReadBitwiseOr(ts, p) [] rule = "xor" -> ReadBitwiseXor(ts, p) [] rule = "bitand" -> ReadBitwiseAnd(ts, p)
    [] rule = "shift" -> ReadShift(ts, p) [] rule = "term" -> ReadTerm(ts, p) [] rule = "factor" -> ReadFactor(ts, p)
    [] rule = "power" -> ReadPower(ts, p) [] rule = "unary" -> ReadUnary(ts, p)
    [] rule = "postfix" -> ReadPostfix(ts, p) [] rule = "primary" -> ReadPrimary(ts, p)
=============================================================================
