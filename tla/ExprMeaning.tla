------------------------------ MODULE ExprMeaning ------------------------------
(***************************************************************************)
(* What an expression means: operands from left to right, each a value     *)
(* that nothing computed later changes; a truth value is no number, a      *)
(* reference stands for the variable where a value is wanted, a structure  *)
(* is the values of its fields and a closure holds copies of what it names.*)
(***************************************************************************)
EXTENDS ExprCode

State(vars) == [vars |-> vars, calls |-> <<>>, end |-> ""]
Means(v, s) == [v |-> v, s |-> s]
EndsWith(s, why) == Means(Garbage, [s EXCEPT !.end = why])
Behind(v, s) == IF v[1] = "addr" THEN s.vars[v[2]] ELSE v
As(v, type, s) == IF IsReference(type) THEN v ELSE Behind(v, s)

\* Values as words: what the compiled code's are compared with.
RECURSIVE Shown(_)
ShownAll(vs) == [k \in DOMAIN vs |-> Shown(vs[k])]
Shown(v) ==
  CASE v[1] = "bool" -> Word(v)
    [] v[1] \in {"struct", "array", "list"} -> <<v[1], ShownAll(v[2])>>
    [] v[1] = "dyn" -> <<"dyn", v[2], Shown(v[3])>>
    [] v[1] \in {"variant", "function"} -> <<v[1], v[2], ShownAll(v[3])>>
    [] OTHER -> v

Meant(op, a, b, unsigned) ==
  CASE a[1] = "str" -> TextOperation(op, a[2], b[2])
    [] op \in Equality -> Truth((a = b) = (op = "=="))
    [] Unbounded \in {a, b} -> Garbage
    [] a[1] = "float" -> OfFloats(op, a[2], b[2])
    [] OTHER -> WordOperation(op, a[2], b[2], unsigned)

\* Where a value is: a variable, and the way from it.
RECURSIVE Within(_, _, _), Inside(_, _)
Within(v, steps, new) == IF steps = <<>> THEN new ELSE [v EXCEPT ![2] = [@ EXCEPT ![Head(steps)] = Within(@, Tail(steps), new)]]
Inside(v, steps) == IF steps = <<>> THEN v ELSE Inside(v[2][Head(steps)], Tail(steps))
Put(path, v, s) == [s EXCEPT !.vars[path[1]] = Within(@, path[2], v)]
At1(path, s) == Inside(s.vars[path[1]], path[2])
-----------------------------------------------------------------------------
RECURSIVE Mean(_, _), Path(_, _)
Over(s) == s.end # ""

\* Several, from left to right.
Also(acc, r) == [vs |-> Append(acc.vs, r.v), s |-> r.s]
MeanAll(nodes, s) == FoldLeft(LAMBDA acc, n : Also(acc, Mean(n, acc.s)), [vs |-> <<>>, s |-> s], nodes)

Inner(path, key) == <<path[1], Append(path[2], key)>>
InElement(length, o, i, k) ==
  CASE Over(i.s) -> i
    [] k[2] \notin 0..(length - 1) -> EndsWith(i.s, "bounds")
    [] OTHER -> Means(Inner(o.v, k[2] + 1), i.s)
IndexPath(node, o, i) == InElement(node.kids[1].ty[3], o, i, Behind(i.v, i.s))
Path(node, s) ==
  CASE node.e[1] = "group" -> Path(node.kids[1], s)
    [] node.e[1] = "deref" -> LET p == Mean(node.kids[1], s) IN Means(<<p.v[2], <<>>>>, p.s)
    [] node.e[1] = "field" -> LET o == Path(node.kids[1], s) IN Means(Inner(o.v, node.e[3]), o.s)
    [] node.e[1] = "index" -> LET o == Path(node.kids[1], s) IN IndexPath(node, o, Mean(node.kids[2], o.s))
    [] OTHER -> Means(<<node.e[2], <<>>>>, s)

Divides(op, b) == op \in {"/", "%"} /\ b = Num(0)
\* Two operands; the left one's type says whether they have a sign.
Operands(op, a, b, left, s) ==
  CASE Over(s) -> Means(Garbage, s)
    [] Divides(op, Behind(b, s)) -> EndsWith(s, "zero")
    [] OTHER -> Means(Meant(op, Behind(a, s), Behind(b, s), IsUnsigned(AutoderefType(left.ty))), s)
MeanBinary(node, a) ==
  LET b == Mean(node.kids[2], a.s) IN Operands(node.e[2], Behind(a.v, a.s), b.v, node.kids[1], b.s)
MeanLogical(node, a) ==
  CASE Over(a.s) -> a
    [] Behind(a.v, a.s) = Truth(node.e[2] = "||") -> Means(Truth(node.e[2] = "||"), a.s)
    [] OTHER -> LET b == Mean(node.kids[2], a.s) IN Means(Behind(b.v, b.s), b.s)

Put1(p, r) == IF Over(r.s) THEN r ELSE Means(r.v, Put(p.v, r.v, r.s))
MeanAssign(node, p) == LET v == Mean(node.kids[2], p.s) IN Put1(p, Means(As(v.v, node.kids[1].ty, v.s), v.s))
MeanCompound(node, p) ==
  IF Over(p.s) THEN p ELSE LET v == Mean(node.kids[2], p.s) IN Put1(p, Operands(node.e[2], At1(p.v, p.s), v.v, node.kids[1], v.s))
MeanCount(node, p) ==
  IF Over(p.s) THEN p
  ELSE LET old == At1(p.v, p.s)
           r == Put1(p, Means(Meant(node.e[2][1], old, Num(1), FALSE), p.s))
       IN IF node.e[2][2] THEN r ELSE Means(old, r.s)

\* Calls: of a function by its name, or of a function value.
Given(r, type) == IF Over(r.s) THEN r ELSE Means(As(r.v, type, r.s), r.s)
Arguments(nodes, params, s) ==
  FoldLeft(LAMBDA acc, k : Also(acc, Given(Mean(nodes[k], acc.s), Expected(params, k))), [vs |-> <<>>, s |-> s], [k \in DOMAIN nodes |-> k])
Performed(f, args, s) ==
  LET made == ResultOf(f, ShownAll(args), s.vars)
  IN Means(made[1], [s EXCEPT !.calls = Append(@, <<f, ShownAll(args)>>), !.vars = made[2]])
MeanNamed(f, rs) ==
  CASE Over(rs.s) -> Means(Garbage, rs.s)
    [] f \in Constructors -> Means(<<"variant", f, rs.vs>>, rs.s)
    [] "panic" \in Signatures[f].attrs -> EndsWith(rs.s, "panic")
    [] OTHER -> Performed(f, Listed(f, rs.vs), rs.s)
Frame(names, args, env) == [x \in {names[k] : k \in DOMAIN names} |-> args[CHOOSE k \in DOMAIN names : names[k] = x]] @@ env
Restored(r, s) == Means(r.v, [r.s EXCEPT !.vars = s.vars])
MeanValue(g, args, s) ==
  CASE Over(s) -> Means(Garbage, s)
    [] g[2][1] = "forward" -> Performed(g[2][2], args, s)
    [] OTHER -> Restored(Mean(g[2][2].kids[1], [s EXCEPT !.vars = Frame(g[2][2].e[2], args, g[3])]), s)
MeanCall(node, s) ==
  CASE node.to \in Constructors -> MeanNamed(node.to, MeanAll(node.kids, s))
    [] node.to # "" -> MeanNamed(node.to, Arguments(node.kids, CallParams(node.to, node.e[3]), s))
    [] OTHER -> LET g == Mean(node.kids[1], s)
                    rs == Arguments(Tail(node.kids), node.kids[1].ty[2], g.s)
                IN MeanValue(g.v, rs.vs, rs.s)
PerformedOn(method, receiver, rs) ==
  IF Over(rs.s) THEN Means(Garbage, rs.s) ELSE Performed(method, receiver \o rs.vs, rs.s)
IsStatic(node) == <<node.to, node.e[3]>> \in DOMAIN Statics
IsDyn(node) == ~IsStatic(node) /\ node.kids[1].ty[1] = "dyn"
MeanMethod(node, o) ==
  LET rs == Arguments(Tail(node.kids), MethodParams(node.kids[1].ty, node.e[3]), o.s)
  IN IF IsDyn(node) THEN PerformedOn(<<o.v[2], node.e[3]>>, <<o.v[3]>>, rs) ELSE PerformedOn(<<node.to, node.e[3]>>, <<o.v>>, rs)
MeanStatic(node, s) == PerformedOn(<<node.to, node.e[3]>>, <<>>, Arguments(node.kids, Statics[<<node.to, node.e[3]>>].params, s))

MeanStruct(node, rs) ==
  Means(<<"struct", [f \in {node.e[3][k][1] : k \in DOMAIN rs.vs} |-> rs.vs[CHOOSE k \in DOMAIN rs.vs : node.e[3][k][1] = f]]>>, rs.s)
Copied(node, s) == [x \in Captured(node, s) |-> s.vars[x]]

\* The first arm that takes the value; its name holds what the value holds.
FirstArm(node, tag) == {k \in DOMAIN node.e[3] : Matching(node.e[3][k], tag) /\ \A j \in 1..(k - 1) : ~Matching(node.e[3][j], tag)}
Unnamed(r, arm, s) == Means(r.v, [r.s EXCEPT !.vars = [x \in DOMAIN s.vars |-> IF x = arm[2] THEN s.vars[x] ELSE @[x]]])
MeanArm(node, k, c) ==
  Unnamed(Mean(node.kids[k + 1], [c.s EXCEPT !.vars = IF node.e[3][k][2] = "" THEN @ ELSE (node.e[3][k][2] :> c.v[3][1]) @@ @]), node.e[3][k], c.s)
MeanMatch(node, c) == IF Over(c.s) THEN c ELSE MeanArm(node, CHOOSE k \in FirstArm(node, c.v[2]) : TRUE, c)
MeanTry(c) == CASE Over(c.s) -> c [] c.v[2] \in {"Some", "Ok"} -> Means(c.v[3][1], c.s) [] OTHER -> EndsWith(c.s, "returned")

MeanName(node, s) ==
  CASE node.to = "" -> Means(s.vars[node.e[2]], s)
    [] node.to \in Constructors -> Means(<<"variant", node.to, <<>>>>, s)
    [] OTHER -> Means(<<"function", <<"forward", node.to>>, <<>>>>, s)
MeanUnary(node, r) ==
  CASE Over(r.s) -> r
    [] node.e[2] = "!" -> Means(IF r.v[1] = "bool" THEN Truth(~r.v[2]) ELSE Inverted(r.v), r.s)
    [] OTHER -> Means(Meant("-", <<r.v[1], 0>>, r.v, FALSE), r.s)
Read(p) == IF Over(p.s) THEN p ELSE Means(At1(p.v, p.s), p.s)
OfField(o, f) == IF Over(o.s) THEN o ELSE Means(o.v[2][f], o.s)

Meaning1(node, s) ==
  CASE node.e[1] = "lit" -> Means(node.e[2], s)
    [] node.e[1] = "id" -> MeanName(node, s)
    [] node.e[1] \in {"group", "cast"} -> Mean(node.kids[1], s)
    [] node.e[1] \in {"addr", "addrmut"} -> Means(Address(Path(node.kids[1], s).v[1]), s)
    [] node.e[1] \in {"deref", "index"} -> Read(Path(node, s))
    [] node.e[1] = "field" -> OfField(Mean(node.kids[1], s), node.e[3])
    [] node.e[1] = "unary" -> MeanUnary(node, Mean(node.kids[1], s))
    [] node.e[1] = "binary" -> IF node.e[2] \in Logical THEN MeanLogical(node, Mean(node.kids[1], s)) ELSE MeanBinary(node, Mean(node.kids[1], s))
    [] node.e[1] = "assign" -> MeanAssign(node, Path(node.kids[1], s))
    [] node.e[1] = "compound" -> MeanCompound(node, Path(node.kids[1], s))
    [] node.e[1] = "incdec" -> MeanCount(node, Path(node.kids[1], s))
    [] node.e[1] = "call" -> MeanCall(node, s)
    [] node.e[1] = "method" -> IF IsStatic(node) THEN MeanStatic(node, s) ELSE MeanMethod(node, Mean(node.kids[1], s))
    [] node.e[1] = "struct" -> MeanStruct(node, MeanAll(node.kids, s))
    [] node.e[1] = "array" -> LET rs == MeanAll(node.kids, s) IN Means(<<"array", rs.vs>>, rs.s)
    [] node.e[1] = "match" -> MeanMatch(node, Mean(node.kids[1], s))
    [] node.e[1] = "try" -> MeanTry(Mean(node.kids[1], s))
    [] OTHER -> Means(<<"function", <<"closure", node>>, Copied(node, s)>>, s)
\* Nothing is computed once the program has ended.
Mean(node, s) == IF Over(s) THEN Means(Garbage, s) ELSE Meaning1(node, s)
-----------------------------------------------------------------------------
(***************************************************************************)
(* Where the compiled code and the meaning part, each a rule of the        *)
(* checker or of the compiler that lets through what the other does not    *)
(* handle.  Firm expressions have none of them.                            *)
(***************************************************************************)

Kind(t) == IF t[1] \in {"int", "float"} THEN <<t[1]>> ELSE t
Exact(node, type) == node.ty = Never \/ Kind(node.ty) = Kind(type)
\* Any two types that are compatible are operands, whatever the operator makes of
\* their words; a name of a string is joined by its address.
OperandKinds(op) ==
  CASE op \in Arithmetic \cup Ordering -> {"int", "float"} [] op \in BitOperators -> {"int"}
    [] op \in Equality -> {"int", "float", "bool"} [] OTHER -> {"bool"}
OperandsAgree(op, l, r) ==
  \/ Exact(l, r.ty) /\ l.ty[1] \in OperandKinds(op)
  \/ op \in Comparison /\ IsString(l.ty) /\ IsString(r.ty)

\* Operands are not kept from what a later one writes while they are a variable.
RECURSIVE RootOf(_), Writes(_), Bare(_), Silent(_)
RootOf(e) == CASE e[1] = "id" -> {e[2]} [] e[1] \in {"group", "field", "index"} -> RootOf(e[2]) [] OTHER -> {}
Writes(e) ==
  (CASE e[1] = "assign" -> RootOf(e[2]) [] e[1] \in {"compound", "incdec"} -> RootOf(e[3]) [] e[1] = "addrmut" -> RootOf(e[2]) [] OTHER -> {})
  \cup UNION {Writes(Subexpressions(e)[k]) : k \in DOMAIN Subexpressions(e)}
Bare(e) ==
  CASE e[1] \in {"id", "index"} -> RootOf(e)
    [] e[1] \in {"group", "cast"} -> Bare(e[2])
    [] e[1] = "assign" -> RootOf(e[2]) \cup Bare(e[3])
    [] e[1] \in {"compound", "incdec"} -> RootOf(e[3])
    [] OTHER -> {}
Unmixed(es) == \A j, k \in DOMAIN es : j < k => Bare(es[j]) \cap Writes(es[k]) = {}

\* Without effect, and sure to have a result.
Silent(e) ==
  /\ e[1] \in {"lit", "id", "group", "addr", "deref", "cast", "unary", "field"} \/ (e[1] = "binary" /\ e[2] \notin {"/", "%"})
  /\ \A k \in DOMAIN Subexpressions(e) : Silent(Subexpressions(e)[k])
\* What the checker knows is not computed, whatever it would have done.
KeepsEffects(node) == node.value # NoValue => Silent(node.e)

DeclaredFields(name) == Structs[name]
InDeclaredOrder(e) == \A k \in DOMAIN e[3] : e[3][k][1] = DeclaredFields(e[2])[k][1]
FieldTypes(type) == [k \in DOMAIN DeclaredFields(type[2]) |-> Substitute(DeclaredFields(type[2])[k][2], StructSubstitution(type))]
\* The value is computed before the object, and before what is pointed to.
TargetKept(target, value) ==
  CASE target[1] \in {"field", "deref"} -> Silent(target) /\ Bare(value) \cap RootOf(target) = {} /\ Writes(value) \cap NamesIn(target) = {}
    [] target[1] = "index" -> Unmixed(<<target[2], target[3], value>>) /\ Unmixed(<<target[3], value>>)
    [] OTHER -> TRUE

\* An integer goes where a float is expected, a struct where its trait is.
ArgumentsExact(node) ==
  LET params == IF node.to \in DOMAIN Signatures THEN CallParams(node.to, node.e[3]) ELSE IF node.to = "" THEN <<node.kids[1].ty>> \o node.kids[1].ty[2] ELSE <<>>
  IN params # <<>> => \A k \in DOMAIN node.kids : Exact(node.kids[k], Expected(params, k))

\* What a function of a type is given is not compared with its parameters.
GivenExactly(node) ==
  LET params == Statics[<<node.to, node.e[3]>>].params
  IN Len(node.kids) = Len(params) /\ \A k \in DOMAIN params : Exact(node.kids[k], params[k])

\* Counting after its use does not keep what a grouped name or an element at a
\* written index held.
InRegister(e) == e[1] = "id" \/ (e[1] = "index" /\ e[3][1] = "lit")

FirmHere(node) ==
  LET e == node.e kids == node.kids IN
  /\ Known(node.ty) /\ KeepsEffects(node)
  /\ CASE e[1] = "binary" -> OperandsAgree(e[2], kids[1], kids[2]) /\ Unmixed(<<e[3], e[4]>>)
       [] e[1] = "deref" -> ~IsString(kids[1].ty)
       [] e[1] = "unary" -> kids[1].ty[1] \in {"int", IF e[2] = "-" THEN "float" ELSE "bool"}
       [] e[1] = "assign" -> Exact(kids[2], kids[1].ty) /\ Exact(node, kids[2].ty) /\ TargetKept(Ungrouped(e[2]), e[3])
       [] e[1] = "compound" -> /\ OperandsAgree(e[2], kids[1], kids[2]) /\ ~IsString(kids[1].ty)
                               /\ RootOf(e[3]) \cap Writes(e[4]) = {} /\ TargetKept(Ungrouped(e[3]), e[4])
       [] e[1] = "incdec" -> IsInteger(kids[1].ty) /\ (e[2][2] \/ e[3][1] = "id" \/ ~InRegister(Ungrouped(e[3])))
       [] e[1] = "array" -> Unmixed(e[2]) /\ \A k \in DOMAIN kids : Exact(kids[k], node.ty[2])
       [] e[1] = "struct" -> InDeclaredOrder(e) /\ \A k \in DOMAIN kids : Exact(kids[k], FieldTypes(node.ty)[k])
       [] e[1] = "index" -> kids[1].ty[1] = "array"
       [] e[1] = "match" -> \A k \in DOMAIN kids : k > 1 => Exact(kids[k], node.ty)
       [] e[1] = "call" -> Unmixed(Subexpressions(e)) /\ ArgumentsExact(node)
       [] e[1] = "method" -> Unmixed(Subexpressions(e)) /\ (IF IsStatic(node) THEN GivenExactly(node) ELSE (node.to # "" /\ ~IsReference(kids[1].ty)) \/ IsDyn(node))
       [] e[1] = "closure" -> Exact(kids[1], node.ty[3])
       [] OTHER -> TRUE
RECURSIVE Firm(_)
Firm(node) == FirmHere(node) /\ \A k \in DOMAIN node.kids : Firm(node.kids[k])
=============================================================================
