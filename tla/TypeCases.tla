------------------------------ MODULE TypeCases ------------------------------
(***************************************************************************)
(* Expressions over a few variables, and the states they are computed in.  *)
(* What a reference in scope points to (k, j) is not in scope itself.      *)
(***************************************************************************)
EXTENDS ExprMeaning

-----------------------------------------------------------------------------
(* What the expressions may name besides variables: a struct  *)
(* with a method, and functions of a few kinds.                            *)

Int64 == <<"int", "i64">>
RefTo(t) == <<"ref", t>>
TypedFields == [P |-> <<<<"x", Int64>>, <<"y", <<"int", "u64">>>>>>, Box |-> <<<<"v", <<"named", "T", <<>>>>>>>>]
TypedParameters == [P |-> <<>>, Box |-> <<"T">>]
Signature(params, ret, attrs, variadic) ==
  [params |-> params, names |-> [k \in DOMAIN params |-> <<"p", k>>], ret |-> ret, generic |-> <<>>, variadic |-> variadic, attrs |-> attrs]
TypedFunctions ==
  [inc |-> Signature(<<Int64>>, Int64, {}, FALSE), bump |-> Signature(<<<<"mutref", Int64>>>>, Int64, {}, FALSE),
   view |-> Signature(<<RefTo(Int64), Int64>>, Int64, {}, FALSE), total |-> Signature(<<Int64, Int64>>, Int64, {}, TRUE),
   same |-> [Signature(<<<<"named", "T", <<>>>>>>, <<"named", "T", <<>>>>, {}, FALSE) EXCEPT !.generic = <<"T">>],
   fail |-> Signature(<<RefTo(<<"str">>)>>, <<"never">>, {"panic"}, TRUE)]
TypedMethods == [x \in {<<"P", "sum">>} |-> [params |-> <<RefTo(<<"named", "P", <<>>>>), Int64>>, ret |-> Int64, receiver |-> "ref"]]
TypedStatics == [x \in {<<"P", "weight">>} |-> [params |-> <<Int64, Int64>>, ret |-> Int64]]
TypedImplements == [x \in {"P"} |-> {"Sum"}]
TypedTraits == [x \in {<<"Sum", "sum">>} |-> [params |-> <<Int64>>, ret |-> Int64]]

\* What the functions do, on words of four bits; they take structures for what
\* they hold.
FourBits == 4
Cut(n) == <<"int", ((n + 8) % 16) - 8>>
SumOf(ws) == FoldLeft(LAMBDA acc, w : acc + w[2], 0, ws)
Effect(f, args, vars) ==
  CASE f = "inc" -> <<Cut(args[1][2] + 1), vars>>
    [] f = "bump" -> <<vars[args[1][2]], [vars EXCEPT ![args[1][2]] = Cut(@[2] + 1)]>>
    [] f = "view" -> <<Cut(vars[args[1][2]][2] + 2 * args[2][2]), vars>>
    [] f = "same" -> <<args[1], vars>>
    [] f = "total" -> <<Cut(args[1][2] + 2 * SumOf(args[2][2])), vars>>
    [] OTHER -> <<Cut((IF f[2] = "weight" THEN 3 * args[1][2] ELSE args[1][2].x[2]) + args[2][2]), vars>>

-----------------------------------------------------------------------------

I64 == <<"int", "i64">>
U64 == <<"int", "u64">>
F64 == <<"float", "f64">>
Local(type, mutable) == [ty |-> type, value |-> NoValue, mutable |-> mutable, initialized |-> TRUE]
Scope ==
  [i |-> Local(I64, TRUE), n |-> Local(U64, TRUE), t |-> Local(Bool, TRUE), f |-> Local(F64, TRUE),
   s |-> Local(Ref(Str), FALSE), r |-> Local(Ref(I64), FALSE), m |-> Local(MutRef(I64), FALSE),
   p |-> Local(<<"named", "P", <<>>>>, TRUE), a |-> Local(<<"array", I64, 2>>, TRUE),
   o |-> Local(Option(I64), TRUE), d |-> Local(<<"dyn", "Sum">>, FALSE), g |-> Local(FnType(<<I64>>, I64), FALSE),
   c |-> [Local(I64, FALSE) EXCEPT !.value = Num(2)]]

\* The variables at first: as what they mean, and as words and blocks.
Values(i, n, t, o) ==
  [i |-> Num(i), n |-> Num(n), t |-> Truth(t), f |-> Flt(i), s |-> Text(<<1>>), r |-> Address("k"), m |-> Address("j"),
   k |-> Num(3), j |-> Num(1), p |-> <<"struct", [x |-> Num(5), y |-> Num(6)]>>, a |-> <<"array", <<Num(2), Num(7)>>>>,
   o |-> o, d |-> <<"dyn", "P", <<"struct", [x |-> Num(2), y |-> Num(1)]>>>>, g |-> <<"function", <<"forward", "inc">>, <<>>>>, c |-> Num(2)]
Heap(v) ==
  <<[x |-> Num(5), y |-> Num(6)],
    IF v.o[2] = "None" THEN [tag |-> "None"] ELSE [tag |-> "Some", payload |-> v.o[3][1]],
    [code |-> <<"forward", "inc">>, env |-> <<>>],
    [x |-> Num(2), y |-> Num(1)], [vtable |-> "P", data |-> <<"block", 4>>]>>
AsWords(v) ==
  [x \in DOMAIN v |-> CASE x = "p" -> <<"block", 1>> [] x = "o" -> <<"block", 2>> [] x = "g" -> <<"block", 3>> [] x = "d" -> <<"block", 5>> [] OTHER -> Word(v[x])]
Valuations == <<Values(1, -1, TRUE, <<"variant", "Some", <<Num(4)>>>>), Values(-8, 3, FALSE, <<"variant", "None", <<>>>>), Values(0, 2, TRUE, <<"variant", "Some", <<Num(0)>>>>)>>
-----------------------------------------------------------------------------
Id(x) == <<"id", x>>
Lit(k) == <<"lit", Num(k)>>
Bin(op, a, b) == <<"binary", op, a, b>>
Call(f, args) == <<"call", Id(f), <<>>, args, <<>>>>
Index(x) == <<"index", Id("a"), x>>
FieldOf(x) == <<"field", Id("p"), x>>
Named(x, y) == <<"struct", "P", <<<<"x", x>>, <<"y", y>>>>>>
Boxed(x) == <<"field", <<"struct", "Box", <<<<"v", x>>>>>>, "v">>
Generic(type, x) == <<"call", Id("same"), <<type>>, <<x>>, <<>>>>
MatchOf(x, y) == <<"match", Id("o"), <<<<"Some", "v", x>>, <<"_", "", y>>>>>>

Leaves0 == {Id(x) : x \in DOMAIN Scope} \cup {Lit(0), Lit(1), <<"lit", Truth(TRUE)>>, <<"lit", Flt(0)>>, <<"lit", Text(<<1, 1>>)>>}
Operands0 == Leaves0 \ {Id("p"), Id("a"), Id("o"), Id("g"), Id("d")}
Operators == {"+", "/", "*", "<", ">=", "==", "!=", "<<", ">>", "&", "&&", "||"}

\* Expressions that do something, or take a part of something.
Steps ==
  {Id("i"), Id("r"), Id("c"), Lit(0), Id("t"), Id("n"),
   <<"incdec", <<"+", TRUE>>, Id("i")>>, <<"incdec", <<"-", FALSE>>, Id("n")>>, <<"assign", Id("i"), Lit(0)>>,
   <<"assign", <<"deref", Id("m")>>, Id("i")>>, <<"compound", "*", Id("i"), Id("c")>>, Call("bump", <<<<"addrmut", Id("i")>>>>), Call("inc", <<Id("r")>>),
   Index(Id("i")), Index(Lit(1)), <<"try", Id("o")>>, FieldOf("y"), Bin("/", Id("n"), Id("i")), Bin("<", Id("n"), Id("c")), Bin("<", Id("i"), Lit(1)),
   <<"deref", Id("m")>>, <<"assign", Id("t"), Bin("==", Id("i"), Lit(1))>>, MatchOf(Id("v"), Id("i")), Call("fail", <<Id("s")>>)}

Targets == {Id("i"), Id("n"), Id("t"), Id("f"), Id("p"), Id("o"), Id("c"), <<"group", Id("i")>>, FieldOf("x"), <<"deref", Id("m")>>, <<"deref", Id("r")>>, Index(Lit(0)), Index(Id("i"))}
Single ==
  Leaves0
  \cup {Bin(op, x, y) : op \in Operators, x \in Operands0, y \in Operands0}
  \cup {<<"unary", op, x>> : op \in {"-", "!"}, x \in Leaves0}
  \cup {<<"cast", x, t>> : x \in Operands0, t \in {I64, U64, F64, Bool, Ref(I64)}}
  \cup {<<k, x>> : k \in {"addr", "addrmut", "deref", "try", "group"}, x \in Leaves0}
  \cup {<<"assign", x, y>> : x \in Targets, y \in Leaves0}
  \cup {<<"compound", op, x, y>> : op \in {"+", "/", "<<"}, x \in Targets, y \in Operands0}
  \cup {<<"incdec", <<op, prefix>>, x>> : op \in {"+", "-"}, prefix \in BOOLEAN, x \in Targets}
  \cup {Call(f, <<x>>) : f \in {"inc", "bump", "total", "g", "Some", "fail"}, x \in Leaves0 \cup {<<"addrmut", Id("i")>>}}
  \cup {<<"method", Id(x), "sum", <<y>>>> : x \in {"p", "d"}, y \in Leaves0}
  \cup {Boxed(x) : x \in Leaves0} \cup {Generic(type, x) : type \in {I64, U64}, x \in Leaves0}
Double ==
  {Bin(op, x, y) : op \in {"+", "<", "&&", "/"}, x \in Steps, y \in Steps}
  \cup {<<"assign", x, y>> : x \in Targets \cup {Index(<<"incdec", <<"+", FALSE>>, Id("i")>>)}, y \in Steps}
  \cup {<<"compound", "+", x, y>> : x \in Targets \cup {Index(<<"incdec", <<"+", FALSE>>, Id("i")>>)}, y \in Steps}
  \cup {Call(f, <<x, y>>) : f \in {"total", "view"}, x \in Steps \cup {<<"addr", Id("i")>>}, y \in Steps}
  \cup {Call("total", <<x, Id("i"), y>>) : x \in Steps, y \in Steps}
  \cup {<<"array", <<x, y>>>> : x \in Steps, y \in Steps}
  \cup {MatchOf(x, y) : x \in Steps \cup {Id("v")}, y \in Steps}
  \cup {Named(x, y) : x \in Steps, y \in Steps}
  \cup {<<"struct", "P", <<<<"y", x>>, <<"x", y>>>>>> : x \in {Id("n")}, y \in Steps}
  \cup {Index(x) : x \in Steps} \cup {Call("g", <<x>>) : x \in Steps} \cup {<<"try", Call("Some", <<x>>)>> : x \in Steps}
  \cup {<<"group", Bin("==", x, Id("i"))>> : x \in Steps} \cup {<<"unary", "!", Bin("<", x, Id("i"))>> : x \in Steps}
  \cup {<<"method", Id(x), "sum", <<y>>>> : x \in {"p", "d"}, y \in Steps} \cup {Boxed(x) : x \in Steps}
  \cup {<<"method", Id("P"), "weight", <<x, y>>>> : x \in Steps, y \in {Id("i"), Id("t"), <<"incdec", <<"+", TRUE>>, Id("i")>>}}
Closures == {<<"closure", <<"v">>, Bin(op, Id("v"), x)>> : op \in {"+", "/"}, x \in {Id("i"), Id("c"), Id("v"), Id("s"), Id("r"), <<"incdec", <<"+", TRUE>>, Id("i")>>}}

Tasks ==
  {[e |-> e, expected |-> Unknown] : e \in Single \cup Double}
  \cup {[e |-> e, expected |-> FnType(<<I64>>, I64)] : e \in Closures}
Checked(task) == Check(task.e, task.expected, Scope)

\* The checker's answer, whether nothing sets the code apart from the meaning, and
\* what each gives in each of the states.
ValueWanted(node, d) == IF node.deref THEN Behind(d.v, d.s) ELSE d.v
Computed(node, r) ==
  [end |-> r.m.end, calls |-> r.m.calls, vars |-> DeepAll(r.m.vars, r.m.heap),
   result |-> IF Running(r.m) THEN Deep(Outcome(r), r.m.heap) ELSE Garbage,
   skips |-> Running(r.m) /\ node.ty = Bool /\ Skips(node, r)]
MeantBy(node, d) ==
  [end |-> d.s.end, calls |-> d.s.calls, vars |-> ShownAll(d.s.vars),
   result |-> IF Over(d.s) THEN Garbage ELSE Shown(ValueWanted(node, d)),
   skips |-> d.v = Truth(FALSE)]

RECURSIVE HasType(_, _)
HasType(v, type) ==
  CASE v[1] = "addr" -> IsReference(type)
    [] v[1] = "str" -> IsString(type)
    [] v[1] = "struct" -> LET fields == DeclaredFields(type[2]) IN \A k \in DOMAIN fields : HasType(v[2][fields[k][1]], FieldTypes(type)[k])
    [] v[1] = "dyn" -> type[1] = "dyn" /\ type[2] \in Implements[v[2]]
    [] v[1] = "variant" -> type[2] \in {"Option", "Result"} /\ \A k \in DOMAIN v[3] : HasType(v[3][k], Payload(type, v[2]))
    [] v[1] = "array" -> type[1] = "array" /\ Len(v[2]) = type[3] /\ \A k \in DOMAIN v[2] : HasType(v[2][k], type[2])
    [] v[1] = "function" -> type[1] = "fn"
    [] v = Unbounded -> IsFloat(type)
    [] OTHER -> type[1] = v[1]

\* In each of the states.
ComputesMeaning(node) ==
  node.ok /\ Firm(node) =>
    \A k \in DOMAIN Valuations :
      Computed(node, Run(node, Machine(AsWords(Valuations[k]), Heap(Valuations[k])))) = MeantBy(node, Mean(node, State(Valuations[k])))
Describes(node, d) ==
  ~Over(d.s) => HasType(ValueWanted(node, d), node.ty) /\ (node.value # NoValue => node.value = d.v)
Described(node) ==
  node.ok /\ Firm(node) => \A k \in DOMAIN Valuations : Describes(node, Mean(node, State(Valuations[k])))
=============================================================================
