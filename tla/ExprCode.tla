------------------------------ MODULE ExprCode ------------------------------
(***************************************************************************)
(* The code an expression is compiled to, as what it does to the machine:  *)
(* variables are registers, a structure, an enum value and a function      *)
(* value blocks of the heap.  Code leaves its result in a place: a         *)
(* register of a variable, which later code may still change, or one of    *)
(* its own.                                                                *)
(***************************************************************************)
EXTENDS TypeCheck

CONSTANT ResultOf(_, _, _)     \* what a function gives for its arguments: a word and the variables it leaves

Machine(vars, heap) == [vars |-> vars, heap |-> heap, calls |-> <<>>, end |-> ""]
Garbage == <<"garbage">>
Address(x) == <<"addr", x>>
Word(v) == IF v[1] = "bool" THEN Num(IF v[2] THEN 1 ELSE 0) ELSE v

\* Nothing happens after a program has ended.
Running(m) == m.end = ""
Stop(m, why) == IF Running(m) THEN [m EXCEPT !.end = why] ELSE m
Store(m, x, w) == IF Running(m) /\ x \in DOMAIN m.vars THEN [m EXCEPT !.vars[x] = w] ELSE m
StoreElement(m, a, k, w) == IF Running(m) THEN [m EXCEPT !.vars[a][2][k + 1] = w] ELSE m
Allocate(m, block) == IF Running(m) THEN [m EXCEPT !.heap = Append(@, block)] ELSE m
StoreField(m, p, f, w) == IF Running(m) /\ p[1] = "block" THEN [m EXCEPT !.heap[p[2]] = (f :> w) @@ @] ELSE m
Newest(m) == <<"block", Len(m.heap)>>

LoadWord(m, p) == IF p[1] = "addr" /\ p[2] \in DOMAIN m.vars THEN m.vars[p[2]] ELSE Garbage
LoadField(m, p, f) == IF p[1] = "block" /\ f \in DOMAIN m.heap[p[2]] THEN m.heap[p[2]][f] ELSE Garbage

\* The result of some code: a place, and the machine after it.
Variable(x) == <<"var", x>>
Element(a, k) == <<"elem", a, k>>
Kept(w) == <<"own", w>>
Content(place, m) ==
  CASE place[1] = "var" -> m.vars[place[2]]
    [] place[1] = "elem" -> m.vars[place[2]][2][place[3] + 1]
    [] OTHER -> place[2]
Yields(place, m) == [at |-> place, m |-> m]
Gives(w, m) == Yields(Kept(w), m)
Outcome(r) == Content(r.at, r.m)
-----------------------------------------------------------------------------
(* Operators. *)

\* A float divided by zero is none of the numbers here.
Unbounded == <<"unbounded">>
OfFloats(op, a, b) == IF op \in {"/", "%"} /\ b = 0 THEN Unbounded ELSE FloatOperation(op, a, b)

\* Mutant: the sign of the operands is not looked at.
OperationSigned(op, a, b, ty) ==
  CASE IsFloat(ty) /\ a[1] = "float" /\ b[1] = "float" ->
         IF op \in Equality THEN Truth((a = b) = (op = "==")) ELSE IF op \in BitOperators THEN Garbage ELSE OfFloats(op, a[2], b[2])
    [] ~IsFloat(ty) /\ op \in Equality /\ a[1] \notin {"float", "str", "garbage"} -> Truth((a = b) = (op = "=="))
    [] ~IsFloat(ty) /\ a[1] = "int" /\ b[1] = "int" -> WordOperation(op, a[2], b[2], FALSE)
    [] OTHER -> Garbage

\* One instruction: its type says whether it takes the bits for floats, and
\* whether without a sign.
Operation(op, a, b, ty) ==
  CASE IsFloat(ty) /\ a[1] = "float" /\ b[1] = "float" ->
         IF op \in Equality THEN Truth((a = b) = (op = "==")) ELSE IF op \in BitOperators THEN Garbage ELSE OfFloats(op, a[2], b[2])
    [] ~IsFloat(ty) /\ op \in Equality /\ a[1] \notin {"float", "str", "garbage"} -> Truth((a = b) = (op = "=="))
    [] ~IsFloat(ty) /\ a[1] = "int" /\ b[1] = "int" -> WordOperation(op, a[2], b[2], IsUnsigned(ty))
    [] OTHER -> Garbage

RECURSIVE TextBelow(_, _)
TextBelow(s, t) ==
  t # <<>> /\ (s = <<>> \/ Head(s) < Head(t) \/ (Head(s) = Head(t) /\ TextBelow(Tail(s), Tail(t))))
TextOperation(op, s, t) ==
  CASE op = "+" -> Text(s \o t)
    [] op = "==" -> Truth(s = t)           [] op = "!=" -> Truth(s # t)
    [] op = "<" -> Truth(TextBelow(s, t))  [] op = ">" -> Truth(TextBelow(t, s))
    [] op = "<=" -> Truth(~TextBelow(t, s)) [] op = ">=" -> Truth(~TextBelow(s, t))
    [] OTHER -> Garbage

OnTexts(op, lt, rt) == op \in Comparison \cup {"+"} /\ IsString(lt) /\ IsString(rt)
DividesByZero(op, b, ty) == op \in {"/", "%"} /\ ~IsFloat(ty) /\ b = Num(0)

\* Integer division checks its divisor.
Computes(op, a, b, lt, rt, m) ==
  IF OnTexts(op, lt, rt) THEN Gives(IF a[1] = "str" /\ b[1] = "str" THEN Word(TextOperation(op, a[2], b[2])) ELSE Garbage, m)
  ELSE IF DividesByZero(op, b, lt) THEN Gives(Garbage, Stop(m, "zero"))
  ELSE Gives(Word(Operation(op, a, b, lt)), m)

Negated(w, ty) == IF IsFloat(ty) = (w[1] = "float") /\ w[1] \in {"int", "float"} THEN <<w[1], IF w[1] = "int" THEN Wrap(-w[2]) ELSE -w[2]>> ELSE Garbage
Inverted(w) == Num(IF w = Num(0) THEN 1 ELSE 0)
-----------------------------------------------------------------------------
(* Expressions. *)

RECURSIVE Run(_, _), Emit(_, _), UngroupedNode(_)
UngroupedNode(node) == IF node.e[1] = "group" THEN UngroupedNode(node.kids[1]) ELSE node

\* Mutant: every place is loaded from, whatever the checker says.
LoadedAlways(node, r) == Gives(LoadWord(r.m, Outcome(r)), r.m)
\* What a reference points to is loaded where the checker says so; a string is
\* the address of its characters.
LoadedValue(node, r) == IF node.deref /\ node.ty # Str THEN Gives(LoadWord(r.m, Outcome(r)), r.m) ELSE r

\* What the checker knows is not computed.
Emitted(node, m) ==
  IF node.value # NoValue /\ node.e[1] \notin {"id", "lit"} THEN Gives(Word(node.value), m) ELSE Emit(node, m)
Run(node, m) == LoadedValue(node, Emitted(node, m))

\* Several expressions, in their order; a place is read when all are done.
Joined(acc, r) == [places |-> Append(acc.places, r.at), m |-> r.m]
RunAll(nodes, m) == FoldLeft(LAMBDA acc, k : Joined(acc, Run(k, acc.m)), [places |-> <<>>, m |-> m], nodes)
Words(rs) == [k \in DOMAIN rs.places |-> Content(rs.places[k], rs.m)]

\* Mutant: the right operand is computed first.
BinaryRightFirst(node, m) ==
  LET b == Run(node.kids[2], m)
      a == Run(node.kids[1], b.m)
  IN Computes(node.e[2], Outcome(a), Content(b.at, a.m), node.kids[1].ty, node.kids[2].ty, a.m)
OfBoth(node, a, b) == Computes(node.e[2], Content(a.at, b.m), Outcome(b), node.kids[1].ty, node.kids[2].ty, b.m)
WithLeft(node, a) == OfBoth(node, a, Run(node.kids[2], a.m))
Binary(node, m) == WithLeft(node, Run(node.kids[1], m))

\* Mutant: both operands are computed.
AlwaysBoth(node, m) ==
  LET a == Run(node.kids[1], m)
      b == Run(node.kids[2], a.m)
  IN Gives(IF (Outcome(a) = Num(0)) = (node.e[2] = "&&") THEN Num(IF node.e[2] = "&&" THEN 0 ELSE 1) ELSE Outcome(b), b.m)
ShortCircuit(node, m) ==
  LET a == Run(node.kids[1], m)
      decided == (Outcome(a) = Num(0)) = (node.e[2] = "&&")
      b == Run(node.kids[2], a.m)
  IN IF decided THEN Gives(Num(IF node.e[2] = "&&" THEN 0 ELSE 1), a.m) ELSE Gives(Outcome(b), b.m)

\* An index out of bounds ends the program; one that is written as a number was
\* checked, and is a register.
IsArray(t) == Known(t) /\ t[1] = "array"
Written0(index) == index.e[1] = "lit"
Guarded(m, index, w, length) == IF ~Written0(index) /\ (w[1] # "int" \/ w[2] \notin 0..(length - 1)) THEN Stop(m, "bounds") ELSE m
InBounds(object, w) == w[1] = "int" /\ w[2] \in 0..(object.ty[3] - 1)

Indexed(object, index, o, i) ==
  LET w == Content(i.at, i.m)
      m == Guarded(i.m, index, w, object.ty[3])
  IN IF ~Running(m) \/ ~InBounds(object, w) THEN Gives(Garbage, m)
     ELSE IF Written0(index) /\ o.at[1] = "var" THEN Yields(Element(o.at[2], w[2]), m)
     ELSE Gives(Content(o.at, m)[2][w[2] + 1], m)
RunIndex(node, m) ==
  LET o == Run(node.kids[1], m) IN Indexed(node.kids[1], node.kids[2], o, Run(node.kids[2], o.m))

\* Assignment: of the value and the target, the one or the other comes first.
StoreThrough(v, p) == Yields(v.at, LET a == Outcome(p) IN IF a[1] = "addr" THEN Store(p.m, a[2], Content(v.at, p.m)) ELSE Stop(p.m, "fault"))
StoreInto(v, o, field) == Yields(v.at, StoreField(o.m, Outcome(o), field, Content(v.at, o.m)))
\* The index is read again for the store, which nothing checks.
StoreAt(object, o, i, v) ==
  LET w == Content(i.at, v.m)
  IN Yields(v.at, CASE o.at[1] # "var" -> v.m
                    [] InBounds(object, w) -> StoreElement(v.m, o.at[2], w[2], Content(v.at, v.m))
                    [] OTHER -> Stop(v.m, "outside"))
AssignIndex(object, index, o, i, value) ==
  StoreAt(object, o, i, Run(value, Guarded(i.m, index, Outcome(i), object.ty[3])))

AssignName(x, v) == Yields(Variable(x), Store(v.m, x, Outcome(v)))
Assign(target, value, m) ==
  CASE target.e[1] = "id" -> AssignName(target.e[2], Run(value, m))
    [] target.e[1] = "deref" -> LET v == Run(value, m) IN StoreThrough(v, Run(target.kids[1], v.m))
    [] target.e[1] = "field" -> LET v == Run(value, m) IN StoreInto(v, Run(target.kids[1], v.m), target.e[3])
    [] target.e[1] = "index" ->
         LET o == Run(target.kids[1], m)
         IN AssignIndex(target.kids[1], target.kids[2], o, Run(target.kids[2], o.m), value)

\* Where a compound assignment and a count find their target; its parts are
\* computed once, and an index is read again for the store.
IndexPlace(object, index, o, i) ==
  Yields(IF o.at[1] # "var" THEN Kept(Garbage) ELSE IF Written0(index) THEN Element(o.at[2], Outcome(i)[2]) ELSE <<"at", o.at[2], i.at, object>>,
         Guarded(i.m, index, Outcome(i), object.ty[3]))
Lvalue(target, m) ==
  CASE target.e[1] = "id" -> Yields(Variable(target.e[2]), m)
    [] target.e[1] = "deref" -> LET p == Run(target.kids[1], m) IN Yields(<<"addr", Outcome(p)>>, p.m)
    [] target.e[1] = "field" -> LET o == Run(target.kids[1], m) IN Yields(<<"field", Outcome(o), target.e[3]>>, o.m)
    [] target.e[1] = "index" ->
         LET o == Run(target.kids[1], m) IN IndexPlace(target.kids[1], target.kids[2], o, Run(target.kids[2], o.m))
LoadFrom(place, m) ==
  CASE ~Running(m) -> Garbage
    [] place[1] = "addr" -> LoadWord(m, place[2])
    [] place[1] = "field" -> LoadField(m, place[2], place[3])
    [] place[1] = "at" -> Content(Element(place[2], Content(place[3], m)[2]), m)
    [] OTHER -> Content(place, m)
StoreAgain(place, w, m) ==
  LET i == Content(place[3], m) IN IF InBounds(place[4], i) THEN StoreElement(m, place[2], i[2], w) ELSE Stop(m, "outside")
StoreTo(place, w, m) ==
  CASE place[1] = "var" -> Store(m, place[2], w)
    [] place[1] = "elem" -> StoreElement(m, place[2], place[3], w)
    [] place[1] = "addr" -> IF place[2][1] = "addr" THEN Store(m, place[2][2], w) ELSE Stop(m, "fault")
    [] place[1] = "field" -> StoreField(m, place[2], place[3], w)
    [] place[1] = "at" -> StoreAgain(place, w, m)
    [] OTHER -> m

\* A register is read after the value is computed, any other target before it.
IsRegister(place) == place[1] \in {"var", "elem"}
CompoundName(x, op, ty, v) ==
  LET r == Computes(op, v.m.vars[x], Outcome(v), ty, <<"other">>, v.m) IN Yields(Variable(x), Store(r.m, x, Outcome(r)))
CompoundPlace(op, ty, place, old, v) ==
  LET r == Computes(op, IF IsRegister(place) THEN Content(place, v.m) ELSE old, Outcome(v), ty, <<"other">>, v.m)
  IN Yields(r.at, StoreTo(place, Outcome(r), r.m))
Compound(node, m) ==
  LET target == node.kids[1] IN
  IF target.e[1] = "id" THEN CompoundName(target.e[2], node.e[2], target.ty, Run(node.kids[2], m))
  ELSE LET l == Lvalue(UngroupedNode(target), m)
       IN CompoundPlace(node.e[2], target.ty, l.at, LoadFrom(l.at, l.m), Run(node.kids[2], l.m))

\* Counting takes the bits for an integer.  The old value is kept apart for a
\* name, and where it had to be loaded.
Counted(w, op) == Operation(op, w, Num(1), <<"int", "i64">>)
CountAt(place, old, op, prefix, named, m) ==
  Yields(IF IsRegister(place) /\ (prefix = named) THEN place ELSE Kept(IF prefix THEN Counted(old, op) ELSE old),
         StoreTo(place, Counted(old, op), m))
Count(node, m) ==
  LET l == Lvalue(UngroupedNode(node.kids[1]), m)
  IN CountAt(l.at, LoadFrom(l.at, l.m), node.e[2][1], node.e[2][2], node.kids[1].e[1] = "id", l.m)
-----------------------------------------------------------------------------
(* Structures, calls and matches. *)

FieldOrder(name) == Structs[name]
FieldNode(node, f) == {k \in DOMAIN node.e[3] : node.e[3][k][1] = f}
\* Fields are computed and stored in the order of their declaration.
StructField(node, p, r, f) == IF FieldNode(node, f) = {} THEN r.m ELSE StoreField(r.m, p, f, Outcome(r))
RunStruct(node, m) ==
  LET new == Allocate(m, <<>>)
      One(acc, f) == StructField(node, Newest(new), Run(node.kids[CHOOSE k \in FieldNode(node, f) : TRUE], acc), f)
  IN Gives(Newest(new), FoldLeft(LAMBDA acc, d : One(acc, d[1]), new, FieldOrder(node.e[2])))

RunArray(node, m) == LET rs == RunAll(node.kids, m) IN Gives(<<"array", Words(rs)>>, rs.m)

\* What a word stands for, with what the heap holds.
RECURSIVE Deep(_, _)
DeepAll(ws, heap) == [k \in DOMAIN ws |-> Deep(ws[k], heap)]
DeepBlock(b, heap) ==
  CASE "tag" \in DOMAIN b -> <<"variant", b.tag, IF "payload" \in DOMAIN b THEN <<Deep(b.payload, heap)>> ELSE <<>>>>
    [] "vtable" \in DOMAIN b -> <<"dyn", b.vtable, Deep(b.data, heap)>>
    [] "code" \in DOMAIN b -> <<"function", b.code, DeepAll(b.env, heap)>>
    [] OTHER -> <<"struct", DeepAll(b, heap)>>
Deep(w, heap) ==
  CASE w[1] = "block" -> DeepBlock(heap[w[2]], heap)
    [] w[1] \in {"array", "list"} -> <<w[1], DeepAll(w[2], heap)>>
    [] OTHER -> w

Perform(f, args, m) ==
  IF ~Running(m) THEN Gives(Garbage, m)
  ELSE LET seen == DeepAll(args, m.heap)
           made == ResultOf(f, seen, m.vars)
       IN Gives(made[1], [m EXCEPT !.calls = Append(@, <<f, seen>>), !.vars = made[2]])
CallBlock(tag, args, m) == LET n == Allocate(m, ("tag" :> tag) @@ (IF args = <<>> THEN <<>> ELSE "payload" :> args[1])) IN Gives(Newest(n), n)

\* A function of any number of arguments gets a list of those beyond its own.
Listed(f, args) ==
  LET fixed == Len(Signatures[f].params) - 1
  IN IF Signatures[f].variadic THEN Append(SubSeq(args, 1, fixed), <<"list", SubSeq(args, fixed + 1, Len(args))>>) ELSE args
CallNamed(f, rs) ==
  CASE f \in Constructors -> CallBlock(f, Words(rs), rs.m)
    [] f \in DOMAIN Signatures /\ "panic" \in Signatures[f].attrs -> Gives(Garbage, Stop(rs.m, "panic"))
    [] OTHER -> Perform(f, Listed(f, Words(rs)), rs.m)

\* A function value holds the values of the variables it names, as they were.
Captured(node, m) == {n \in NamesIn(node.e[3]) \cap DOMAIN m.vars : \A k \in DOMAIN node.e[2] : node.e[2][k] # n}
MakeClosure(node, m) ==
  LET n == Allocate(m, [code |-> <<"closure", node>>, env |-> [x \in Captured(node, m) |-> m.vars[x]]]) IN Gives(Newest(n), n)
MakeForward(f, m) == LET n == Allocate(m, [code |-> <<"forward", f>>, env |-> <<>>]) IN Gives(Newest(n), n)
Back(r, m) == Gives(Outcome(r), [r.m EXCEPT !.vars = m.vars])
Enter(block, args, m) ==
  IF block.code[1] = "forward" THEN Perform(block.code[2], args, m)
  ELSE LET node == block.code[2]
           frame == [x \in {node.e[2][k] : k \in DOMAIN node.e[2]} |-> args[CHOOSE k \in DOMAIN node.e[2] : node.e[2][k] = x]] @@ block.env
       IN Back(Run(node.kids[1], [m EXCEPT !.vars = frame]), m)
CallValue(w, args, m) == IF w[1] # "block" \/ ~Running(m) THEN Gives(Garbage, m) ELSE Enter(m.heap[w[2]], args, m)

RunCall(node, m) ==
  IF node.to # "" THEN CallNamed(node.to, RunAll(node.kids, m))
  ELSE LET g == Run(node.kids[1], m)
           rs == RunAll(Tail(node.kids), g.m)
       IN CallValue(Content(g.at, rs.m), Words(rs), rs.m)
\* A method of a value behind its trait is found in the table it carries, which
\* is read before the arguments are computed.
Dispatch(method, vtable, data, rs) == Perform(<<vtable, method>>, <<data>> \o Words(rs), rs.m)
RunDyn(node, o) ==
  Dispatch(node.e[3], LoadField(o.m, Outcome(o), "vtable"), LoadField(o.m, Outcome(o), "data"), RunAll(Tail(node.kids), o.m))
RunMethod(node, m) ==
  IF node.to = "" THEN RunDyn(node, Run(node.kids[1], m))
  ELSE LET rs == RunAll(node.kids, m) IN Perform(<<node.to, node.e[3]>>, Words(rs), rs.m)

\* The arms in order; the one taken binds the payload to a name of its own.
Matching(arm, tag) == arm[1] \in {tag, "_"}
Bound(arm, w, m) == IF arm[2] = "" THEN m ELSE [m EXCEPT !.vars = (arm[2] :> w) @@ @]
Unbound(r, arm, m) ==
  Gives(Outcome(r), IF arm[2] = "" THEN r.m
                   ELSE [r.m EXCEPT !.vars = [x \in DOMAIN m.vars |-> IF x = arm[2] THEN m.vars[x] ELSE r.m.vars[x]]])
ArmsFor(node, s, tag) == {k \in DOMAIN node.e[3] : Matching(node.e[3][k], tag)}
Take(node, k, s) ==
  Unbound(Run(node.kids[k + 1], Bound(node.e[3][k], LoadField(s.m, Outcome(s), "payload"), s.m)), node.e[3][k], s.m)
Choose(node, s) ==
  LET arms == ArmsFor(node, s, LoadField(s.m, Outcome(s), "tag"))
  IN IF arms = {} \/ ~Running(s.m) THEN Gives(Garbage, s.m)
     ELSE Take(node, CHOOSE k \in arms : \A j \in arms : k <= j, s)
Unwrap(s) ==
  CASE ~Running(s.m) -> s
    [] LoadField(s.m, Outcome(s), "tag") \in {"Some", "Ok"} -> Gives(LoadField(s.m, Outcome(s), "payload"), s.m)
    [] OTHER -> Gives(Garbage, Stop(s.m, "returned"))

RunName(node, m) ==
  CASE node.to = "" -> Yields(Variable(node.e[2]), m)
    [] node.to \in Constructors -> CallBlock(node.to, <<>>, m)
    [] OTHER -> MakeForward(node.to, m)

RunUnary(node, r) == Gives(IF node.e[2] = "!" THEN Inverted(Outcome(r)) ELSE Negated(Outcome(r), node.kids[1].ty), r.m)
RunField(node, o) == Gives(LoadField(o.m, Outcome(o), node.e[3]), o.m)
RunDeref(node, p) == Gives(LoadWord(p.m, Outcome(p)), p.m)
Emit(node, m) ==
  CASE node.e[1] = "lit" -> Gives(Word(node.e[2]), m)
    [] node.e[1] = "id" -> RunName(node, m)
    [] node.e[1] \in {"group", "cast"} -> Run(node.kids[1], m)
    [] node.e[1] \in {"addr", "addrmut"} -> Gives(Address(Ungrouped(node.e[2])[2]), m)
    [] node.e[1] = "deref" -> RunDeref(node, Run(node.kids[1], m))
    [] node.e[1] = "unary" -> RunUnary(node, Run(node.kids[1], m))
    [] node.e[1] = "binary" -> IF node.e[2] \in Logical THEN ShortCircuit(node, m) ELSE Binary(node, m)
    [] node.e[1] = "assign" -> Assign(UngroupedNode(node.kids[1]), node.kids[2], m)
    [] node.e[1] = "compound" -> Compound(node, m)
    [] node.e[1] = "incdec" -> Count(node, m)
    [] node.e[1] = "call" -> RunCall(node, m)
    [] node.e[1] = "method" -> RunMethod(node, m)
    [] node.e[1] = "struct" -> RunStruct(node, m)
    [] node.e[1] = "field" -> RunField(node, Run(node.kids[1], m))
    [] node.e[1] = "array" -> RunArray(node, m)
    [] node.e[1] = "index" -> RunIndex(node, m)
    [] node.e[1] = "match" -> Choose(node, Run(node.kids[1], m))
    [] node.e[1] = "try" -> Unwrap(Run(node.kids[1], m))
    [] OTHER -> MakeClosure(node, m)
-----------------------------------------------------------------------------
(* Conditions. *)

\* What the checker knows decides; else a comparison jumps by its negation, and
\* any other condition is compared with zero.
Skips(node, r) == IF node.value # NoValue /\ node.value[1] = "bool" THEN ~node.value[2] ELSE Outcome(r) = Num(0)
=============================================================================
