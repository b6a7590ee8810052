------------------------------ MODULE TypeCheck ------------------------------
(* Checking an expression gives it back as a tree of what the compiler will *)
(* know of each part: its type, the value it is known to have, whether what *)
(* a reference points to is meant, and the function a name stands for.      *)
EXTENDS TypeRules, SequencesExt

CONSTANTS Signatures,    \* [params, names, ret, generic, variadic, attrs] of each function
          Structs,      \* the fields of each struct: a sequence of <<name, type>>
          StructParams, \* the type parameters of each struct
          Methods,      \* [params, ret, receiver] of each <<type, method>>; the first parameter is the receiver
          Statics,      \* [params, ret] of each function of a type, by <<type, name>>
          Variants,     \* how many values each variant holds, by <<enum, variant>>
          Traits        \* [params, ret] of each method of a trait, by <<trait, method>>

Node(e, ty, value, kids, ok) ==
  [e |-> e, ty |-> ty, value |-> value, kids |-> kids, deref |-> FALSE, to |-> "",
   ok |-> ok /\ \A k \in DOMAIN kids : kids[k].ok]
Plain(e, ty, kids, ok) == Node(e, ty, NoValue, kids, ok)
Unlisted(e, kids) == Plain(e, Unknown, kids, FALSE)

RECURSIVE Ungrouped(_)
Ungrouped(e) == IF e[1] = "group" THEN Ungrouped(e[2]) ELSE e
IsVariable(e, scope) == e[1] = "id" /\ e[2] \in DOMAIN scope
AddressOfVariable(e) == LET u == Ungrouped(e) IN u[1] \in {"addr", "addrmut"} /\ Ungrouped(u[2])[1] = "id"

\* The value behind the reference is meant.
MarkAutoDeref(node) == [node EXCEPT !.deref = TRUE, !.ty = AutoderefType(node.ty)]

ValueOfReference(expected, actual) ==
  IsReference(actual) /\ expected[1] \notin {"ref", "raw"} /\ IsAutoderefValue(expected) /\ SameShape(expected, actual[2])

\* Whether the expression goes where the type is expected.
Fits(node, type) ==
  LET expected == Resolved(type)
      actual == Resolved(node.ty)
  IN CASE expected[1] = "raw" /\ actual[1] = "ref" -> AddressOfVariable(node.e) /\ SameShape(expected[2], actual[2])
       [] expected[1] = "cfn" /\ actual[1] = "fn" ->
            /\ Shapes(expected[2], actual[2]) /\ SameShape(expected[3], actual[3])
            /\ node.to \in DOMAIN Signatures /\ "export" \in Signatures[node.to].attrs
       [] ValueOfReference(expected, actual) -> TRUE
       [] expected[1] = "ref" /\ IsReference(actual) -> SameShape(expected[2], actual[2])
       [] IsReference(expected) /\ ~IsReference(actual) /\ actual # Str -> FALSE
       [] OTHER -> TypesCompatible(expected, actual)

\* What checking it there leaves on the expression.
Coerced(node, type) ==
  LET expected == Resolved(type)
      actual == IF Known(node.ty) THEN Resolved(node.ty) ELSE Unknown
  IN IF Unknown = actual \/ ~Fits(node, type) THEN node
     ELSE IF expected[1] = "cfn" /\ actual[1] = "fn" THEN [node EXCEPT !.ty = expected]
     ELSE IF ValueOfReference(expected, actual) THEN MarkAutoDeref(node) ELSE node

Accepts(node, type) == Known(node.ty) => Fits(node, type)

\* Both operands are read through one reference.
MarkBinaryAutoderef(left, right) ==
  LET dl == AutoderefType(left.ty)
      dr == AutoderefType(right.ty)
      Through(node, own, wanted) ==
        IF Known(left.ty) /\ Known(right.ty) /\ IsReference(node.ty) /\ IsAutoderefValue(wanted) /\ TypesCompatible(wanted, own)
        THEN MarkAutoDeref(node) ELSE node
  IN <<Through(left, dl, dr), Through(right, dr, dl)>>

RECURSIVE HoldsReference(_), HoldsFunction(_)
HoldsReference(t) ==
  CASE Unknown = t -> FALSE
    [] IsReference(t) -> t[2] # Str
    [] t[1] = "named" -> \E k \in DOMAIN t[3] : HoldsReference(t[3][k])
    [] t[1] \in {"array", "slice"} -> HoldsReference(t[2])
    [] OTHER -> FALSE
HoldsFunction(t) ==
  CASE Unknown = t -> FALSE
    [] t[1] = "fn" -> TRUE
    [] t[1] = "named" -> \E k \in DOMAIN t[3] : HoldsFunction(t[3][k])
    [] t[1] \in {"array", "slice"} -> HoldsFunction(t[2])
    [] OTHER -> FALSE
NestedFunction(t) == HoldsFunction(t) /\ t[1] # "fn"
OneSlot(t) == t[1] \notin {"array", "slice", "dyn", "void"}
-----------------------------------------------------------------------------
(* Type parameters. *)

RECURSIVE Substitute(_, _)
SubstituteAll(ts, s) == [k \in DOMAIN ts |-> Substitute(ts[k], s)]
Substitute(t, s) ==
  CASE Unknown = t -> t
    [] t[1] = "named" -> IF t[3] = <<>> /\ t[2] \in DOMAIN s THEN s[t[2]] ELSE <<"named", t[2], SubstituteAll(t[3], s)>>
    [] t[1] \in {"ref", "mutref", "raw", "slice"} -> <<t[1], Substitute(t[2], s)>>
    [] t[1] = "array" -> <<"array", Substitute(t[2], s), t[3]>>
    [] t[1] \in {"fn", "cfn"} -> <<t[1], SubstituteAll(t[2], s), Substitute(t[3], s)>>
    [] OTHER -> t

\* What the parameters stand for when a value of the type given goes where the
\* pattern is expected; the first to say decides.
RECURSIVE Inferred(_, _, _, _)
InferredAll(ps, ts, params, s) ==
  FoldLeft(LAMBDA acc, k : Inferred(ps[k], ts[k], params, acc), s, [k \in 1..Len(ps) |-> k])
Inferred(pattern, given, params, s) ==
  CASE Unknown = given -> s
    [] pattern[1] = "named" /\ pattern[3] = <<>> /\ \E k \in DOMAIN params : params[k] = pattern[2] ->
         IF pattern[2] \in DOMAIN s THEN s ELSE [n \in DOMAIN s \cup {pattern[2]} |-> IF n = pattern[2] THEN given ELSE s[n]]
    [] KindPair(pattern, given) = <<"named", "named">> /\ pattern[2] = given[2] /\ Len(pattern[3]) = Len(given[3]) ->
         InferredAll(pattern[3], given[3], params, s)
    [] pattern[1] = given[1] /\ given[1] \in {"ref", "mutref", "raw", "slice", "array"} -> Inferred(pattern[2], given[2], params, s)
    [] IsReference(pattern) /\ ~IsReference(given) -> Inferred(pattern[2], given, params, s)
    [] OTHER -> s
-----------------------------------------------------------------------------
(* Where a value may be stored. *)

RECURSIVE Check(_, _, _)

RECURSIVE SharedDeref(_, _)
SharedDeref(target, scope) ==
  CASE target[1] = "group" -> SharedDeref(target[2], scope)
    [] target[1] \in {"field", "index"} -> Check(target[2], Unknown, scope).ty[1] = "ref" \/ SharedDeref(target[2], scope)
    [] target[1] = "deref" -> Check(target[2], Unknown, scope).ty[1] = "ref"
    [] OTHER -> FALSE

Assignable(target, scope) ==
  LET t == Ungrouped(target) IN
  /\ ~SharedDeref(target, scope)
  /\ CASE t[1] = "id" ->
            /\ t[2] \in DOMAIN scope
            /\ scope[t[2]].mutable
            /\ ~HoldsReference(Resolved(scope[t[2]].ty))
       [] t[1] = "field" -> Check(t[2], Unknown, scope).ok
       [] t[1] = "deref" -> LET inner == Check(t[2], Unknown, scope) IN
            inner.ok /\ (Known(inner.ty) => inner.ty[1] \in {"raw", "mutref"})
       [] t[1] = "index" -> LET object == Check(t[2], Unknown, scope) IN object.ok /\ object.ty # <<"bytes">>
       [] OTHER -> FALSE
-----------------------------------------------------------------------------
(* Calls. *)

Constructors == {"None", "Some", "Ok", "Err"}

\* The arguments by the parameters they go to.
Expected(params, k) == IF params = <<>> THEN Unknown ELSE IF k <= Len(params) THEN params[k] ELSE params[Len(params)]

NamedParameter(f, name) == CHOOSE k \in DOMAIN Signatures[f].names : Signatures[f].names[k] = name
NamesAreKnown(f, count, named) ==
  /\ \A k \in DOMAIN named : \E j \in DOMAIN Signatures[f].names : Signatures[f].names[j] = named[k][1] /\ j > count
  /\ \A j, k \in DOMAIN named : named[j][1] = named[k][1] => j = k

SumType(f, payload) ==
  CASE f = "Some" -> Option(payload) [] f = "Ok" -> Result(payload, Error) [] OTHER -> Result(Error, payload)

ConstructorCall(e, f, args) ==
  IF f = "None" THEN [Plain(e, Option(Error), args, args = <<>>) EXCEPT !.to = f]
  ELSE LET payload == IF args # <<>> /\ Known(args[1].ty) THEN args[1].ty ELSE Error IN
       [Plain(e, SumType(f, payload), args, Len(args) = 1 /\ OneSlot(Resolved(payload))) EXCEPT !.to = f]

\* What the type arguments written at a call stand for, and its parameters.
Explicit(fn, typeArgs) ==
  IF Len(typeArgs) # Len(fn.generic) THEN <<>>
  ELSE [n \in {fn.generic[k] : k \in DOMAIN fn.generic} |-> typeArgs[CHOOSE k \in DOMAIN fn.generic : fn.generic[k] = n]]
CallParams(f, typeArgs) == SubstituteAll(Signatures[f].params, Explicit(Signatures[f], typeArgs))

\* Arguments without a type are let through; those beyond the parameters of a
\* function of any number are of the last one's.
CallOf(e, f, args, typeArgs, positional) ==
  LET fn == Signatures[f]
      s == Explicit(fn, typeArgs)
      params == CallParams(f, typeArgs)
      fixed == IF "panic" \in fn.attrs THEN 1 ELSE IF fn.variadic THEN Len(params) - 1 ELSE Len(params)
      many == IF "panic" \in fn.attrs THEN params[1] ELSE params[Len(params)]
      To(k) == IF k <= fixed THEN params[k] ELSE many
      checked == IF "str_variadic" \in fn.attrs THEN 1..fixed ELSE DOMAIN args
      enough == IF fn.variadic THEN Len(args) >= fixed ELSE Len(args) = fixed
  IN IF ~enough THEN Plain(e, Substitute(fn.ret, s), args, FALSE)
     ELSE [Plain(e, Substitute(fn.ret, s), [k \in DOMAIN args |-> IF k \in checked THEN Coerced(args[k], To(k)) ELSE args[k]],
             \A k \in checked : Known(args[k].ty) => k <= positional /\ Fits(args[k], To(k)))
           EXCEPT !.to = f]

\* Calling a value of function type.
CallOfValue(e, callee, args) ==
  IF callee.ty[1] \notin {"fn", "cfn"} THEN Unlisted(e, <<callee>> \o args)
  ELSE LET params == callee.ty[2] IN
       IF Len(params) # Len(args) THEN Unlisted(e, <<callee>> \o args)
       ELSE Plain(e, callee.ty[3], <<callee>> \o [k \in DOMAIN args |-> Coerced(args[k], params[k])],
                  \A k \in DOMAIN args : Accepts(args[k], params[k]))
-----------------------------------------------------------------------------
(* The expressions. *)

LiteralType(v) == CASE v[1] = "int" -> <<"int", "i32">> [] v[1] = "float" -> <<"float", "f64">> [] v[1] = "str" -> Ref(Str) [] OTHER -> Bool

CheckLiteral(e) == Node(e, LiteralType(e[2]), e[2], <<>>, TRUE)

CheckName(e, expected, scope) ==
  LET name == e[2] IN
  CASE name \in DOMAIN scope -> Node(e, scope[name].ty, scope[name].value, <<>>, scope[name].initialized)
    [] name = "None" ->
         LET wanted == IF Known(expected) THEN Resolved(expected) ELSE Unknown IN
         [Plain(e, IF Known(wanted) /\ wanted[1] = "named" /\ wanted[2] = "Option" THEN wanted ELSE Option(Error), <<>>, TRUE) EXCEPT !.to = name]
    [] name \in DOMAIN Signatures -> [Plain(e, FnType(Signatures[name].params, Signatures[name].ret), <<>>, TRUE) EXCEPT !.to = name]
    [] OTHER -> Unlisted(e, <<>>)

CheckAddress(e, inner, scope) ==
  LET u == Ungrouped(e[2]) IN
  Plain(e, IF Known(inner.ty) THEN <<IF e[1] = "addr" THEN "ref" ELSE "mutref", inner.ty>> ELSE Unknown, <<inner>>,
        IsVariable(u, scope) /\ (e[1] = "addrmut" => scope[u[2]].mutable))

CheckDeref(e, inner) ==
  LET t == inner.ty IN
  CASE Unknown = t -> Plain(e, Unknown, <<inner>>, TRUE)
    [] IsReference(t) -> Plain(e, t[2], <<inner>>, IsAutoderefValue(Resolved(t[2])))
    [] t[1] = "raw" -> Plain(e, t[2], <<inner>>, TRUE)
    [] OTHER -> Unlisted(e, <<inner>>)

CheckUnary(e, inner) ==
  Node(e, inner.ty, ConstFromUnary(e[2], inner.value), <<inner>>,
       IF e[2] = "!" THEN Truthy(inner.ty)
       ELSE Unknown = inner.ty \/ inner.ty[1] \notin {"str", "bool", "ref", "mutref", "raw"})

CheckCast(e, inner) ==
  LET target == Resolved(e[3]) IN
  Node(e, target, inner.value, <<inner>>, Known(inner.ty) /\ Casts(inner.ty, target))

CheckBinary(e, left, right) ==
  Node(e, BinaryType(e[2], left.ty, right.ty), Folded(e[2], left.value, right.value, left.ty),
       MarkBinaryAutoderef(left, right), TakesOperands(e[2], left.ty, right.ty))

\* What is assigned to a variable or an element has to fit it.
CheckAssign(e, scope) ==
  LET target == Check(e[2], Unknown, scope)
      name == Ungrouped(e[2])
      known == IF e[2][1] = "index" THEN target.ty ELSE IF IsVariable(name, scope) THEN scope[name[2]].ty ELSE Unknown
      value == Check(e[3], known, scope)
      fits == Known(known) => Accepts(value, known)
  IN Plain(e, value.ty, <<[target EXCEPT !.ok = TRUE], IF Known(known) THEN Coerced(value, known) ELSE value>>,
           /\ fits /\ Assignable(e[2], scope)
           /\ ~(Known(known) /\ Resolved(known)[1] = "fn" /\ IsVariable(name, scope) /\ Ungrouped(e[3]) = name))

CheckCompound(e, scope) ==
  LET target == Check(e[3], Unknown, scope)
      value == Check(e[4], Unknown, scope)
  IN Plain(e, BinaryType(e[2], target.ty, value.ty), MarkBinaryAutoderef(target, value),
           TakesOperands(e[2], target.ty, value.ty) /\ Assignable(e[3], scope))

CheckIncDec(e, scope) ==
  LET target == Check(e[3], Unknown, scope) IN
  Plain(e, target.ty, <<target>>,
        Assignable(e[3], scope) /\ (Known(target.ty) => target.ty[1] \notin {"str", "bool", "void", "ref", "raw"}))

\* What the parameters of a struct stand for in one of its types.
TypeArgs(t) == IF t[1] = "named" THEN t[3] ELSE <<>>
StructSubstitution(t) ==
  IF TypeArgs(t) = <<>> \/ t[2] \notin DOMAIN StructParams THEN <<>>
  ELSE LET params == StructParams[t[2]]
       IN [n \in {params[k] : k \in DOMAIN params} |-> t[3][CHOOSE k \in DOMAIN params : params[k] = n]]

CheckField(e, object) ==
  LET t == object.ty
      fields == IF Known(t) /\ t[1] = "named" /\ t[2] \in DOMAIN Structs THEN Structs[t[2]] ELSE <<>>
      at == {k \in DOMAIN fields : fields[k][1] = e[3]}
  IN Plain(e, IF at = {} THEN Unknown ELSE Substitute(fields[CHOOSE k \in at : TRUE][2], StructSubstitution(t)), <<object>>, TRUE)

\* The fields say what the parameters of a struct stand for.
CheckStruct(e, kids) ==
  LET fields == Structs[e[2]]
      params == StructParams[e[2]]
      Declared(k) == {j \in DOMAIN fields : fields[j][1] = e[3][k][1]}
      FieldType(k) == fields[CHOOSE j \in Declared(k) : TRUE][2]
      After(n) == FoldLeft(LAMBDA s, k : IF Declared(k) = {} THEN s ELSE Inferred(FieldType(k), kids[k].ty, params, s), <<>>, [k \in 1..n |-> k])
      all == After(Len(kids))
  IN Plain(e, <<"named", e[2], IF \A k \in DOMAIN params : params[k] \in DOMAIN all THEN [k \in DOMAIN params |-> all[params[k]]] ELSE <<>>>>, kids,
           /\ \A k \in DOMAIN kids : Declared(k) # {}
           /\ \A k \in DOMAIN kids : Declared(k) # {} /\ Known(kids[k].ty) =>
                LET concrete == Substitute(FieldType(k), After(k))
                IN TypesCompatible(kids[k].ty, concrete) /\ (params # <<>> => OneSlot(Resolved(concrete)))
           /\ \A j \in DOMAIN fields : \E k \in DOMAIN kids : e[3][k][1] = fields[j][1])

CheckArray(e, kids) ==
  LET typed == {k \in DOMAIN kids : Known(kids[k].ty)}
      first == CHOOSE k \in typed : \A j \in typed : k <= j
  IN IF typed = {} THEN Plain(e, Unknown, kids, TRUE)
     ELSE Plain(e, <<"array", kids[first].ty, Len(kids)>>, kids,
                ~HoldsReference(kids[first].ty) /\ \A k \in typed : TypesCompatible(kids[first].ty, kids[k].ty))

CheckIndex(e, object, index) ==
  LET t == object.ty IN
  Plain(e, IF Known(t) /\ t[1] \in {"array", "slice"} THEN t[2] ELSE Unknown, <<object, index>>,
        /\ Known(index.ty) => IsInteger(index.ty) \/ index.ty = Error
        /\ (Known(t) /\ t[1] = "array" /\ index.value # NoValue) => index.value[1] # "int" \/ index.value[2] \in 0..(t[3] - 1))

CheckTry(e, inner) ==
  LET t == inner.ty IN
  CASE Unknown = t -> Plain(e, Unknown, <<inner>>, TRUE)
    [] t[1] = "named" /\ t[2] \in {"Option", "Result"} -> Plain(e, IF t[3] = <<>> THEN Error ELSE t[3][1], <<inner>>, TRUE)
    [] OTHER -> Plain(e, Error, <<inner>>, FALSE)
-----------------------------------------------------------------------------
(* Methods. *)

RECURSIVE BaseName(_)
BaseName(t) == IF t[1] \in {"ref", "mutref", "raw"} THEN BaseName(t[2]) ELSE IF t[1] \in {"named", "int", "float"} THEN t[2] ELSE t[1]

Method(t, name) == <<BaseName(Resolved(t)), name>>
ReceiverKind(t, name) == IF Method(t, name) \in DOMAIN Methods THEN Methods[Method(t, name)].receiver ELSE "value"

\* A method that writes wants a variable that may be written; one called
\* through a reference has to say how it takes its receiver.
ReceiverFits(e, object, scope) ==
  Known(object.ty) /\
  LET t == Resolved(object.ty)
      kind == ReceiverKind(object.ty, e[3])
      u == Ungrouped(e[2])
  IN /\ (kind = "mutref" /\ t[1] # "mutref") => IsVariable(u, scope) /\ scope[u[2]].mutable
     /\ CASE t[1] = "ref" -> kind = "ref"
          [] t[1] = "mutref" -> kind \in {"ref", "mutref"}
          [] OTHER -> ~HoldsReference(t)
     /\ ~SharedDeref(e[2], scope)

PrimitiveFirst == {"len", "to_str", "to_string", "as_string", "as_str", "as_ptr", "parse"}
UsesImpl(t, name) == Method(t, name) \in DOMAIN Methods /\ (t[1] = "named" \/ name \notin PrimitiveFirst)

\* The parameters behind the receiver.
MethodParams(t, name) ==
  CASE t[1] = "dyn" /\ <<t[2], name>> \in DOMAIN Traits -> Traits[<<t[2], name>>].params
    [] Method(t, name) \in DOMAIN Methods -> Tail(SubstituteAll(Methods[Method(t, name)].params, StructSubstitution(t)))
    [] OTHER -> <<>>

BuiltinType(t, name) ==
  CASE name = "len" -> Usize
    [] name = "to_str" -> Ref(Str)
    [] name = "to_string" -> Str
    [] name \in {"as_str", "as_string"} -> IF t[1] \in {"str", "ref"} THEN Ref(Str) ELSE Unknown
    [] name \in {"abs", "min", "max"} -> IF IsInteger(t) \/ IsFloat(t) THEN t ELSE Unknown
    [] name \in {"sqrt", "floor", "ceil", "round"} -> IF IsFloat(t) THEN t ELSE Unknown
    [] name = "concat" -> IF t[1] \in {"str", "ref"} THEN Ref(Str) ELSE Unknown
    [] OTHER -> Unknown
BuiltinTakes(t, name) == name \in {"as_str", "as_string"} => t[1] \in {"str", "ref"}

CheckMethod(e, object, args, scope) ==
  LET t == object.ty
      params == MethodParams(t, e[3])
      listed == DOMAIN args \cap DOMAIN params
      kids == <<object>> \o [k \in DOMAIN args |-> IF k \in listed THEN Coerced(args[k], params[k]) ELSE args[k]]
      fits == Len(args) = Len(params) /\ \A k \in listed : Accepts(args[k], params[k])
      receiver == ReceiverFits(e, object, scope)
  IN CASE Unknown = t -> Unlisted(e, <<object>> \o args)
       [] Known(t) /\ UsesImpl(t, e[3]) ->
            [Plain(e, Substitute(Methods[Method(t, e[3])].ret, StructSubstitution(t)), kids, receiver /\ fits)
             EXCEPT !.to = Method(t, e[3])[1]]
       [] Known(t) /\ t[1] = "dyn" ->
            Plain(e, IF <<t[2], e[3]>> \in DOMAIN Traits THEN Traits[<<t[2], e[3]>>].ret ELSE Unknown, kids,
                  receiver /\ fits /\ <<t[2], e[3]>> \in DOMAIN Traits)
       [] OTHER -> Plain(e, BuiltinType(t, e[3]), <<object>> \o args, receiver /\ BuiltinTakes(t, e[3]))

\* A function of a type: what it is given says what its parameters stand for,
\* and is not compared with them.
CheckStatic(e, args, expected) ==
  LET fn == Statics[<<e[2][2], e[3]>>]
      params == StructParams[e[2][2]]
      wanted == IF Known(expected) THEN Resolved(expected) ELSE Unknown
      from == IF Known(wanted) /\ wanted[1] = "named" /\ wanted[2] = e[2][2] THEN StructSubstitution(wanted) ELSE <<>>
      s == FoldLeft(LAMBDA acc, k : IF k > Len(args) THEN acc ELSE Inferred(fn.params[k], args[k].ty, params, acc), from,
                    [k \in 1..Len(fn.params) |-> k])
  IN [Plain(e, Substitute(fn.ret, s), args, TRUE) EXCEPT !.to = e[2][2]]

CheckVariant(e, args) ==
  Plain(e, Unknown, args, /\ Variants[<<e[2][2], e[3]>>] = Len(args)
                          /\ \A k \in DOMAIN args : Known(args[k].ty) => OneSlot(Resolved(args[k].ty)))
-----------------------------------------------------------------------------
(* Closures and matches. *)

Subexpressions(e) ==
  CASE e[1] \in {"lit", "id"} -> <<>>
    [] e[1] \in {"group", "addr", "addrmut", "deref", "try", "cast", "field"} -> <<e[2]>>
    [] e[1] \in {"unary", "incdec", "closure"} -> <<e[3]>>
    [] e[1] \in {"binary", "compound"} -> <<e[3], e[4]>>
    [] e[1] \in {"assign", "index"} -> <<e[2], e[3]>>
    [] e[1] = "call" -> <<e[2]>> \o e[4] \o [k \in DOMAIN e[5] |-> e[5][k][2]]
    [] e[1] = "method" -> <<e[2]>> \o e[4]
    [] e[1] = "struct" -> [k \in DOMAIN e[3] |-> e[3][k][2]]
    [] e[1] = "match" -> <<e[2]>> \o [k \in DOMAIN e[3] |-> e[3][k][3]]
    [] OTHER -> e[2]

RECURSIVE NamesIn(_), ExprMutates(_)
NamesIn(e) == (IF e[1] = "id" THEN {e[2]} ELSE {}) \cup UNION {NamesIn(Subexpressions(e)[k]) : k \in DOMAIN Subexpressions(e)}

\* The variables an expression writes.
Written(e) ==
  CASE e[1] = "assign" -> {Ungrouped(e[2])}
    [] e[1] = "compound" -> {Ungrouped(e[3])}
    [] e[1] = "incdec" -> {Ungrouped(e[3])}
    [] e[1] = "addrmut" -> {Ungrouped(e[2])}
    [] OTHER -> {}
ExprMutates(e) == {t[2] : t \in {t \in Written(e) : t[1] = "id"}} \cup UNION {ExprMutates(Subexpressions(e)[k]) : k \in DOMAIN Subexpressions(e)}

PlainCopy(t) == IsInteger(t) \/ IsFloat(t) \/ t[1] \in {"bool", "raw", "cfn"}
Parameter(t) == [ty |-> t, value |-> NoValue, mutable |-> TRUE, initialized |-> TRUE]
With(scope, names, types) ==
  [n \in DOMAIN scope \cup {names[k] : k \in DOMAIN names} |->
     IF \E k \in DOMAIN names : names[k] = n THEN Parameter(types[CHOOSE k \in DOMAIN names : names[k] = n]) ELSE scope[n]]

CheckClosure(e, expected, scope) ==
  LET wanted == IF Known(expected) THEN Resolved(expected) ELSE Unknown
      signed == Known(wanted) /\ wanted[1] = "fn"
      params == IF signed THEN wanted[2] ELSE [k \in DOMAIN e[2] |-> Error]
      ret == IF signed THEN wanted[3] ELSE Error
      captured == {n \in NamesIn(e[3]) \cap DOMAIN scope : \A k \in DOMAIN e[2] : e[2][k] # n}
      inner == With(scope, e[2], [k \in DOMAIN e[2] |-> IF k <= Len(params) THEN params[k] ELSE Error])
      body == Check(e[3], ret, inner)
      result == IF ret # Error THEN ret ELSE IF Known(body.ty) THEN body.ty ELSE Void
  IN Plain(e, FnType(params, result), <<body>>,
           /\ Known(wanted) => signed
           /\ e[2] = <<>> \/ signed
           /\ Len(params) = Len(e[2])
           /\ \A n \in captured : PlainCopy(Resolved(scope[n].ty)) /\ n \notin ExprMutates(e[3])
           /\ \A k \in DOMAIN params : PlainCopy(Resolved(params[k]))
           /\ result[1] \in {"void", "never", "error"} \/ PlainCopy(Resolved(result))
           /\ (Known(body.ty) /\ ret # Error) => SameShape(ret, body.ty))

Payload(t, variant) ==
  CASE Unknown = t -> Error
    [] t[1] = "named" /\ t[3] # <<>> /\ variant \in {"Some", "Ok"} -> t[3][1]
    [] t[1] = "named" /\ Len(t[3]) = 2 /\ variant = "Err" -> t[3][2]
    [] OTHER -> Error

CheckMatch(e, scope) ==
  LET scrutinee == Check(e[2], Unknown, scope)
      Arm(k) == LET arm == e[3][k]
                    bound == IF arm[2] = "" THEN scope ELSE With(scope, <<arm[2]>>, <<Payload(scrutinee.ty, arm[1])>>)
                IN Check(arm[3], Unknown, [n \in DOMAIN bound |-> IF n = arm[2] THEN [bound[n] EXCEPT !.mutable = FALSE] ELSE bound[n]])
      arms == [k \in DOMAIN e[3] |-> Arm(k)]
      typed == {k \in DOMAIN arms : Known(arms[k].ty)}
      first == CHOOSE k \in typed : \A j \in typed : k <= j
  IN Plain(e, IF typed = {} THEN Unknown ELSE arms[first].ty, <<scrutinee>> \o arms,
           /\ arms # <<>>
           /\ \A k \in typed : TypesCompatible(arms[first].ty, arms[k].ty)
           /\ typed # {} => ~HoldsReference(arms[first].ty) /\ ~(Resolved(arms[first].ty)[1] = "fn"))
-----------------------------------------------------------------------------
(* Some, Ok, Err and None where an Option or a Result is expected. *)
PayloadIndex(f, wanted) ==
  CASE f = "Some" /\ wanted[2] = "Option" -> 1 [] f = "Ok" /\ wanted[2] = "Result" -> 1 [] f = "Err" /\ wanted[2] = "Result" -> 2 [] OTHER -> 0

Contextual(e, expected) ==
  /\ e[1] = "call" /\ e[2][1] = "id" /\ e[2][2] \in Constructors
  /\ Known(expected) /\ Resolved(expected)[1] = "named" /\ PayloadIndex(e[2][2], Resolved(expected)) # 0

CheckContextual(e, expected, scope) ==
  LET wanted == Resolved(expected)
      inner == wanted[3][PayloadIndex(e[2][2], wanted)]
      args == [k \in DOMAIN e[4] |-> Check(e[4][k], IF k = 1 THEN inner ELSE Unknown, scope)]
  IN [Plain(e, wanted, IF args = <<>> THEN args ELSE [args EXCEPT ![1] = Coerced(@, inner)],
            /\ Len(args) = 1 /\ e[3] = <<>> /\ e[5] = <<>> /\ OneSlot(Resolved(inner))
            /\ args # <<>> => Accepts(args[1], inner)) EXCEPT !.to = e[2][2]]

CheckCall(e, scope) ==
  LET f == IF e[2][1] = "id" /\ e[2][2] \notin DOMAIN scope THEN e[2][2] ELSE ""
      callee == Check(e[2], Unknown, scope)
      params == IF f \in DOMAIN Signatures THEN Signatures[f].params ELSE IF Known(callee.ty) /\ callee.ty[1] = "fn" THEN callee.ty[2] ELSE <<>>
      args == [k \in DOMAIN e[4] |-> Check(e[4][k], Expected(params, k), scope)]
      named == [k \in DOMAIN e[5] |-> Check(e[5][k][2], Unknown, scope)]
  IN CASE f \in Constructors -> ConstructorCall(e, f, args)
       [] f \in DOMAIN Signatures ->
            LET call == CallOf(e, f, args \o named, e[3], Len(args))
            IN [call EXCEPT !.ok = @ /\ NamesAreKnown(f, Len(args), e[5])]
       [] OTHER -> CallOfValue(e, callee, args \o named)

CheckMethodCall(e, expected, scope) ==
  LET type == IF e[2][1] = "id" /\ e[2][2] \notin DOMAIN scope THEN e[2][2] ELSE ""
      object == Check(e[2], Unknown, scope)
      params == IF type \in DOMAIN Structs THEN (IF <<type, e[3]>> \in DOMAIN Statics THEN Statics[<<type, e[3]>>].params ELSE <<>>)
                ELSE IF <<type, e[3]>> \in DOMAIN Variants THEN <<>>
                ELSE IF Known(object.ty) THEN MethodParams(object.ty, e[3]) ELSE <<>>
      args == [k \in DOMAIN e[4] |-> Check(e[4][k], IF k <= Len(params) THEN params[k] ELSE Unknown, scope)]
  IN CASE type \in DOMAIN Structs -> IF <<type, e[3]>> \in DOMAIN Statics THEN CheckStatic(e, args, expected) ELSE Unlisted(e, args)
       [] <<type, e[3]>> \in DOMAIN Variants -> CheckVariant(e, args)
       [] OTHER -> CheckMethod(e, object, args, scope)

CheckPlain(e, expected, scope) ==
  LET Part(k) == Check(Subexpressions(e)[k], Unknown, scope) IN
  CASE e[1] = "lit" -> CheckLiteral(e)
    [] e[1] = "id" -> CheckName(e, expected, scope)
    [] e[1] = "group" -> Node(e, Part(1).ty, Part(1).value, <<Part(1)>>, TRUE)
    [] e[1] \in {"addr", "addrmut"} -> CheckAddress(e, Part(1), scope)
    [] e[1] = "deref" -> CheckDeref(e, Part(1))
    [] e[1] = "unary" -> CheckUnary(e, Part(1))
    [] e[1] = "cast" -> CheckCast(e, Part(1))
    [] e[1] = "binary" -> CheckBinary(e, Part(1), Part(2))
    [] e[1] = "assign" -> CheckAssign(e, scope)
    [] e[1] = "compound" -> CheckCompound(e, scope)
    [] e[1] = "incdec" -> CheckIncDec(e, scope)
    [] e[1] = "call" -> CheckCall(e, scope)
    [] e[1] = "method" -> CheckMethodCall(e, expected, scope)
    [] e[1] = "field" -> CheckField(e, Part(1))
    [] e[1] = "struct" -> CheckStruct(e, [k \in DOMAIN Subexpressions(e) |-> Part(k)])
    [] e[1] = "match" -> CheckMatch(e, scope)
    [] e[1] = "array" -> CheckArray(e, [k \in DOMAIN Subexpressions(e) |-> Part(k)])
    [] e[1] = "index" -> CheckIndex(e, Part(1), Part(2))
    [] e[1] = "try" -> CheckTry(e, Part(1))
    [] OTHER -> CheckClosure(e, expected, scope)

\* No expression makes an aggregate of owned function values.
Check(e, expected, scope) ==
  LET node == IF Contextual(e, expected) THEN CheckContextual(e, expected, scope) ELSE CheckPlain(e, expected, scope)
  IN [node EXCEPT !.ok = @ /\ ~NestedFunction(node.ty)]
=============================================================================
