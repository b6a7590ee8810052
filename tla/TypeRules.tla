------------------------------ MODULE TypeRules ------------------------------
(* Which types go for which, what the operators give, and what is computed  *)
(* while checking.  A type is a tuple that begins with its kind; Unknown is *)
(* the type of what the checker could not tell.                             *)
EXTENDS Integers, Sequences, FiniteSetsExt

CONSTANTS AliasTypes,      \* type aliases: the type of each
          Generics,     \* the type parameters in scope
          Implements,   \* the traits of each named type
          WordBits      \* of a word

Unknown == <<>>
Bool == <<"bool">>
Str == <<"str">>
Error == <<"error">>
Never == <<"never">>
Void == <<"void">>
Usize == <<"int", "usize">>
Ref(t) == <<"ref", t>>
MutRef(t) == <<"mutref", t>>
Option(t) == <<"named", "Option", <<t>>>>
Result(t, e) == <<"named", "Result", <<t, e>>>>
FnType(params, ret) == <<"fn", params, ret>>

Known(t) == t # Unknown
Resolved(t) == IF t[1] = "named" /\ t[2] \in DOMAIN AliasTypes THEN AliasTypes[t[2]] ELSE t
IsInteger(t) == t[1] = "int"
IsUnsigned(t) == IsInteger(t) /\ t[2] \in {"u8", "u16", "u32", "u64", "usize"}
IsFloat(t) == t[1] = "float"
IsReference(t) == t[1] \in {"ref", "mutref"}
IsString(t) == t \in {Str, Ref(Str), MutRef(Str)} \/ (t[1] = "named" /\ t[2] = "String")
IsParameter(t) == t[1] = "named" /\ t[3] = <<>> /\ t[2] \in Generics
SameKind(a, b) == IF a[1] \in {"int", "float"} THEN a = b ELSE a[1] = b[1]

\* Types for which a reference goes where the value is expected.
IsAutoderefValue(t) == IsInteger(t) \/ IsFloat(t) \/ t[1] \in {"bool", "str", "raw", "cfn", "ref", "mutref"}
AutoderefType(t) == IF Known(t) /\ IsReference(t) /\ IsAutoderefValue(t[2]) THEN t[2] ELSE t

KindPair(a, b) == <<a[1], b[1]>>
StringView(a, b) == {a, b} = {Str, Ref(Str)}

RECURSIVE SameShape(_, _)
Shapes(as, bs) == Len(as) = Len(bs) /\ \A k \in DOMAIN as : SameShape(as[k], bs[k])
SameShape(expected, actual) ==
  LET a == Resolved(expected)
      b == Resolved(actual)
  IN CASE StringView(a, b) -> TRUE
       [] KindPair(a, b) = <<"named", "named">> -> a[2] = b[2] /\ Shapes(a[3], b[3])
       [] KindPair(a, b) \in {<<"ref", "ref">>, <<"ref", "mutref">>, <<"mutref", "mutref">>, <<"raw", "raw">>, <<"slice", "slice">>} ->
            SameShape(a[2], b[2])
       [] KindPair(a, b) = <<"array", "array">> -> a[3] = b[3] /\ SameShape(a[2], b[2])
       [] KindPair(a, b) \in {<<"fn", "fn">>, <<"cfn", "cfn">>} -> Shapes(a[2], b[2]) /\ SameShape(a[3], b[3])
       [] KindPair(a, b) = <<"dyn", "dyn">> -> a[2] = b[2]
       [] OTHER -> SameKind(a, b)

RECURSIVE ArgumentsAgree(_, _)
AllAgree(as, bs) == Len(as) = Len(bs) /\ \A k \in DOMAIN as : ArgumentsAgree(as[k], bs[k])
ArgumentsAgree(x, y) ==
  LET a == Resolved(x)
      b == Resolved(y)
  IN CASE Error \in {a, b} \/ IsParameter(a) \/ IsParameter(b) -> TRUE
       [] KindPair(a, b) = <<"named", "named">> -> a[2] = b[2] /\ AllAgree(a[3], b[3])
       [] a[1] = b[1] /\ a[1] \in {"ref", "mutref", "raw", "slice"} -> ArgumentsAgree(a[2], b[2])
       [] KindPair(a, b) = <<"array", "array">> -> a[3] = b[3] /\ ArgumentsAgree(a[2], b[2])
       [] {a[1], b[1]} \subseteq {"fn", "cfn"} -> AllAgree(a[2], b[2]) /\ ArgumentsAgree(a[3], b[3])
       [] KindPair(a, b) = <<"dyn", "dyn">> -> a[2] = b[2]
       [] StringView(a, b) -> TRUE
       [] OTHER -> SameKind(a, b)

Implementing(name, trait) == name \in DOMAIN Implements /\ trait \in Implements[name]

\* Whether a value of the second type goes where the first is expected.
RECURSIVE TypesCompatible(_, _)
TypesCompatible(x, y) ==
  LET a == Resolved(x)
      b == Resolved(y)
      kinds == {a[1], b[1]}
  IN CASE Error \in {a, b} \/ Never \in {a, b} -> TRUE
       [] KindPair(a, b) = <<"named", "dyn">> -> Implementing(a[2], b[2])
       [] KindPair(a, b) = <<"dyn", "named">> -> Implementing(b[2], a[2])
       [] KindPair(a, b) = <<"named", "named">> -> a[2] = b[2] /\ AllAgree(a[3], b[3])
       [] IsParameter(a) \/ IsParameter(b) -> TRUE
       [] kinds \subseteq {"int", "bool"} /\ "int" \in kinds -> TRUE
       [] KindPair(a, b) \in {<<"float", "float">>, <<"float", "int">>, <<"raw", "raw">>} -> TRUE
       [] "int" \in kinds /\ kinds \cap {"raw", "cfn"} # {} -> TRUE
       [] KindPair(a, b) = <<"array", "array">> -> a[3] = b[3] /\ TypesCompatible(a[2], b[2])
       [] KindPair(a, b) = <<"slice", "slice">> -> TypesCompatible(a[2], b[2])
       [] kinds = {"array", "slice"} \/ (kinds \cap {"ref", "mutref"} # {} /\ "raw" \in kinds) -> FALSE
       [] KindPair(a, b) \in {<<"ref", "ref">>, <<"mutref", "mutref">>, <<"ref", "mutref">>} -> SameShape(a[2], b[2])
       [] StringView(a, b) -> TRUE
       [] KindPair(a, b) \in {<<"fn", "fn">>, <<"cfn", "cfn">>} -> Shapes(a[2], b[2]) /\ SameShape(a[3], b[3])
       [] KindPair(a, b) = <<"dyn", "dyn">> -> a[2] = b[2]
       [] OTHER -> SameKind(a, b)
-----------------------------------------------------------------------------
(* The operators. *)

Arithmetic == {"+", "-", "*", "/", "%"}
BitOperators == {"&", "|", "^", "<<", ">>"}
Equality == {"==", "!="}
Ordering == {"<", ">", "<=", ">="}
Logical == {"&&", "||"}
Comparison == Equality \cup Ordering

Truthy(t) == Unknown = t \/ t \in {Bool, Error} \/ IsInteger(t)
Ordered(l, r) ==
  \/ IsInteger(l) /\ IsInteger(r)
  \/ IsFloat(l) /\ IsFloat(r)
  \/ IsString(l) /\ IsString(r)
  \/ l = r /\ IsParameter(l)

\* Whether an operator takes operands of these types.
TakesOperands(op, left, right) ==
  LET l == AutoderefType(left)
      r == AutoderefType(right)
      known == Known(l) /\ Known(r)
  IN CASE op \in Arithmetic \cup BitOperators -> known => TypesCompatible(l, r)
       [] op \in Equality -> known => TypesCompatible(l, r) /\ (IsString(l) <=> IsString(r))
       [] op \in Ordering -> known => Ordered(l, r)
       [] op \in Logical -> Truthy(l) /\ Truthy(r)
       [] OTHER -> TRUE

\* Mutant: a comparison has the type of what it compares.
BinaryTypeOfLeft(op, left, right) ==
  IF ~TakesOperands(op, left, right) THEN Unknown ELSE IF Known(left) THEN AutoderefType(left) ELSE AutoderefType(right)
\* The type of the result, as far as it is known.
BinaryType(op, left, right) ==
  LET l == AutoderefType(left)
      r == AutoderefType(right)
  IN IF op \in Comparison \cup Logical THEN Bool
     ELSE IF ~TakesOperands(op, left, right) THEN Unknown ELSE IF Known(l) THEN l ELSE r

Casts(source, target) ==
  LET a == Resolved(source)
  IN \/ IsInteger(a) /\ IsInteger(target)
     \/ IsFloat(a) /\ IsFloat(target)
     \/ (IsInteger(a) \/ a[1] = "raw") /\ target[1] = "cfn"
     \/ a[1] = "cfn" /\ (IsInteger(target) \/ target[1] = "raw")
     \/ IsReference(a) /\ IsReference(target) /\ SameShape(a, target)
     \/ a[1] = target[1] /\ a[1] \in {"fn", "cfn"} /\ SameShape(a, target)
     \/ ~IsReference(a) /\ a[1] \notin {"fn", "cfn"} /\ SameKind(a, target)
-----------------------------------------------------------------------------
(* Constants.  A value is a tuple of its kind and what it holds; NoValue is *)
(* what is not known before the program runs.  A float holds a whole number *)
(* here, a string its characters.                                           *)

NoValue == <<>>
Num(n) == <<"int", n>>
Flt(n) == <<"float", n>>
Truth(b) == <<"bool", b>>
Text(s) == <<"str", s>>

ConstFromUnary(op, v) ==
  CASE op = "-" /\ v # NoValue /\ v[1] \in {"int", "float"} -> <<v[1], -v[2]>>
    [] op = "!" /\ v # NoValue /\ v[1] = "bool" -> Truth(~v[2])
    [] OTHER -> NoValue

\* Words.  Division is toward zero; without a sign a negative word is larger
\* than every other.  A shift takes the count modulo the bits of a word.
Wrap(n) == ((n + 2^(WordBits - 1)) % 2^WordBits) - 2^(WordBits - 1)
Unsigned(n) == n % 2^WordBits
Abs(n) == IF n < 0 THEN -n ELSE n
Toward0(a, b) == IF (a < 0) = (b < 0) THEN Abs(a) \div Abs(b) ELSE -(Abs(a) \div Abs(b))
Quotient(a, b, unsigned) == IF unsigned THEN Wrap(Unsigned(a) \div Unsigned(b)) ELSE Wrap(Toward0(a, b))
Remainder(a, b, unsigned) == IF unsigned THEN Wrap(Unsigned(a) % Unsigned(b)) ELSE a - b * Toward0(a, b)
Below(a, b, unsigned) == IF unsigned THEN Unsigned(a) < Unsigned(b) ELSE a < b
Bit(n, k) == (Unsigned(n) \div 2^k) % 2 = 1
WordOf(S) == Wrap(FoldSet(LAMBDA k, n : n + 2^k, 0, S))
BitsOf(n) == {k \in 0..(WordBits - 1) : Bit(n, k)}
Shifted(op, a, n, unsigned) ==
  CASE op = "<<" -> Wrap(Unsigned(a) * 2^n)
    [] unsigned -> Wrap(Unsigned(a) \div 2^n)
    [] OTHER -> a \div 2^n

\* What an operator makes of two words; a division by zero has no result.
WordOperation(op, a, b, unsigned) ==
  CASE op = "+" -> Num(Wrap(a + b))
    [] op = "-" -> Num(Wrap(a - b))
    [] op = "*" -> Num(Wrap(a * b))
    [] op = "/" /\ b # 0 -> Num(Quotient(a, b, unsigned))
    [] op = "%" /\ b # 0 -> Num(Remainder(a, b, unsigned))
    [] op = "<" -> Truth(Below(a, b, unsigned))
    [] op = ">" -> Truth(Below(b, a, unsigned))
    [] op = "<=" -> Truth(~Below(b, a, unsigned))
    [] op = ">=" -> Truth(~Below(a, b, unsigned))
    [] op = "&" -> Num(WordOf(BitsOf(a) \cap BitsOf(b)))
    [] op = "|" -> Num(WordOf(BitsOf(a) \cup BitsOf(b)))
    [] op = "^" -> Num(WordOf((BitsOf(a) \cup BitsOf(b)) \ (BitsOf(a) \cap BitsOf(b))))
    [] op \in {"<<", ">>"} -> Num(Shifted(op, a, b % WordBits, unsigned))
    [] OTHER -> NoValue

FloatOperation(op, a, b) ==
  CASE op = "+" -> Flt(a + b)
    [] op = "-" -> Flt(a - b)
    [] op = "*" -> Flt(a * b)
    [] op = "/" /\ b # 0 -> Flt(Toward0(a, b))
    [] op = "%" /\ b # 0 -> Flt(a - b * Toward0(a, b))
    [] op = "<" -> Truth(a < b)
    [] op = ">" -> Truth(a > b)
    [] op = "<=" -> Truth(a <= b)
    [] op = ">=" -> Truth(a >= b)
    [] OTHER -> NoValue

BoolConstant(op, a, b) ==
  CASE op \in {"&", "&&"} -> Truth(a /\ b)
    [] op \in {"|", "||"} -> Truth(a \/ b)
    [] op = "^" -> Truth(a # b)
    [] OTHER -> NoValue

ConstFromBinary(op, a, b, unsigned) ==
  CASE op = "==" -> Truth(a = b)
    [] op = "!=" -> Truth(a # b)
    [] a[1] # b[1] -> NoValue
    [] a[1] = "int" -> WordOperation(op, a[2], b[2], unsigned)
    [] a[1] = "float" -> FloatOperation(op, a[2], b[2])
    [] a[1] = "str" -> IF op = "+" THEN Text(a[2] \o b[2]) ELSE NoValue
    [] OTHER -> BoolConstant(op, a[2], b[2])

\* One operand decides the result, whatever the other is.
Absorbed(op, a, b) ==
  CASE op = "*" /\ Num(0) \in {a, b} -> Num(0)
    [] op = "*" /\ Flt(0) \in {a, b} -> Flt(0)
    [] op = "&&" /\ Truth(FALSE) \in {a, b} -> Truth(FALSE)
    [] op = "||" /\ Truth(TRUE) \in {a, b} -> Truth(TRUE)
    [] OTHER -> NoValue

Folded(op, a, b, leftType) ==
  IF a # NoValue /\ b # NoValue THEN ConstFromBinary(op, a, b, Known(leftType) /\ IsUnsigned(leftType))
  ELSE Absorbed(op, a, b)
=============================================================================
