------------------------------ MODULE MCMachine ------------------------------
(***************************************************************************)
(* The two ends of compilation, which share no state: texts for the parser *)
(* and routines for the machine.  A behaviour is one of them at work while *)
(* the other rests.                                                        *)
(***************************************************************************)
EXTENDS Meaning, Parser

VARIABLES task,     \* what texts are built around
          answer    \* one of them, and what was read of it

Both == {"sysv", "win64"}
Unary3 == {"neg", "not", "fneg", "move"}
Binary3 == {"add", "sub", "mul", "and", "or", "xor", "shl", "shr", "sar", "addsd", "subsd", "mulsd", "divsd"}
Dividing == {"div", "divu", "mod", "modu"}
Addressing == {"lea", "load", "loadf", "store", "storef", "get", "getf", "put", "putf", "vtbl"}

\* Destination and operands: apart, and the same in every way.
Aliases == {<<2, 0, 1>>, <<0, 0, 1>>, <<1, 0, 1>>, <<2, 0, 0>>, <<0, 0, 0>>}

OpJobs ==
  {<<"op", abi, f, x[1], x[2], x[3]>> : abi \in Both, f \in Binary3 \cup Dividing, x \in Aliases}
  \cup {<<"op", abi, f, d, 0, 1>> : abi \in Both, f \in Unary3, d \in {0, 2}}
  \cup {<<"op", abi, f, 2, 0, o>> : abi \in Both, f \in Addressing, o \in 0..1}
  \cup {<<"op", abi, f, 4, 0, 1>> : abi \in Both, f \in {"aload1", "aload2", "astore1", "astore2"}}
  \cup {<<"op", abi, "pow", 2, 0, 1>> : abi \in Both}

IntJumps == {"Je", "Jne", "Jg", "Jge", "Jl", "Jle"}
BranchJobs ==
  {<<"branch", "sysv", op, FALSE, u, FALSE>> : op \in IntJumps, u \in BOOLEAN}
  \cup {<<"branch", "sysv", op, TRUE, FALSE, n>> : op \in IntJumps, n \in BOOLEAN}
  \cup {<<"branch", "sysv", op, FALSE, FALSE, FALSE>> : op \in {"Ja", "Jb", "Jz", "Jnz"}}

IntrinsicJobs ==
  {<<"intrinsic", abi, f>> : abi \in Both,
     f \in {"write", "read", "exit", "malloc", "free", "realloc", "new", "memset", "memmove", "memcmp", "stderr_write",
            "sleep_ms", "to_int", "to_float", "spawn", "join", "bind_tcp", "connect_tcp", "backtrace", "memory",
            "free_memory", "hostname", "cpuid", "build", "product", "random", "random_float", "process_wait",
            "process_try_wait", "process_terminate", "process_close"}}
  \cup {<<"intrinsic", "sysv", f>> : f \in {"process_spawn", "ext6", "syscall"}}

StringJobs == {<<"string", abi, f>> : abi \in Both,
                 f \in {"strlen", "concat", "strcmp", "count", "byte_at", "from_byte", "memcpy", "getenv"}}

NumberJobs ==
  {<<"number", "sysv", "integer", n, base, signed>> : n \in {0, 7, 10, 255, -1, -10, WordSize \div 2}, base \in {10, 16}, signed \in BOOLEAN}
  \cup {<<"number", abi, "int_heap", n, 10, TRUE>> : abi \in Both, n \in {0, 10, -205}}
  \cup {<<"number", "sysv", "float", n, p, trim>> : n \in {0, 32, 63, 96, -100, 636, 640, 6380}, p \in 0..2, trim \in BOOLEAN}
  \cup {<<"number", abi, "float_heap", n, 2, TRUE>> : abi \in Both, n \in {-63, 96}}
  \cup {<<"number", "sysv", k, 0, 2, TRUE>> : k \in {"inf", "nan"}}
  \cup {<<"number", abi, "bool", n, 0, TRUE>> : abi \in Both, n \in 0..1}
  \cup {<<"number", "sysv", "binary", n, 2, TRUE>> : n \in {0, 1, 6, 37}}

QuaziJobs ==
  {<<"quazi", abi, how, n, 1>> : abi \in Both, how \in {"direct", "through"}, n \in {1, 4, 5, 6, 7, 8}}
  \cup {<<"quazi", abi, "direct", n, 2>> : abi \in Both, n \in {3, 7}}

\* C signatures: numbers, floats, aggregates in one or two registers of each
\* kind, in memory, misplaced, and more of each than there are registers.
TwoInts == Aggregate(16, <<Field(0, Pointer), Field(8, Pointer)>>)
IntFloat == Aggregate(16, <<Field(0, Pointer), Field(8, F64)>>)
TwoFloats == Aggregate(16, <<Field(0, F64), Field(8, F64)>>)
OneFloat == Aggregate(8, <<Field(0, F32), Field(4, F32)>>)
Mixed8 == Aggregate(8, <<Field(0, F32), Field(4, IntType(4))>>)
Large == Aggregate(24, <<Field(0, Pointer), Field(8, Pointer), Field(16, Pointer)>>)
Packed == Aggregate(12, <<Field(0, IntType(4)), Field(4, Pointer)>>)
S(params) == [params |-> params, ret |-> IF params = <<>> THEN Void ELSE params[Len(params)], variadic |-> FALSE]
Rep(ty, n) == [i \in 1..n |-> ty]

MCSignatures ==
  [none |-> S(<<>>), ints |-> S(Rep(Pointer, 7)), small |-> S(<<IntType(1), IntType(4)>>), doubles |-> S(Rep(F64, 9)),
   singles |-> S(<<Pointer, F32>>), pair |-> S(<<TwoInts>>), swapped |-> S(<<IntFloat, TwoFloats>>), eight |-> S(<<OneFloat, Mixed8>>),
   large |-> S(<<Pointer, Large>>), packed |-> S(<<Packed>>), split |-> S(<<Pointer, Pointer, Pointer, Pointer, Pointer, TwoInts>>),
   late |-> S(<<Pointer, Pointer, Pointer, Large, F64, Pointer, IntFloat>>),
   mixed |-> S(<<F64, Pointer, F32, TwoFloats, Pointer>>), variadic |-> [S(<<Pointer, F64, Pointer>>) EXCEPT !.variadic = TRUE]]
ForeignJobs == {<<"foreign", abi, f>> : abi \in Both, f \in DOMAIN MCSignatures}

RuntimeJobs == {<<"runtime", "sysv", f>> :
  f \in {"malloc", "free", "calloc", "realloc", "memcpy", "memmove", "memset", "memcmp", "strcpy", "strcat"}}

StartJobs ==
  {<<"start", "sysv", f, a>> : f \in {"linux"}, a \in BOOLEAN}
  \cup {<<"start", "sysv", f, FALSE>> : f \in {"linux_minimal", "linux_backtrace", "linux_crash"}}
  \cup {<<"start", "win64", f, a>> : f \in {"windows", "windows_minimal"}, a \in BOOLEAN}
  \cup {<<"start", "win64", f, FALSE>> : f \in {"windows_backtrace", "windows_crash"}}

MCJobs == OpJobs \cup BranchJobs \cup IntrinsicJobs \cup StringJobs \cup NumberJobs \cup QuaziJobs \cup ForeignJobs
          \cup RuntimeJobs \cup StartJobs
-----------------------------------------------------------------------------
None == [k \in {} |-> 0]
Start(slots, regs, mem) == [slots |-> slots, regs |-> regs, mem |-> mem]
Slots(vs) == [k \in 0..(Len(vs) - 1) |-> vs[k + 1]]
Plain == {Start(None, None, None)}
Least2 == Num(WordSize \div 2)

OpStarts(f) ==
  CASE f \in Dividing -> {Start(Slots(<<x, y, Num(5)>>), None, None) :
                            x \in {Num(0), Num(7), Num(-7), Least2}, y \in {Num(0), Num(1), Num(-1), Num(7), Least2}}
    [] f \in {"aload1", "aload2", "astore1", "astore2"} ->
         {Start(Slots(<<At("arr", 0), Num(k)>>) @@ (4 :> (IF f = "aload2" THEN At("stack", -8 + Slot(8)) ELSE <<"slot", 4>>)), None, None) : k \in 0..2}
    [] f \in {"load", "loadf", "store", "storef", "get", "getf", "put", "putf", "vtbl"} -> {Start(Slots(<<At("obj", 0)>>), None, None)}
    [] OTHER -> Plain

BranchStarts == {Start(Slots(<<x, y>>), None, None) :
                   x \in {Num(0), Num(1), Num(-1), Least2}, y \in {Num(0), Num(1), Num(-1), Least2}}

Out(n) == At(<<"out1", "out2", "out3">>[n], 0)
IntrinsicStarts(f) ==
  CASE f = "join" -> {Start(Slots(<<h>>), None, None) : h \in {Num(0), At("th", 0)}}
    [] f = "sleep_ms" -> {Start(Slots(<<Num(n)>>), None, None) : n \in {0, 900, 2500}}
    [] f \in {"random", "random_float"} -> {Start(Slots(<<At("buf", 0)>>), None, None)}
    [] f = "hostname" -> {Start(Slots(<<At("buf", 0), Num(n)>>), None, None) : n \in 0..4}
    [] f = "cpuid" -> {Start(Slots(<<At("buf", 0), Num(n)>>), None, None) : n \in {48, 49}}
    [] f = "process_wait" -> {Start(Slots(<<h, Out(1), Out(2), Out(3)>>), None, None) : h \in {Num(0), Child}}
    [] f = "process_try_wait" -> {Start(Slots(<<h, Out(1), Out(2), At("out4", 0), Out(3)>>), None, None) : h \in {Num(0), Child}}
    [] f \in {"process_terminate", "process_close"} -> {Start(Slots(<<h, Out(1)>>), None, None) : h \in {Num(0), Child}}
    [] f = "process_spawn" -> {Start(Slots(<<At("program", 0), At("args", 0), Num(n), Out(1), Out(2)>>), None, <<"envp", 0>> :> e) :
                                 n \in 0..2, e \in {Num(0), At("env", 0)}}
    [] OTHER -> Plain

\* A text in an area, and environments of strings "A=x" and "AB=".
TextMem(area, s) == [k \in {<<area, o>> : o \in 0..Len(s)} |-> IF k[2] = Len(s) THEN Num(0) ELSE Num(s[k[2] + 1])]
Texts3 == {<<>>, <<65>>, <<65, 66>>, <<66>>, <<195, 169>>}
TwoTexts == {Start(Slots(<<At("s", 0), At("t", 0)>>), None, TextMem("s", x) @@ TextMem("t", y)) : x \in Texts3, y \in Texts3}
EnvMem == (<<"env", 0>> :> At("e1", 0)) @@ (<<"env", 8>> :> At("e2", 0)) @@ (<<"env", 16>> :> Num(0)) @@ (<<"envp", 0>> :> At("env", 0))
          @@ TextMem("e1", <<65, 66, 61>>) @@ TextMem("e2", <<65, 61, 120>>)
StringStarts(f) ==
  CASE f \in {"strlen", "concat", "strcmp", "count"} -> TwoTexts
    [] f = "byte_at" -> {Start(Slots(<<At("s", 0), Num(k)>>), None, TextMem("s", <<65, 66>>)) : k \in 0..2}
    [] f = "from_byte" -> {Start(Slots(<<Num(n)>>), None, None) : n \in {0, 65, 321}}
    [] f = "memcpy" -> {Start(Slots(<<At("t", 0), At("s", 0), Num(n)>>), None, TextMem("s", <<65, 66>>)) : n \in 0..3}
    [] f = "getenv" -> {Start(Slots(<<At("s", 0)>>), None, EnvMem @@ TextMem("s", x)) : x \in Texts3}

NumberStarts(kind, n) ==
  {Start(0 :> (CASE kind \in {"float", "float_heap"} -> Flt(n) [] kind = "inf" -> Inf [] kind = "nan" -> NaN [] OTHER -> Num(n)), None, None)}

QuaziStarts(how, n, results) ==
  {Start(IF results = 2 THEN 1 :> At("stack", -8 + Slot(BlockSlot)) ELSE IF how = "through" THEN (FrameSlots - 1) :> <<"code", "f">> ELSE None, None, None)}
ForeignStarts(f) ==
  LET ps == MCSignatures[f].params
  IN {Start([n \in {i \in DOMAIN ps : IsAggregate(ps[i])} |-> At(<<"a1", "a2", "a3", "a4", "a5", "a6", "a7">>[n], 0)], None, None)}

Sizes == {0, 1, 3, WordSize \div 2 - 17, WordSize \div 2 - 16, WordSize - 17}
Regs(rs) == [rdi |-> rs[1], rsi |-> rs[2], rdx |-> rs[3]]
OldMem(n) == (<<"old", 0>> :> Num(n + 16)) @@ (<<"old", 8>> :> Num(n)) @@ [k \in {<<"old", 15 + i>> : i \in 1..n} |-> <<"byte", k[2]>>]
RuntimeStarts(f) ==
  CASE f = "malloc" -> {Start(None, rdi :> Num(n), None) : n \in Sizes, rdi \in {"rdi"}}
    [] f = "free" -> {Start(None, "rdi" :> p, OldMem(2)) : p \in {Num(0), OldBlock}}
    [] f = "calloc" -> {Start(None, Regs(<<Num(x[1]), Num(x[2]), Junk>>), None) :
                          x \in {<<0, 5>>, <<1, 3>>, <<2, 3>>, <<4096, 4096>>, <<2, WordSize \div 4 - 8>>}}
    [] f = "realloc" -> {Start(None, Regs(<<p, Num(n), Junk>>), OldMem(2)) : p \in {Num(0), OldBlock}, n \in {0, 1, 2, 3, WordSize \div 2 - 16}}
    [] f \in {"memcpy", "memset"} -> {Start(None, Regs(<<At("t", 0), IF f = "memset" THEN Num(7) ELSE At("s", 0), Num(n)>>),
                                            TextMem("s", <<65, 66>>)) : n \in 0..3}
    [] f = "memmove" -> {Start(None, Regs(<<At("s", d), At("s", s), Num(n)>>), TextMem("s", <<65, 66, 67, 68, 69>>)) :
                           d \in 0..2, s \in 0..2, n \in 0..3}
    [] f = "memcmp" -> {Start(None, Regs(<<At("s", 0), At("t", 0), Num(n)>>), TextMem("s", x) @@ TextMem("t", y)) :
                          x \in {<<65, 66>>, <<195, 169>>}, y \in {<<65, 66>>, <<65, 67>>, <<66, 65>>}, n \in 0..2}
    [] f \in {"strcpy", "strcat"} -> {Start(None, Regs(<<At("s", 0), At("t", 0), Junk>>), TextMem("s", x) @@ TextMem("t", y)) :
                                        x \in Texts3, y \in Texts3}

\* The initial stack: the number of arguments, their addresses, a zero, the
\* environment, a zero.
StackMem(argc, envs) ==
  LET words == [k \in 1..(argc + Len(envs) + 3) |->
                  IF k = 1 THEN Num(argc) ELSE IF k <= argc + 1 THEN <<"argument", k - 1>>
                  ELSE IF k = argc + 2 THEN Num(0) ELSE IF k <= argc + 2 + Len(envs) THEN At(envs[k - argc - 2], 0) ELSE Num(0)]
  IN [k \in {<<"stack", 8 * (i - 1)>> : i \in DOMAIN words} |-> words[k[2] \div 8 + 1]]
MatchingMem == [k \in {<<"trace", 0>>, <<"trace", 8>>, <<"trace", 12>>} |-> Num(1)]
OtherMem == [k \in {<<"other", 0>>, <<"other", 8>>, <<"other", 12>>} |-> IF k[2] = 8 THEN Num(2) ELSE Num(1)]
FrameMem == (<<"fr1", 0>> :> Num(0)) @@ (<<"fr1", 8>> :> <<"caller">>)
Traces == {<<"trace_enabled", 0>> :> Num(n) : n \in 0..1}
LinuxStarts == {Start(None, None, StackMem(n, e) @@ MatchingMem @@ OtherMem @@ (<<"trace_enabled", 0>> :> Num(0))) :
                  n \in 0..2, e \in {<<>>, <<"other">>, <<"other", "trace">>}}
CrashMem == FrameMem @@ (<<"exc", 0>> :> At("rec", 0)) @@ (<<"exc", 8>> :> At("ctx", 0)) @@ (<<"ctx", 160>> :> At("fr1", 0))
StartStarts(f) ==
  CASE f \in {"linux", "linux_minimal"} -> LinuxStarts
    [] f \in {"windows", "windows_minimal"} -> {Start(None, None, <<"trace_enabled", 0>> :> Num(0))}
    [] f \in {"linux_backtrace", "windows_backtrace"} -> {Start(None, "rbp" :> At("fr1", 0), FrameMem @@ t) : t \in Traces}
    [] f = "linux_crash" -> {Start(None, Regs(<<Num(11), At("info", 0), At("uctx", 0)>>), t) : t \in Traces}
    [] f = "windows_crash" -> {Start(None, "rcx" :> At("exc", 0), CrashMem @@ t) : t \in Traces}

MCStarts(j) ==
  CASE j[1] = "op" -> OpStarts(j[3])            [] j[1] = "branch" -> BranchStarts
    [] j[1] = "intrinsic" -> IntrinsicStarts(j[3])  [] j[1] = "string" -> StringStarts(j[3])
    [] j[1] = "number" -> NumberStarts(j[3], j[4])  [] j[1] = "quazi" -> QuaziStarts(j[3], j[4], j[5])
    [] j[1] = "foreign" -> ForeignStarts(j[3])      [] j[1] = "runtime" -> RuntimeStarts(j[3])
    [] j[1] = "start" -> StartStarts(j[3])

\* What is known to break a convention, by the check, the convention and the routine.
Known(check, abi, names) == {<<check, abi, n>> : n \in names}
MCExcused ==
  Known("calls", "win64", {"windows", "windows_minimal", "windows_backtrace", "windows_crash", "process_try_wait"})
  \cup Known("calls", "sysv", {"linux"}) \cup Known("kept", "sysv", {"cpuid"})
  \cup Known("kept", "win64", {"aload2", "cpuid", "process_terminate", "singles", "doubles", "variadic", "mixed", "late"})
-----------------------------------------------------------------------------
(* Program text with the tree it stands for: an expression is written with  *)
(* parentheses where its level is below what its place asks for, the levels *)
(* being those of docs/language/expressions.md with the bitwise operators   *)
(* between comparisons and shifts (parses_bitwise_precedence).              *)

Spelled(level, words, tree) == [level |-> level, words |-> words, tree |-> tree]
T(kind) == <<kind>>
Ident(name) == <<"id", name, FALSE>>
Capital(name) == <<"id", name, TRUE>>
Digit(n) == <<"int", n>>

Grouped(x) == Spelled(17, <<T("(")>> \o x.words \o <<T(")")>>, <<"group", x.tree>>)
Placed(x, level) == IF x.level >= level THEN x ELSE Grouped(x)
GroupedIf(condition, x) == IF condition THEN Grouped(x) ELSE x

NameOf(name) == Spelled(17, <<Ident(name)>>, <<"name", name>>)
LitOne == Spelled(17, <<Digit(1)>>, <<"literal", Digit(1)>>)
PlainA == NameOf("a")
PlainB == NameOf("b")
Thunk == Spelled(0, <<T("|"), T("|")>> \o PlainA.words, <<"closure", <<>>, PlainA.tree>>)

\* Operators between two operands: the levels, and the tokens.
BinaryLevels ==
  [or |-> 3, and |-> 4, equality |-> 5, comparison |-> 6, bitor |-> 7, xor |-> 8, bitand |-> 9, shift |-> 10, term |-> 11, factor |-> 12, power |-> 13]
SignsOf ==
  [or |-> {<<T("|"), T("|")>>}, and |-> {<<T("&"), T("&")>>}, equality |-> {<<T("==")>>}, comparison |-> {<<T("<")>>, <<T(">=")>>},
   bitor |-> {<<T("|")>>}, xor |-> {<<T("^")>>}, bitand |-> {<<T("&")>>}, shift |-> {<<T(">>")>>}, term |-> {<<T("-")>>},
   factor |-> {<<T("*")>>, <<T("/")>>}, power |-> {<<T("**")>>}]
Infix(level, sign, left, right) ==
  LET l == Placed(left, IF level = "power" THEN 14 ELSE BinaryLevels[level])
      r0 == Placed(right, IF level = "power" THEN 13 ELSE BinaryLevels[level] + 1)
      r == GroupedIf(level = "bitand" /\ Head(r0.words) = T("&"), r0)      \* a & (&b)
  IN Spelled(BinaryLevels[level], l.words \o sign \o r.words,
             <<"binary", IF Len(sign) = 2 THEN level ELSE sign[1][1], l.tree, r.tree>>)
Infixes(x) == UNION {{Infix(l, s, x, PlainB), Infix(l, s, PlainA, x)} : <<l, s>> \in UNION {{l} \X SignsOf[l] : l \in DOMAIN SignsOf}}

\* The "!" of &x! belongs to the innermost "&".
Prefixed(x) ==
  {LET y == Placed(x, 14) IN Spelled(14, <<T(k)>> \o y.words, <<"prefix", k, y.tree>>) : k \in {"!", "-", "++", "*", "&"}}
  \cup {LET y == Placed(x, 16) IN Spelled(14, <<T("&")>> \o y.words \o <<T("!")>>, <<"prefix", "&!", y.tree>>)}

\* Types that are written without their end: another token might go on with them.
I64Type == Spelled(1, <<<<"type", "i64">>>>, <<"prim", "i64">>)
CastTypes ==
  {I64Type, Spelled(1, <<T("&"), Capital("P")>>, <<"ref", <<"named", <<"P">>, <<>>>>>>),
   Spelled(0, <<T("fn"), T("("), T(")")>>, <<"fntype", <<>>, <<"prim", "void">>>>),
   Spelled(1, <<T("fn"), T("("), <<"type", "u8">>, T(")"), <<"type", "i64">>>>, <<"fntype", <<<<"prim", "u8">>>>, <<"prim", "i64">>>>)}
CastsOf(x) ==
  {LET y == Placed(x, 15) IN Spelled(15 * t.level, y.words \o <<T("as")>> \o t.words, <<"cast", y.tree, t.tree>>) : t \in CastTypes}

\* In front of a call an index that reads as a type is taken for a type argument,
\* a field for a method.
IsPath(t) == t[1] = "name" \/ (t[1] = "field" /\ t[2][1] = "name")
ReadsAsType(t) ==
  \/ IsPath(t)
  \/ t[1] = "prefix" /\ t[2] \in {"*", "&", "&!"} /\ IsPath(t[3])
  \/ t[1] = "index" /\ IsPath(t[2]) /\ \A k \in DOMAIN t[3] : IsPath(t[3][k])
  \/ t[1] = "list" /\ Len(t[2]) = 1 /\ IsPath(t[2][1])
Called(x) ==
  LET t == x.tree
      other == t[1] = "field" \/ (t[1] = "index" /\ \A k \in DOMAIN t[3] : ReadsAsType(t[3][k]))
  IN GroupedIf(other, Placed(x, 16))
\* An assignment to a name, as an argument, is a named argument.
InArguments(x) == GroupedIf(Len(x.words) > 1 /\ x.words[1][1] = "id" /\ x.words[2] = T("="), x)

Calls(x) ==
  LET f == Called(x)
      y == InArguments(x)
  IN {Spelled(16, f.words \o <<T("("), Digit(1), T(")")>>, <<"call", f.tree, <<>>, <<LitOne.tree>>, <<>>>>),
      Spelled(16, <<Ident("f"), T("("), Digit(1), T(",")>> \o y.words \o <<T(")")>>, <<"call", <<"name", "f">>, <<>>, <<LitOne.tree, y.tree>>, <<>>>>),
      Spelled(16, <<Ident("f"), T("[")>> \o I64Type.words \o <<T("]"), T("(")>> \o y.words \o <<T(","), Ident("n"), T("="), Digit(1), T(")")>>,
              <<"call", <<"name", "f">>, <<I64Type.tree>>, <<y.tree>>, << <<"n", LitOne.tree>> >>>>),
      Spelled(16, <<Ident("f"), T("("), Ident("n"), T("=")>> \o x.words \o <<T(")")>>, <<"call", <<"name", "f">>, <<>>, <<>>, << <<"n", x.tree>> >>>>)}

Slice(object, first, end, step, omitted) ==
  LET Flag(b) == <<"literal", T(IF b THEN "true" ELSE "false")>>
  IN <<"method", object, "__slice", <<>>, <<first, end, step, Flag(omitted[1]), Flag(omitted[2])>>, <<>>>>
LitZero == <<"literal", Digit(0)>>
Members(x) ==
  LET o == Placed(x, 16)
  IN {Spelled(16, o.words \o <<T("."), Ident("v")>>, <<"field", o.tree, "v">>),
      Spelled(16, o.words \o <<T("."), Ident("m"), T("("), T(")")>>, <<"method", o.tree, "m", <<>>, <<>>, <<>>>>),
      Spelled(16, o.words \o <<T("."), Ident("m"), T("[")>> \o I64Type.words \o <<T("]"), T("("), Digit(1), T(")")>>,
              <<"method", o.tree, "m", <<I64Type.tree>>, <<LitOne.tree>>, <<>>>>),
      Spelled(16, o.words \o <<T("["), Digit(1), T("]")>>, <<"index", o.tree, <<LitOne.tree>>>>),
      Spelled(16, PlainA.words \o <<T("[")>> \o x.words \o <<T("]")>>, <<"index", PlainA.tree, <<x.tree>>>>),
      Spelled(16, PlainA.words \o <<T("["), Digit(1), T(",")>> \o x.words \o <<T("]")>>, <<"index", PlainA.tree, <<LitOne.tree, x.tree>>>>),
      Spelled(16, o.words \o <<T("["), T(":"), T(":"), Digit(1), T("]")>>, Slice(o.tree, LitZero, LitZero, LitOne.tree, <<TRUE, TRUE>>)),
      Spelled(16, PlainA.words \o <<T("[")>> \o x.words \o <<T(":"), Digit(1), T("]")>>,
              Slice(PlainA.tree, x.tree, LitOne.tree, LitOne.tree, <<FALSE, FALSE>>)),
      Spelled(16, PlainA.words \o <<T("["), T(":")>> \o x.words \o <<T(":"), T("]")>>, Slice(PlainA.tree, LitZero, x.tree, LitOne.tree, <<TRUE, FALSE>>))}
  \cup {Spelled(16, o.words \o <<T(k)>>, <<"postfix", o.tree, k>>) : k \in {"++", "?"}}

MatchOn(of, first, guard) ==
  Spelled(17, <<T("match")>> \o of.words \o <<T("{"), Capital("On"), T("("), Ident("y"), T(",")>> \o <<Ident("_"), T(")")>>
                \o (IF guard = <<>> THEN <<>> ELSE <<T("if")>> \o guard[1].words)
                \o <<T("=>")>> \o first.words \o <<T(","), Ident("y"), T("=>"), Digit(1), T("}")>>,
          <<"match", of.tree, << << <<"variant", <<>>, "On", <<<<"bind", "y">>, <<"wildcard">>>>>>,
                                   IF guard = <<>> THEN <<"nothing">> ELSE guard[1].tree, first.tree>>,
                                <<<<"bind", "y">>, <<"nothing">>, LitOne.tree>> >>>>)
Whole(x) ==
  {Spelled(17, <<Capital("P"), T("{"), Ident("v"), T(":")>> \o x.words \o <<T(","), Ident("w"), T(":"), Digit(1), T("}")>>,
           <<"init", "P", << <<"v", x.tree>>, <<"w", LitOne.tree>> >>>>),
   Spelled(17, <<T("[")>> \o x.words \o <<T(","), Digit(1), T(","), T("]")>>, <<"list", <<x.tree, LitOne.tree>>>>),
   Spelled(17, <<T("[")>> \o x.words \o <<T("]")>>, <<"list", <<x.tree>>>>),
   Spelled(0, <<T("|"), Ident("p"), T(","), Ident("q"), T("|")>> \o x.words, <<"closure", <<"p", "q">>, x.tree>>),
   MatchOn(x, LitOne, <<>>), MatchOn(PlainA, x, <<>>), MatchOn(PlainA, LitOne, <<x>>)}

Lowest(x) ==
  LET target == Placed(x, 2)
      value == Placed(x, 1)
      bound == Placed(x, 3)
      Whole64(t) == <<"cast", t, I64Type.tree>>
      RangeOf(l, r, inclusive) ==
        <<"init", "Range", << <<"start", Whole64(l)>>, <<"end", Whole64(r)>>, <<"inclusive", <<"literal", T(inclusive)>>>> >>>>
  IN {Spelled(1, target.words \o <<T("=")>> \o PlainB.words, <<"assign", "=", target.tree, PlainB.tree>>),
      Spelled(1, PlainA.words \o <<T("=")>> \o value.words, <<"assign", "=", PlainA.tree, value.tree>>),
      Spelled(1, PlainA.words \o <<T("+=")>> \o value.words, <<"assign", "+=", PlainA.tree, value.tree>>),
      Spelled(2, bound.words \o <<T("..")>> \o PlainB.words, RangeOf(bound.tree, PlainB.tree, "false")),
      Spelled(2, PlainA.words \o <<T("..=")>> \o bound.words, RangeOf(PlainA.tree, bound.tree, "true"))}

Around(x) == Infixes(x) \cup Prefixed(x) \cup CastsOf(x) \cup Calls(x) \cup Members(x) \cup Whole(x) \cup Lowest(x)
ExprLeaves == {PlainA, LitOne, Thunk, Spelled(17, <<Capital("P"), T("{"), T("}")>>, <<"init", "P", <<>>>>)}

\* Statements around an expression.
Source(rule, words, tree) == [rule |-> rule, words |-> words, tree |-> tree]
Body == <<T("{"), T("break"), T(";"), T("}")>>
BodyTree == <<<<"break">>>>
EndsInName(x) == x.words[Len(x.words)][1] = "id"

\* A condition that begins with a parenthesis ends where that closes.
Condition(x) == IF Head(x.words) = T("(") THEN [Grouped(x) EXCEPT !.tree = x.tree] ELSE x
\* A name in front of {} would be a structure.
BeforeEmpty(x) == GroupedIf(EndsInName(x), x)
\* An inclusive range as what a loop runs over needs its parentheses, though
\* docs/language/statements.md:92 has it without; an exclusive one is a pair.
Looped(x) == Placed(x, 3)

Statements(x) ==
  {Source("stmt", words, tree) : <<words, tree>> \in
    {<<x.words \o <<T(";")>>, <<"do", x.tree>>>>,
     <<<<T("var"), Ident("v"), T("=")>> \o x.words \o <<T(";")>>, <<"var", <<>>, "v", <<"nothing">>, x.tree>>>>,
     <<<<T("@"), Ident("keep"), T("var"), Ident("v"), T(":")>> \o I64Type.words \o <<T("=")>> \o x.words \o <<T(";")>>,
       <<"var", <<<<"keep", <<>>>>>>, "v", I64Type.tree, x.tree>>>>,
     <<<<T("const"), Ident("v"), T("=")>> \o x.words \o <<T(";")>>, <<"const", <<>>, "v", <<"nothing">>, x.tree>>>>,
     <<<<T("ret")>> \o x.words \o <<T(";")>>, <<"ret", x.tree>>>>,
     <<<<T("if")>> \o Condition(x).words \o Body \o <<T("else"), T("if"), T("(")>> \o x.words \o <<T(")"), T("{"), T(";"), T("}")>>
         \o <<T("else")>> \o Body, <<"if", Condition(x).tree, BodyTree, << <<x.tree, <<>>>> >>, BodyTree>>>>,
     <<<<T("for")>> \o x.words \o Body, <<"while", x.tree, BodyTree>>>>,
     <<<<T("for")>> \o BeforeEmpty(x).words \o <<T("{"), T("}")>>, <<"while", BeforeEmpty(x).tree, <<>>>>>>,
     <<<<T("for"), T(";")>> \o x.words \o <<T(";")>> \o x.words \o Body, <<"clauses", <<"nothing">>, x.tree, x.tree, BodyTree>>>>,
     <<<<T("for"), T("var"), Ident("i"), T("=")>> \o x.words \o <<T(";"), T(";")>> \o Body,
       <<"clauses", <<"var", <<>>, "i", <<"nothing">>, x.tree>>, <<"nothing">>, <<"nothing">>, BodyTree>>>>,
     <<<<T("for")>> \o x.words \o <<T(";"), T(";")>> \o Body, <<"clauses", <<"do", x.tree>>, <<"nothing">>, <<"nothing">>, BodyTree>>>>,
     <<<<T("for"), Ident("i"), T(":")>> \o Looped(x).words \o Body, <<"each", <<"i">>, Looped(x).tree, BodyTree>>>>,
     <<<<T("for"), T("var"), Ident("i"), T(","), Ident("j"), T(":")>> \o Looped(x).words \o <<T("..")>> \o x.words \o Body,
       <<"each", <<"i", "j">>, <<"range", Looped(x).tree, x.tree>>, BodyTree>>>>,
     <<<<T("unsafe"), T("{"), T("for"), T("{")>> \o x.words \o <<T(";"), T("}"), T("}")>>, <<"unsafe", <<<<"while", <<"nothing">>, <<<<"do", x.tree>>>>>>>>>>>>,
     <<<<T("@"), Ident("cfg"), T("("), Ident("os"), T("="), <<"str", "linux">>, T(")"), T("{"), T("ret"), T(";")>> \o x.words \o <<T(";"), T("}")>>,
       <<"cfg", <<"cfg", <<<<"key", "os", <<"str", "linux">>>>>>>>, <<<<"ret", <<"nothing">>>>, <<"do", x.tree>>>>>>>>}}

\* Types, with what could follow them: 0, a type (the result of a function);
\* 1, "!" (of a reference); 2, neither.
AroundType(t) ==
  {Spelled(IF t.level = 0 THEN 0 ELSE 1, <<T("&")>> \o t.words, <<"ref", t.tree>>),
   Spelled(t.level, <<T("*")>> \o t.words, <<"ptr", t.tree>>), Spelled(t.level, <<T("**")>> \o t.words, <<"ptr", <<"ptr", t.tree>>>>),
   Spelled(2, <<T("[")>> \o t.words \o <<T("]")>>, <<"slice", t.tree>>),
   Spelled(2, <<T("[")>> \o t.words \o <<T(";"), Digit(3), T("]")>>, <<"array", t.tree, 3>>),
   Spelled(2, <<T("[")>> \o t.words \o <<T(";"), T(".."), T("]")>>, <<"flexible", t.tree>>),
   Spelled(2, <<Ident("m"), T("."), Capital("P"), T("[")>> \o t.words \o <<T(","), <<"type", "u8">>, T("]")>>, <<"named", <<"m", "P">>, <<t.tree, <<"prim", "u8">>>>>>),
   Spelled(0, <<T("fn"), T("(")>> \o t.words \o <<T(","), <<"type", "u8">>, T(")")>>, <<"fntype", <<t.tree, <<"prim", "u8">>>>, <<"prim", "void">>>>)}
  \cup {Spelled(2, <<T("&")>> \o t.words \o <<T("!")>>, <<"mutref", t.tree>>) : u \in {u \in {2} : t.level = u}}
  \cup {Spelled(t.level, <<T("fn"), T("("), T(")")>> \o t.words, <<"fntype", <<>>, t.tree>>) : u \in {u \in {1} : Head(t.words) # T("**")}}
TypeLeaves ==
  {[I64Type EXCEPT !.level = 2], Spelled(2, <<T("!")>>, <<"never">>), Spelled(2, <<Ident("dyn"), Capital("Sum")>>, <<"dyn", "Sum">>),
   Spelled(2, <<Capital("P")>>, <<"named", <<"P">>, <<>>>>)}
FlatTypes == TypeLeaves \cup UNION {AroundType(t) : t \in TypeLeaves}

\* Items around a type; an item of its own for what stands in each place.
NoBody == <<T(";")>>
FnWords(flags, generics, params, t, body) == flags \o <<T("fn"), Ident("f")>> \o generics \o <<T("(")>> \o params \o <<T(")")>> \o t.words \o body
Tagged == <<T("@"), Ident("api"), T("("), Ident("name"), T("="), Ident("c"), Digit(2), T(","), Digit(3), T(")")>>
Tag == <<"api", <<<<"key", "name", <<"id", "c">>>>, <<"value", Digit(2)>>, <<"value", Digit(3)>>>>>>
NoReturn == Spelled(2, <<>>, <<"prim", "void">>)
FnItem(attrs, flags, generics, params, cVariadic, ret, body) == <<<<"fn", attrs, flags, "f", generics, params, cVariadic, ret, body>>>>
ItemsOf(t) ==
  {<<FnWords(<<>>, <<>>, <<Ident("p"), T(":")>> \o t.words, NoReturn, Body), FnItem(<<>>, {}, <<>>, <<<<<<>>, "p", t.tree, FALSE>>>>, FALSE, NoReturn.tree, BodyTree)>>,
   <<FnWords(Tagged \o <<T("pub")>>, <<T("["), Ident("t"), T(","), Ident("u"), T("]")>>, Tagged \o <<Ident("p"), T(":")>> \o t.words \o <<T(","), T("...")>>, t, NoBody),
     FnItem(<<Tag>>, {"pub"}, <<"t", "u">>, <<<<<<Tag>>, "p", t.tree, FALSE>>>>, TRUE, t.tree, <<"nothing">>)>>,
   <<FnWords(<<T("pub"), T("unsafe")>>, <<>>, <<T("..."), Ident("p"), T(":")>> \o t.words, t, Body),
     FnItem(<<>>, {"pub", "unsafe"}, <<>>, <<<<<<>>, "p", t.tree, TRUE>>>>, FALSE, t.tree, BodyTree)>>,
   <<<<T("struct"), Capital("P"), T("["), Ident("t"), T("]"), T("{"), T("const"), Ident("v"), T(":")>> \o t.words \o Tagged \o <<T(":"), Digit(3)>> \o Tagged
       \o <<T(";"), Ident("w"), T(":")>> \o t.words \o <<T("}")>>,
     <<<<"struct", <<>>, FALSE, "P", <<"t">>, <<<<TRUE, "v", t.tree, 3, <<Tag, Tag>>>>, <<FALSE, "w", t.tree, 0, <<>>>>>>>>>>>>,
   <<Tagged \o <<T("pub"), T("union"), Capital("P"), T("{"), T("}"), T("alias"), Ident("t"), T("=")>> \o t.words \o <<T(";")>>,
     <<<<"union", <<Tag>>, TRUE, "P", <<>>, <<>>>>, <<"alias", <<>>, FALSE, "t", <<>>, t.tree>>>>>>,
   <<<<T("trait"), Capital("Q"), T("{"), T("fn"), Ident("m"), T("("), Ident("p"), T(":")>> \o t.words \o <<T(","), Ident("q"), T(":")>> \o t.words \o <<T(")")>> \o t.words
       \o <<T(";"), T("fn"), Ident("n"), T("["), Ident("t"), T("]"), T("("), T(")"), T(";"), T("}")>>,
     <<<<"trait", <<>>, FALSE, "Q", <<>>, <<<<"m", <<>>, <<<<"p", t.tree>>, <<"q", t.tree>>>>, t.tree>>, <<"n", <<"t">>, <<>>, NoReturn.tree>>>>>>>>>>,
   <<<<T("enum"), Capital("E"), T("{"), Capital("On"), T("(")>> \o t.words \o <<T(","), <<"type", "u8">>, T(")"), Capital("Off"), T(","), Capital("No"), T("("), T(")"), T("}")>>,
     <<<<"enum", <<>>, FALSE, "E", <<>>, <<<<"On", <<t.tree, <<"prim", "u8">>>>>>, <<"Off", <<>>>>, <<"No", <<>>>>>>>>>>>>,
   <<<<T("impl"), Capital("Q"), T("for")>> \o t.words \o <<T("{")>> \o Tagged \o FnWords(<<T("unsafe"), T("pub")>>, <<>>, <<>>, t, Body) \o <<T("}")>>,
     <<<<"impl", <<"named", <<"Q">>, <<>>>>, t.tree, FnItem(<<Tag>>, {"pub", "unsafe"}, <<>>, <<>>, FALSE, t.tree, BodyTree)>>>>>>,
   <<<<T("impl")>> \o t.words \o <<T("{"), T("}"), T("pub"), T("var"), Ident("g"), T(":")>> \o t.words \o <<T(";")>>,
     <<<<"impl", <<"nothing">>, t.tree, <<>>>>, <<"global", <<>>, TRUE, "g", t.tree>>>>>>}

AliasOfType(t) ==
  <<<<T("alias"), Ident("t"), T("=")>> \o t.words \o <<T(";")>>, <<<<"alias", <<>>, FALSE, "t", <<>>, t.tree>>>>>>

Imported(relative, pub, path, selector, chosen) ==
  <<pub \o <<T("import")>> \o relative \o path \o selector \o <<T(";")>>,
    <<<<"import", <<>>, pub # <<>>, relative # <<>>, chosen[1], chosen[2]>>>>>>
Imports ==
  {Imported(r, p, <<Ident("a"), T("."), Ident("b")>>, s[1], s[2]) : r \in {<<>>, <<T("."), T("/")>>}, p \in {<<>>, <<T("pub")>>},
     s \in {<<<<>>, <<<<"a">>, <<"single", "b">>>>>>, <<<<T("as"), Ident("c")>>, <<<<"a">>, <<"aliased", "b", "c">>>>>>,
            <<<<T("."), T("*")>>, <<<<"a", "b">>, <<"all">>>>>>, <<<<T("."), T("{"), Ident("x"), T(","), Ident("y"), T("}")>>, <<<<"a", "b">>, <<"multiple", <<"x", "y">>>>>>>>}}

\* An expression, a type or nothing to begin with, and the texts around it.
ParseTasks ==
  {[of |-> "expr", x |-> x] : x \in ExprLeaves \cup Around(PlainA) \cup Around(Thunk)}
  \cup {[of |-> "type", x |-> t] : t \in FlatTypes} \cup {[of |-> "import", x |-> PlainA]}
TextsOf(t) ==
  CASE t.of = "expr" -> Statements(t.x) \cup {Source("stmt", x.words \o <<T(";")>>, <<"do", x.tree>>) : x \in Around(t.x)}
    [] t.of = "type" -> {Source("items", i[1], i[2]) : i \in ItemsOf(t.x) \cup {AliasOfType(u) : u \in AroundType(t.x)}}
    [] t.of = "import" -> {Source("items", i[1], i[2]) : i \in Imports}
-----------------------------------------------------------------------------
AtRest == <<>>
TextInit == job = <<"op", "sysv", "add", 2, 0, 1>> /\ Init /\ task \in ParseTasks /\ answer = AtRest
MachineInit == task = AtRest /\ answer = AtRest /\ Init

\* What is read of a text, and of the text without its last token.
ReadText(rule, ts) == Parse(rule, ts, 1)
Parsed(t) == [text |-> t, whole |-> ReadText(t.rule, t.words), cut |-> ReadText(t.rule, Front(t.words))]
Parsing == task # AtRest /\ answer = AtRest /\ (\E t \in TextsOf(task) : answer' = <<Parsed(t)>>) /\ UNCHANGED <<task, vars>>
HasRead == answer # AtRest /\ UNCHANGED <<task, answer, vars>>
Executing == task = AtRest /\ Next /\ UNCHANGED <<task, answer>>

EndsSpec == (TextInit \/ MachineInit) /\ [][Parsing \/ HasRead \/ Executing]_<<task, answer, vars>>

\* A text is read as the tree it was written for, and to its end; what lacks its
\* last token is refused.
ParsesAsWritten ==
  answer # AtRest =>
    LET a == answer[1] IN a.whole = Produced(a.text.tree, Len(a.text.words) + 1) /\ a.cut.p = 0
=============================================================================
