-------------------------------- MODULE X86 ---------------------------------
(***************************************************************************)
(* The part of an x86-64 processor, of the two calling conventions and of  *)
(* the kernel that hand-written routines of the back end rely on.  Values  *)
(* are symbolic unless the program computes with them: an integer, an      *)
(* address <<"at", area, offset>>, what a register or a word held when the *)
(* routine was entered, or a term over these.  Memory is a set of words of *)
(* 8 bytes; the stack is the area "stack", its offset 0 the word the stack *)
(* pointer pointed to on entry.                                            *)
(***************************************************************************)
EXTENDS Integers, Sequences, FiniteSets, TLC

CONSTANTS WordSize,     \* integers are taken modulo this (2^64 in the machine)
          TopErrors,    \* the integers from WordSize - TopErrors are error codes
          FloatUnit     \* floats are multiples of 1 / FloatUnit

ASSUME WordSizeAssumption == /\ WordSize \in Nat /\ WordSize % 2 = 0
                             /\ TopErrors \in 1..(WordSize \div 2)
                             /\ FloatUnit \in Nat \ {0}

Integer == {"rax", "rbx", "rcx", "rdx", "rsi", "rdi", "rbp", "rsp",
            "r8", "r9", "r10", "r11", "r12", "r13", "r14", "r15"}
Float   == {"xmm0", "xmm1", "xmm2", "xmm3", "xmm4", "xmm5", "xmm6", "xmm7", "xmm15"}
Register == Integer \cup Float

ArgRegs(abi) == IF abi = "win64" THEN <<"rcx", "rdx", "r8", "r9">>
                                 ELSE <<"rdi", "rsi", "rdx", "rcx", "r8", "r9">>

\* What a callee must leave as it found it.
Preserved(abi) == {"rbx", "rbp", "rsp", "r12", "r13", "r14", "r15"}
    \cup (IF abi = "win64" THEN {"rsi", "rdi", "xmm6", "xmm7", "xmm15"} ELSE {})

\* Words above the stack pointer at a call that belong to the callee.
ShadowBytes(abi) == IF abi = "win64" THEN 32 ELSE 0
-----------------------------------------------------------------------------
Junk    == <<"junk">>
Num(n)  == <<"int", n % WordSize>>
Flt(n)  == <<"float", n>>         \* a float of n / FloatUnit
Inf     == <<"inf">>
NaN     == <<"nan">>
At(b,o) == <<"at", b, o>>
Old(x)  == <<"old", x>>

IsNum(v) == v[1] = "int"
IsAt(v)  == v[1] = "at"
IsFlt(v) == v[1] = "float"
Signed(n) == IF n < WordSize \div 2 THEN n ELSE n - WordSize

\* Division towards zero.
Truncated(a, b) == LET q == (IF a < 0 THEN -a ELSE a) \div (IF b < 0 THEN -b ELSE b)
                   IN IF (a < 0) = (b < 0) THEN q ELSE -q

\* Floats: their arithmetic, and what shifts of their bits tell.
FloatValue(op, x, y) ==
  CASE op = "addsd" -> Flt(x[2] + y[2])
    [] op = "subsd" -> Flt(x[2] - y[2])
    [] op = "mulsd" -> Flt((x[2] * y[2]) \div FloatUnit)
    [] OTHER -> <<op, x, y>>
FloatBits(op, x, y) ==
  CASE op = "shr" -> IF IsFlt(x) THEN Num(0) ELSE Num(2047)       \* the exponent
    [] op = "shl" -> IF x = Inf THEN Num(0) ELSE Num(1)           \* the mantissa
    [] op = "and" -> IF IsFlt(x) /\ x[2] < 0 THEN Flt(-x[2]) ELSE x

\* The value of a binary operation; an address moves by an integer.
Value(op, x, y) ==
  CASE x = Junk \/ y = Junk -> Junk
    [] x[1] \in {"float", "inf", "nan"} /\ op \in {"shr", "shl", "and"} -> FloatBits(op, x, y)
    [] IsFlt(x) /\ IsFlt(y) -> FloatValue(op, x, y)
    [] op = "add" /\ IsNum(x) /\ IsNum(y) -> Num(x[2] + y[2])
    [] op = "sub" /\ IsNum(x) /\ IsNum(y) -> Num(x[2] - y[2])
    [] op = "shl" /\ IsNum(x) /\ IsNum(y) -> Num(x[2] * 2^y[2])
    [] op = "shr" /\ IsNum(x) /\ IsNum(y) -> IF y[2] > 30 THEN Num(0) ELSE Num(x[2] \div 2^y[2])
    [] op = "mul" /\ IsNum(x) /\ IsNum(y) -> Num(x[2] * y[2])
    [] op = "and" /\ IsAt(x) /\ IsNum(y) -> At(x[2], x[3] - (x[3] % (WordSize - y[2])))
    [] op = "add" /\ IsAt(x) /\ IsNum(y) -> At(x[2], x[3] + Signed(y[2]))
    [] op = "add" /\ IsNum(x) /\ IsAt(y) -> At(y[2], y[3] + Signed(x[2]))
    [] op = "sub" /\ IsAt(x) /\ IsNum(y) -> At(x[2], x[3] - Signed(y[2]))
    [] op = "xor" /\ x = y -> Num(0)
    [] OTHER -> <<op, x, y>>

\* The value of a unary operation.
Applied(f, x) ==
  CASE x = Junk -> Junk
    [] f = "neg" /\ IsNum(x) -> Num(-x[2])
    [] f = "cvtsi2sd" /\ IsNum(x) -> Flt(x[2] * FloatUnit)
    [] f = "cvttsd2si" /\ IsFlt(x) -> Num(Truncated(x[2], FloatUnit))
    [] f = "byte" /\ IsNum(x) -> Num(x[2] % 256)
    [] f = "bit" /\ IsNum(x) -> Num(x[2] % 2)
    [] f = "top_bits" /\ IsNum(x) -> Num(64 * (x[2] \div 64))
    [] f = "bsr" /\ IsNum(x) -> Num(CHOOSE k \in 0..30 : 2^k <= x[2] /\ x[2] < 2 * 2^k)
    [] OTHER -> <<f, x>>

\* Does signed, or unsigned, addition of y to x overflow?  Unknown values may.
Overflows(op, x, y) ==
  IF op # "add" \/ ~IsNum(x) \/ ~IsNum(y) THEN BOOLEAN
  ELSE {Signed(x[2]) + Signed(y[2]) \notin (-(WordSize \div 2))..(WordSize \div 2 - 1)}
Carries(op, x, y) ==
  IF op # "add" \/ ~IsNum(x) \/ ~IsNum(y) THEN BOOLEAN ELSE {x[2] + y[2] >= WordSize}

\* The outcomes a comparison of x with y may have, by condition code.
Outcomes(cc, x, y) ==
  LET eq == IF IsNum(x) /\ IsNum(y) THEN {x[2] = y[2]}
            ELSE IF IsAt(x) /\ IsAt(y) /\ x[2] = y[2] THEN {x[3] = y[3]}
            ELSE IF (IsAt(x) /\ IsNum(y)) \/ (IsNum(x) /\ IsAt(y)) THEN {FALSE}
            ELSE BOOLEAN
      below == IF IsNum(x) /\ IsNum(y) THEN {x[2] < y[2]}
               ELSE IF IsAt(x) /\ IsNum(y) THEN IF y[2] >= WordSize - TopErrors THEN {TRUE} ELSE {FALSE}
               ELSE IF IsNum(x) /\ IsAt(y) THEN IF x[2] >= WordSize - TopErrors THEN {FALSE} ELSE {TRUE}
               ELSE IF IsAt(x) /\ IsAt(y) /\ x[2] = y[2] THEN {x[3] < y[3]}
               ELSE BOOLEAN
      less == IF IsNum(x) /\ IsNum(y) THEN {Signed(x[2]) < Signed(y[2])}
              ELSE IF IsFlt(x) THEN {x[2] < 0}
              ELSE IF IsAt(x) /\ y = Num(0) THEN {FALSE} ELSE BOOLEAN
      Neg(S) == {~b : b \in S}
      Or(S, T) == {b \/ c : b \in S, c \in T}
  IN CASE cc = "je" -> eq                [] cc = "jne" -> Neg(eq)
       [] cc = "jb" -> below             [] cc = "jae" -> Neg(below)
       [] cc = "jbe" -> Or(below, eq)    [] cc = "ja" -> Neg(Or(below, eq))
       [] cc = "jl" -> less              [] cc = "jge" -> Neg(less)
       [] cc = "jle" -> Or(less, eq)     [] cc = "jg" -> Neg(Or(less, eq))
       [] cc = "js" -> less              [] cc = "jns" -> Neg(less)
-----------------------------------------------------------------------------
(* Instructions.  Their operands are registers, offsets and integers.       *)
Mov(d, s)         == <<"mov", d, s>>
Imm(d, n)         == <<"imm", d, n>>
Zero(d)           == Imm(d, 0)
Sym(d, name)      == <<"sym", d, name>>
Lea(d, b, o)      == <<"lea", d, b, o>>
LeaX(d, b, i, o)  == <<"leax", d, b, i, o>>       \* d := b + 8 * i + o
Ld(d, b, o)       == <<"ld", d, b, o>>
St(b, o, s)       == <<"st", b, o, s>>
StI(b, o, n)      == <<"sti", b, o, n>>
LdX(d, b, i)      == <<"ldx", d, b, i>>           \* d := [b + 8 * i]
StX(b, i, s)      == <<"stx", b, i, s>>           \* [b + 8 * i] := s
Op(f, d, s)       == <<"op", f, d, s>>
OpI(f, d, n)      == <<"opi", f, d, n>>
OpM(f, d, b, o)   == <<"opm", f, d, b, o>>
Fn(f, d, s)       == <<"fn", f, d, s>>            \* d := f(s)
AddI(d, n)        == OpI("add", d, n)
SubI(d, n)        == OpI("sub", d, n)
Cmp(a, b)         == <<"cmp", a, b>>
CmpI(a, n)        == <<"cmpi", a, n>>
Test(a)           == CmpI(a, 0)
CmpM(b, o, n)     == <<"cmpm", b, o, n>>
Const(d, name)    == <<"const", d, name>>         \* an immediate too large to compute with
LdB(d, b, i)      == <<"ldb", d, b, i>>           \* d := the byte at b + i
StB(b, i, s)      == <<"stb", b, i, s>>
CmpR(a, b, o)     == <<"cmpr", a, b, o>>          \* a register with a word of memory
FImm(d, n)        == <<"fimm", d, n>>             \* the bits of a float
Ucomisd(a, b)     == <<"ucomisd", a, b>>
Push(r)           == <<"push", r>>
Pop(r)            == <<"pop", r>>
Jmp(l)            == <<"jmp", l>>
J(cc, l)          == <<"j", cc, l>>
Label(l)          == <<"label", l>>
Call(f)           == <<"call", f>>
CallReg(r)        == <<"callr", r>>
Syscall           == <<"syscall">>
Cpuid             == <<"cpuid">>
Ret               == <<"ret">>
\* A loop or a string instruction taken as one: it reads some registers and
\* leaves values that depend on them in others.
Block(f, reads, writes) == <<"block", f, reads, writes>>

\* Multiplication of rax, and the string instructions, which move rdi (and rsi)
\* by rcx bytes in the direction of a flag.
Mul(s) == <<"mul", s>>
Div(s) == <<"div", s>>                            \* unsigned, by a register
DivM(b, o)  == <<"divm", b, o>>                   \* by a word of memory
IdivM(b, o) == <<"idivm", b, o>>                  \* signed
Movs   == <<"movs">>
Stos   == <<"stos">>
Cld    == <<"cld">>
Std    == <<"std">>

PushAll(rs) == [i \in 1..Len(rs) |-> Push(rs[i])]
PopAll(rs)  == [i \in 1..Len(rs) |-> Pop(rs[Len(rs) + 1 - i])]
-----------------------------------------------------------------------------
(* A machine is a record of registers, memory, the outcome of the last      *)
(* comparison, and everything it has done that others can see.              *)
Compare(x, y) == [rel |-> "word", x |-> x, y |-> y, over |-> FALSE, carry |-> FALSE]

Address(m, b, o)     == Value("add", m.reg[b], Num(o))
Indexed(m, b, i, o)  == Value("add", Value("add", m.reg[b], Value("shl", m.reg[i], Num(3))), Num(o))

\* Below the stack pointer nothing is kept; elsewhere unwritten words are as
\* they were on entry.
Read(m, a) ==
  IF ~IsAt(a) THEN IF a = Junk THEN Junk ELSE <<"deref", a>>
  ELSE IF <<a[2], a[3]>> \in DOMAIN m.mem THEN m.mem[<<a[2], a[3]>>]
  ELSE IF a[2] = "stack" /\ a[3] < 0 THEN Junk
  ELSE <<"word", a[2], a[3]>>

Write(m, a, v) ==
  IF IsAt(a) THEN [m EXCEPT !.mem = (<<a[2], a[3]>> :> v) @@ @]
             ELSE [m EXCEPT !.out = Append(@, <<"store", <<a, v>>, Junk>>)]

Set(m, r, v) == [m EXCEPT !.reg[r] = v]

Step(m) == IF m.down THEN -1 ELSE 1

\* rep movsb: where the areas overlap ahead, bytes just written are read again.
Moved(m) ==
  LET s == m.reg["rsi"]  d == m.reg["rdi"]  n == m.reg["rcx"]
      gap == Step(m) * (d[3] - s[3])
      From(k) == IF s[2] = d[2] /\ gap > 0 THEN k % gap ELSE k
  IN IF IsAt(s) /\ IsAt(d) /\ IsNum(n)
     THEN [m EXCEPT !.mem = [a \in {<<d[2], d[3] + Step(m) * k>> : k \in 0..(n[2] - 1)} |->
                               Read(m, At(s[2], s[3] + Step(m) * From(Step(m) * (a[2] - d[3]))))] @@ @,
                    !.reg = [@ EXCEPT !["rcx"] = Num(0), !["rsi"] = At(s[2], s[3] + Step(m) * n[2]),
                                      !["rdi"] = At(d[2], d[3] + Step(m) * n[2])]]
     ELSE [m EXCEPT !.out = Append(@, <<"movs", <<d, s, n>>, Junk>>),
                    !.reg = [@ EXCEPT !["rcx"] = Num(0), !["rsi"] = <<"add", s, n>>, !["rdi"] = <<"add", d, n>>]]

Filled(m) ==
  LET d == m.reg["rdi"]  n == m.reg["rcx"]
  IN IF IsAt(d) /\ IsNum(n)
     THEN [m EXCEPT !.mem = [a \in {<<d[2], d[3] + Step(m) * k>> : k \in 0..(n[2] - 1)} |-> m.reg["rax"]] @@ @,
                    !.reg = [@ EXCEPT !["rcx"] = Num(0), !["rdi"] = At(d[2], d[3] + Step(m) * n[2])]]
     ELSE [m EXCEPT !.out = Append(@, <<"stos", <<d, m.reg["rax"], n>>, Junk>>),
                    !.reg = [@ EXCEPT !["rcx"] = Num(0), !["rdi"] = <<"add", d, n>>]]

\* The product of rax and another register, as low and high words.
Product(m, s) ==
  LET x == m.reg["rax"]  y == m.reg[s]
      low == IF IsNum(x) /\ IsNum(y) THEN Num(x[2] * y[2]) ELSE <<"mul", x, y>>
      high == IF IsNum(x) /\ IsNum(y) THEN Num((x[2] * y[2]) \div WordSize) ELSE <<"mulh", x, y>>
  IN [m EXCEPT !.reg = [@ EXCEPT !["rax"] = low, !["rdx"] = high]]

\* A division by zero, or one whose quotient does not fit, faults.
Fault == <<"fault", <<>>, Junk>>

Divided(m, y, signed) ==
  LET x == m.reg["rax"]
      a == IF signed THEN Signed(x[2]) ELSE x[2]
      b == IF signed THEN Signed(y[2]) ELSE y[2]
      q == Truncated(a, b)
  IN IF ~IsNum(x) \/ ~IsNum(y)
     THEN [m EXCEPT !.reg = [@ EXCEPT !["rax"] = <<"div", x, y>>, !["rdx"] = <<"mod", x, y>>]]
     ELSE IF b = 0 \/ (signed /\ q = WordSize \div 2) THEN [m EXCEPT !.out = Append(@, Fault)]
     ELSE [m EXCEPT !.reg = [@ EXCEPT !["rax"] = Num(q), !["rdx"] = Num(a - b * q)]]

\* Registers an instruction needs, and the word it loads, if any.
Uses(i) ==
  CASE i[1] \in {"mov", "fn"} -> {i[Len(i)]}
    [] i[1] \in {"lea", "ld"} -> {i[3]}
    [] i[1] \in {"leax", "ldx", "ldb"} -> {i[3], i[4]}
    [] i[1] = "st" -> {i[2], i[4]}
    [] i[1] \in {"stx", "stb"} -> {i[2], i[3], i[4]}
    [] i[1] = "op" -> IF i[2] = "xor" /\ i[3] = i[4] THEN {} ELSE {i[3], i[4]}
    [] i[1] = "opi" -> {i[3]}
    [] i[1] = "opm" -> {i[3], i[4]}
    [] i[1] \in {"cmp", "ucomisd", "cmpr"} -> {i[2], i[3]}
    [] i[1] \in {"cmpi", "cmpm", "sti", "callr"} -> {i[2]}
    [] i[1] \in {"divm", "idivm"} -> {"rax", i[2]}
    [] i[1] \in {"mul", "div"} -> {"rax", i[2]}
    [] i[1] = "movs" -> {"rsi", "rdi", "rcx"}
    [] i[1] = "stos" -> {"rax", "rdi", "rcx"}
    [] i[1] = "block" -> {i[3][k] : k \in 1..Len(i[3])}
    [] OTHER -> {}

Loads(m, i) ==
  CASE i[1] = "ld" -> {Address(m, i[3], i[4])}
    [] i[1] = "ldx" -> {Indexed(m, i[3], i[4], 0)}
    [] i[1] = "ldb" -> {Value("add", m.reg[i[3]], m.reg[i[4]])}
    [] i[1] = "opm" -> {Address(m, i[4], i[5])}
    [] i[1] = "cmpr" -> {Address(m, i[3], i[4])}
    [] i[1] \in {"cmpm", "divm", "idivm"} -> {Address(m, i[2], i[3])}
    [] OTHER -> {}

\* An arithmetic result leaves its comparison with zero and its overflow.
Arith(m, f, d, x, y) ==
  {[Set(m, d, Value(f, x, y)) EXCEPT !.flag = [Compare(Value(f, x, y), Num(0)) EXCEPT !.over = o, !.carry = c]] :
     o \in IF f = "add" THEN Overflows(f, x, y) ELSE {FALSE}, c \in IF f = "add" THEN Carries(f, x, y) ELSE {FALSE}}

\* What executing a computing instruction makes of the machine.
Computed(m, i) ==
  CASE i[1] = "mov"  -> {Set(m, i[2], m.reg[i[3]])}
    [] i[1] = "imm"  -> {Set(m, i[2], Num(i[3]))}
    [] i[1] = "sym"  -> {Set(m, i[2], At(i[3], 0))}
    [] i[1] = "lea"  -> {Set(m, i[2], Address(m, i[3], i[4]))}
    [] i[1] = "leax" -> {Set(m, i[2], Indexed(m, i[3], i[4], i[5]))}
    [] i[1] = "ld"   -> {Set(m, i[2], Read(m, Address(m, i[3], i[4])))}
    [] i[1] = "ldx"  -> {Set(m, i[2], Read(m, Indexed(m, i[3], i[4], 0)))}
    [] i[1] = "st"   -> {Write(m, Address(m, i[2], i[3]), m.reg[i[4]])}
    [] i[1] = "sti"  -> {Write(m, Address(m, i[2], i[3]), Num(i[4]))}
    [] i[1] = "stx"  -> {Write(m, Indexed(m, i[2], i[3], 0), m.reg[i[4]])}
    [] i[1] = "op"   -> Arith(m, i[2], i[3], m.reg[i[3]], m.reg[i[4]])
    [] i[1] = "opi"  -> Arith(m, i[2], i[3], m.reg[i[3]], Num(i[4]))
    [] i[1] = "opm"  -> Arith(m, i[2], i[3], m.reg[i[3]], Read(m, Address(m, i[4], i[5])))
    [] i[1] = "fn"   -> {Set(m, i[3], Applied(i[2], m.reg[i[4]]))}
    [] i[1] = "const" -> {Set(m, i[2], <<"const", i[3]>>)}
    [] i[1] = "ldb"  -> {Set(m, i[2], Read(m, Value("add", m.reg[i[3]], m.reg[i[4]])))}
    [] i[1] = "stb"  -> {Write(m, Value("add", m.reg[i[2]], m.reg[i[3]]), m.reg[i[4]])}
    [] i[1] = "cmp"  -> {[m EXCEPT !.flag = Compare(m.reg[i[2]], m.reg[i[3]])]}
    [] i[1] = "fimm" -> {Set(m, i[2], Flt(i[3]))}
    [] i[1] = "cmpr" -> {[m EXCEPT !.flag = Compare(m.reg[i[2]], Read(m, Address(m, i[3], i[4])))]}
    [] i[1] = "cmpi" -> {[m EXCEPT !.flag = Compare(m.reg[i[2]], Num(i[3]))]}
    [] i[1] = "cmpm" -> {[m EXCEPT !.flag = Compare(Read(m, Address(m, i[2], i[3])), Num(i[4]))]}
    [] i[1] = "ucomisd" -> {[m EXCEPT !.flag = [Compare(m.reg[i[2]], m.reg[i[3]]) EXCEPT !.rel = r]] :
                              r \in {"less", "equal", "greater", "unordered"}}
    [] i[1] = "push" -> LET sp == Value("sub", m.reg["rsp"], Num(8))
                        IN {Set(Write(m, sp, m.reg[i[2]]), "rsp", sp)}
    [] i[1] = "pop"  -> {[m EXCEPT !.reg = [@ EXCEPT ![i[2]] = Read(m, m.reg["rsp"]),
                                                     !["rsp"] = Value("add", @, Num(8))]]}
    [] i[1] = "mul"  -> {Product(m, i[2])}
    [] i[1] = "div"  -> {Divided(m, m.reg[i[2]], FALSE)}
    [] i[1] \in {"divm", "idivm"} -> {Divided(m, Read(m, Address(m, i[2], i[3])), i[1] = "idivm")}
    [] i[1] = "movs" -> {Moved(m)}
    [] i[1] = "stos" -> {Filled(m)}
    [] i[1] = "cld"  -> {[m EXCEPT !.down = FALSE]}
    [] i[1] = "std"  -> {[m EXCEPT !.down = TRUE]}
    [] i[1] = "cpuid" -> {[m EXCEPT !.reg = [r \in Register |->
                              IF r \in {"rax", "rbx", "rcx", "rdx"} THEN <<"cpuid", Old(r)>> ELSE @[r]]]}
    [] i[1] = "block" -> LET in == [k \in 1..Len(i[3]) |-> m.reg[i[3][k]]]
                         IN {[m EXCEPT !.reg = [r \in Register |->
                                IF \E k \in 1..Len(i[4]) : i[4][k] = r THEN <<i[2], Old(r), in>> ELSE @[r]],
                                       !.out = Append(@, <<i[2], in, Junk>>)]}
    [] i[1] = "label" -> {m}

Computing == {"mov", "imm", "sym", "lea", "leax", "ld", "ldx", "st", "sti", "stx", "op", "opi", "opm",
              "fn", "const", "ldb", "stb", "fimm", "cmp", "cmpr", "cmpi", "cmpm", "ucomisd", "push", "pop", "mul", "div", "divm", "idivm", "movs", "stos", "cld", "std", "cpuid", "block", "label"}

\* The index of a label in a piece of code.
Target(code, l) == CHOOSE k \in 1..Len(code) : code[k] = Label(l)
\* After ucomisd the flags of an unordered pair are those of both less and equal.
FloatTaken(rel, cc) ==
  CASE cc = "jp" -> rel = "unordered"                     [] cc = "ja" -> rel = "greater"
    [] cc = "je" -> rel \in {"equal", "unordered"}        [] cc = "jne" -> rel \notin {"equal", "unordered"}
    [] cc = "jb" -> rel \in {"less", "unordered"}         [] cc = "jae" -> rel \notin {"less", "unordered"}
    [] cc = "jbe" -> rel # "greater"

Taken(m, cc) == CASE cc = "jo" -> {m.flag.over}
                  [] cc = "jc" -> {m.flag.carry}
                  [] m.flag.rel # "word" -> {FloatTaken(m.flag.rel, cc)}
                  [] OTHER -> Outcomes(cc, m.flag.x, m.flag.y)

\* Address of the stack pointer, relative to entry.
Sp(m) == m.reg["rsp"][3]

\* A call may change every register it need not preserve, whatever lies below
\* the stack pointer, and the words the convention gives to the callee.
Clobber(m, abi) ==
  [m EXCEPT !.reg = [r \in Register |-> IF r \in Preserved(abi) THEN @[r] ELSE Junk],
            !.mem = [k \in {k \in DOMAIN @ : k[1] = "stack" => k[2] >= Sp(m) + ShadowBytes(abi)} |-> @[k]]]

\* The i-th argument of a call of n arguments.
Argument(m, abi, i) ==
  IF i <= Len(ArgRegs(abi)) THEN m.reg[ArgRegs(abi)[i]]
  ELSE Read(m, Address(m, "rsp", ShadowBytes(abi) + 8 * (i - Len(ArgRegs(abi)) - 1)))
SyscallArgs == <<"rdi", "rsi", "rdx", "r10", "r8", "r9">>
=============================================================================
