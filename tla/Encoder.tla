------------------------------ MODULE Encoder -------------------------------
(***************************************************************************)
(* The machine code of calls and opcodes (encoder.rs, sysv_abi.rs and      *)
(* abi.rs).                                                                *)
(* Calls: how functions are entered, called and left, between functions of *)
(* Quazi, from them to functions of C and from C to those exported, in     *)
(* both conventions.  Register n of a function is the word at              *)
(* rbp - 8 (n + 1).  A type is a record of its kind, size and alignment;   *)
(* an aggregate also has fields with offsets, and a value of it is an      *)
(* address.                                                                *)
(***************************************************************************)
EXTENDS X86, SequencesExt, FiniteSetsExt

Slot(r) == -8 * (r + 1)
Get(d, r) == Ld(d, "rbp", Slot(r))
Put(r, s) == St("rbp", Slot(r), s)

RoundTo(n, k) == ((n + k - 1) \div k) * k
AtLeast(n, k) == IF n > k THEN n ELSE k
Each(s, Code(_, _)) == FlattenSeq([i \in 1..Len(s) |-> Code(i, s[i])])
FloatArgs(abi) == IF abi = "win64" THEN <<"xmm0", "xmm1", "xmm2", "xmm3">>
                  ELSE <<"xmm0", "xmm1", "xmm2", "xmm3", "xmm4", "xmm5", "xmm6", "xmm7">>

Void       == [kind |-> "void", size |-> 0, align |-> 1]
IntType(n) == [kind |-> "int", size |-> n, align |-> n]
Pointer    == [kind |-> "int", size |-> 8, align |-> 8]
F32        == [kind |-> "f32", size |-> 4, align |-> 4]
F64        == [kind |-> "f64", size |-> 8, align |-> 8]
Aggregate(n, fields) == [kind |-> "agg", size |-> n, align |-> 8, fields |-> fields]
Field(offset, ty)    == [offset |-> offset, ty |-> ty]
IsAggregate(ty) == ty.kind = "agg"
-----------------------------------------------------------------------------
(* System V.  A value goes in memory, or each of its words has a class.     *)
Misplaced(ty, f) == \/ f.ty.size = 0
                    \/ f.offset % f.ty.align # 0
                    \/ f.offset + f.ty.size > ty.size

InMemory(ty) == IsAggregate(ty) /\ \/ ty.size = 0 \/ ty.size > 16
                                   \/ \E i \in DOMAIN ty.fields : Misplaced(ty, ty.fields[i])

\* A word is "sse" if only floating-point fields lie in it; padding is "int".
WordClass(ty, w) ==
  LET here == {i \in DOMAIN ty.fields : ty.fields[i].offset \div 8 = w}
  IN IF here # {} /\ \A i \in here : ty.fields[i].ty.kind \in {"f32", "f64"} THEN "sse" ELSE "int"

Classes(ty) ==
  CASE ty.kind = "void" -> <<>>
    [] ty.kind = "int" -> <<"int">>
    [] ty.kind \in {"f32", "f64"} -> <<"sse">>
    [] IsAggregate(ty) -> [w \in 1..(RoundTo(ty.size, 8) \div 8) |-> WordClass(ty, w - 1)]

Count(cs, c) == Cardinality({i \in DOMAIN cs : cs[i] = c})

\* Which register of its kind word k of a value takes, counted from 1.
Nth(cs, k) == Count(SubSeq(cs, 1, k), cs[k])
PieceSize(ty, k) == IF ty.size - 8 * (k - 1) < 8 THEN ty.size - 8 * (k - 1) ELSE 8

\* One parameter after another takes registers if all its words find one, and
\* the next words of the stack if not.
Place(plan, ty) ==
  LET cs == Classes(ty)
      gp == plan.gp + Count(cs, "int")
      sse == plan.sse + Count(cs, "sse")
  IN IF InMemory(ty) \/ gp > 6 \/ sse > 8
     THEN [plan EXCEPT !.args = Append(@, [at |-> "stack", offset |-> plan.stack]),
                       !.stack = @ + RoundTo(ty.size, 8)]
     ELSE [gp |-> gp, sse |-> sse, stack |-> plan.stack,
           args |-> Append(plan.args,
                      [at |-> "regs", pieces |-> [k \in DOMAIN cs |->
                         IF cs[k] = "int" THEN ArgRegs("sysv")[plan.gp + Nth(cs, k)]
                                          ELSE FloatArgs("sysv")[plan.sse + Nth(cs, k)]]])]

Plan(sig) ==
  LET p == FoldLeft(LAMBDA plan, ty : Place(plan, ty),
                    [gp |-> IF InMemory(sig.ret) THEN 1 ELSE 0, sse |-> 0, stack |-> 0, args |-> <<>>], sig.params)
  IN [p EXCEPT !.stack = RoundTo(@, 16)]

(* Windows.  A value of 1, 2, 4 or 8 bytes is passed itself, others by address. *)
Indirect(ty) == IsAggregate(ty) /\ ty.size \notin {1, 2, 4, 8}
ReturnsInMemory(abi, ty) == IF abi = "win64" THEN Indirect(ty) ELSE InMemory(ty)
-----------------------------------------------------------------------------
\* Words, then what is left of 8 bytes in pieces of 4, 2 and 1.
CopyUnits(n) ==
  LET words == [k \in 1..(n \div 8) |-> 8 * (k - 1)]
      rest == n % 8
      four == IF rest >= 4 THEN <<8 * (n \div 8)>> ELSE <<>>
      two  == IF rest % 4 >= 2 THEN <<8 * (n \div 8) + 4 * (rest \div 4)>> ELSE <<>>
      one  == IF rest % 2 = 1 THEN <<n - 1>> ELSE <<>>
  IN words \o four \o two \o one

CopyMem(d, dd, s, sd, n) ==
  Each(CopyUnits(n), LAMBDA i, o : <<Ld("rax", s, sd + o), St(d, dd + o, "rax")>>)

\* Below the slots: copies of aggregate parameters, where to return an
\* aggregate, where a callee returns one, and on Windows room for arguments.
Frame(abi, slots, export, foreign) ==
  LET aggregates == SelectSeq([i \in DOMAIN export.params |-> i], LAMBDA i : IsAggregate(export.params[i]))
      Below(k) == 8 * slots + FoldLeft(LAMBDA n, i : n + AtLeast(RoundTo(export.params[i].size, 8), 8),
                                       0, SubSeq(aggregates, 1, k))
      copies == Below(Len(aggregates))
      sret == IF ReturnsInMemory(abi, export.ret) THEN 8 ELSE 0
      result == IF IsAggregate(foreign) THEN 8 ELSE 0
  IN [copy   |-> [i \in DOMAIN export.params |->
                    -Below(Cardinality({k \in DOMAIN aggregates : aggregates[k] <= i}))],
      sret   |-> -(copies + sret),
      result |-> -(copies + sret + result),
      size   |-> RoundTo(copies + sret + result + (IF abi = "win64" THEN 48 ELSE 0), 16)]

Enter(frame) == <<Push("rbp"), Mov("rbp", "rsp")>> \o (IF frame > 0 THEN <<SubI("rsp", frame)>> ELSE <<>>)
\* Mutant: in the other order.
LeaveSwapped == <<Pop("rbp"), Mov("rsp", "rbp"), Ret>>
Leave == <<Mov("rsp", "rbp"), Pop("rbp"), Ret>>
-----------------------------------------------------------------------------
(* Between Quazi functions every argument is one word.                      *)
\* Mutant: the frame pointer saved in between is forgotten.
AboveReturn(abi) == 8 + ShadowBytes(abi)
AboveFrame(abi) == 16 + ShadowBytes(abi)
QuaziParams(abi, n) ==
  LET regs == ArgRegs(abi)  above == AboveFrame(abi)
  IN FlattenSeq([i \in 1..n |->
       IF i <= Len(regs) THEN <<Put(i - 1, regs[i])>>
       ELSE <<Ld("rax", "rbp", above + 8 * (i - 1 - Len(regs))), Put(i - 1, "rax")>>])

\* Mutant: the words on the stack are not rounded up to 16 bytes.
CallAreaOdd(abi, n) ==
  LET extra == AtLeast(n - Len(ArgRegs(abi)), 0)
  IN IF abi = "win64" THEN 32 + 8 * extra ELSE 8 * extra

CallArea(abi, n) ==
  LET extra == AtLeast(n - Len(ArgRegs(abi)), 0)
  IN IF abi = "win64" THEN AtLeast(RoundTo(32 + 8 * extra, 16), 32) ELSE RoundTo(8 * extra, 16)

QuaziArgs(abi, args) ==
  LET regs == ArgRegs(abi)  n == Len(args)
  IN FlattenSeq([i \in 1..n |-> IF i <= Len(regs) THEN <<>>
                   ELSE <<Get("rax", args[i]), St("rsp", ShadowBytes(abi) + 8 * (i - 1 - Len(regs)), "rax")>>])
     \o FlattenSeq([i \in 1..n |-> IF i <= Len(regs) THEN <<Get(regs[i], args[i])>> ELSE <<>>])

\* Results of several words are written by the callee, so rax is not stored.
QuaziCall(abi, dst, callee, args, resultSlots) ==
  LET area == CallArea(abi, Len(args))
  IN (IF area > 0 THEN <<SubI("rsp", area)>> ELSE <<>>) \o QuaziArgs(abi, args) \o callee
     \o (IF area > 0 THEN <<AddI("rsp", area)>> ELSE <<>>)
     \o (IF resultSlots <= 1 THEN <<Put(dst, "rax")>> ELSE <<>>)

CallIdx(abi, dst, f, args, resultSlots) == QuaziCall(abi, dst, <<Call(f)>>, args, resultSlots)
CallThrough(abi, dst, f, args, resultSlots) ==
  QuaziCall(abi, dst, <<Get("rax", f), CallReg("rax")>>, args, resultSlots)

\* A result of several words goes, from the slots after the first, to the words
\* down from the address in slot s.
QuaziReturn(s, resultSlots) ==
  (IF resultSlots <= 1 THEN <<Get("rax", s)>>
   ELSE <<Get("r10", s)>> \o FlattenSeq([o \in 1..resultSlots |-> <<Get("rax", o), St("r10", -8 * (o - 1), "rax")>>]))
  \o Leave
-----------------------------------------------------------------------------
(* Calls of C functions.  Whatever returns an aggregate gets a new block.   *)
ResultBlock(abi, ret, frame) ==
  IF IsAggregate(ret)
  THEN <<Imm(ArgRegs(abi)[1], AtLeast(RoundTo(ret.size, 8), 8)), Call("malloc"), St("rbp", frame.result, "rax")>>
  ELSE <<>>

SysvStackArg(ty, loc, r) ==
  CASE IsAggregate(ty) -> <<Get("r10", r)>> \o CopyMem("rsp", loc.offset, "r10", 0, ty.size)
    [] ty.kind = "f32" -> <<Get("xmm15", r), Fn("cvtsd2ss", "xmm15", "xmm15"), St("rsp", loc.offset, "xmm15")>>
    [] OTHER -> <<Get("rax", r), St("rsp", loc.offset, "rax")>>

IsFloatReg(reg) == reg \in Float
SysvRegisterArg(ty, loc, r) ==
  CASE IsAggregate(ty) -> <<Get("r10", r)>> \o Each(loc.pieces, LAMBDA k, reg :
                            IF IsFloatReg(reg) THEN <<Ld(reg, "r10", 8 * (k - 1))>>
                            ELSE <<Ld("rax", "r10", 8 * (k - 1)), Mov(reg, "rax")>>)
    [] ty.kind = "f32" -> <<Get("xmm15", r), Fn("cvtsd2ss", loc.pieces[1], "xmm15")>>
    [] OTHER -> <<Get(loc.pieces[1], r)>>

SysvArgs(sig, plan, args) ==
  Each(sig.params, LAMBDA i, ty : IF plan.args[i].at = "stack" THEN SysvStackArg(ty, plan.args[i], args[i]) ELSE <<>>)
  \o Each(sig.params, LAMBDA i, ty : IF plan.args[i].at = "regs" THEN SysvRegisterArg(ty, plan.args[i], args[i]) ELSE <<>>)

\* What a C function leaves in rax and xmm0 becomes the word of slot dst.
ScalarResult(ret, dst) ==
  CASE ret.kind = "void" -> <<Zero("rax"), Put(dst, "rax")>>
    [] ret.kind = "int" -> (IF ret.size < 8 THEN <<Fn("extend", "rax", "rax")>> ELSE <<>>) \o <<Put(dst, "rax")>>
    [] ret.kind = "f64" -> <<Put(dst, "xmm0")>>
    [] ret.kind = "f32" -> <<Fn("cvtss2sd", "xmm15", "xmm0"), Put(dst, "xmm15")>>

\* Words of a result from the last to the first; rax is kept in r11 meanwhile.
SysvResult(ret, dst, frame) ==
  LET cs == Classes(ret)
      Word(k) == IF cs[k] = "int" THEN <<Mov("rax", <<"r11", "rdx">>[Nth(cs, k)]), St("r10", 8 * (k - 1), "rax")>>
                 ELSE <<St("r10", 8 * (k - 1), <<"xmm0", "xmm1">>[Nth(cs, k)])>>
  IN IF ~IsAggregate(ret) THEN ScalarResult(ret, dst)
     ELSE IF InMemory(ret) THEN <<Ld("rax", "rbp", frame.result), Put(dst, "rax")>>
     ELSE <<Ld("r10", "rbp", frame.result), Mov("r11", "rax")>>
          \o FlattenSeq([k \in 1..Len(cs) |-> Word(Len(cs) + 1 - k)]) \o <<Put(dst, "r10")>>

SysvForeignCall(dst, sig, callee, args, frame) ==
  LET plan == Plan(sig)
  IN ResultBlock("sysv", sig.ret, frame)
     \o (IF plan.stack > 0 THEN <<SubI("rsp", plan.stack)>> ELSE <<>>) \o SysvArgs(sig, plan, args)
     \o (IF InMemory(sig.ret) THEN <<Ld("rdi", "rbp", frame.result)>> ELSE <<>>)
     \o (IF sig.variadic THEN <<Imm("rax", plan.sse)>> ELSE <<>>) \o callee
     \o (IF plan.stack > 0 THEN <<AddI("rsp", plan.stack)>> ELSE <<>>) \o SysvResult(sig.ret, dst, frame)

\* Copies of indirect arguments lie above the words of the stack arguments.
WindowsTemps(sig) ==
  LET first == RoundTo(32 + 8 * AtLeast(Len(sig.params) + (IF Indirect(sig.ret) THEN 1 ELSE 0) - 4, 0), 16)
      Upto(k) == FoldLeft(LAMBDA n, ty : n + (IF Indirect(ty) THEN AtLeast(RoundTo(ty.size, 16), 16) ELSE 0),
                          first, SubSeq(sig.params, 1, k))
  IN [at |-> [i \in DOMAIN sig.params |-> Upto(i - 1)], size |-> AtLeast(RoundTo(Upto(Len(sig.params)), 16), 32)]

WindowsArg(ty, pos, temp, r, variadic) ==
  LET inReg == pos <= 4
      stack == 32 + 8 * AtLeast(pos - 5, 0)
      Give == IF inReg THEN <<Mov(ArgRegs("win64")[pos], "rax")>> ELSE <<St("rsp", stack, "rax")>>
      Copy == IF variadic THEN <<Mov("rax", "xmm15"), Mov(ArgRegs("win64")[pos], "rax")>> ELSE <<>>
      GiveFloat == IF inReg THEN <<Mov(FloatArgs("win64")[pos], "xmm15")>> \o Copy ELSE <<St("rsp", stack, "xmm15")>>
  IN CASE Indirect(ty) -> <<Get("r10", r)>> \o CopyMem("rsp", temp, "r10", 0, ty.size) \o <<Lea("rax", "rsp", temp)>> \o Give
       [] IsAggregate(ty) /\ ~Indirect(ty) -> <<Get("r10", r), Ld("rax", "r10", 0)>> \o Give
       [] ty.kind = "f64" -> <<Get("xmm15", r)>> \o GiveFloat
       [] ty.kind = "f32" -> <<Get("xmm15", r), Fn("cvtsd2ss", "xmm15", "xmm15")>> \o GiveFloat
       [] OTHER -> <<Get("rax", r)>> \o Give

WindowsForeignCall(dst, sig, callee, args, frame) ==
  LET temps == WindowsTemps(sig)
      first == IF Indirect(sig.ret) THEN 1 ELSE 0
      Result == IF ~IsAggregate(sig.ret) THEN ScalarResult(sig.ret, dst)
                ELSE IF Indirect(sig.ret) THEN <<Ld("rax", "rbp", frame.result), Put(dst, "rax")>>
                ELSE <<Ld("r10", "rbp", frame.result), St("r10", 0, "rax"), Put(dst, "r10")>>
  IN ResultBlock("win64", sig.ret, frame) \o <<SubI("rsp", temps.size)>>
     \o Each(sig.params, LAMBDA i, ty : WindowsArg(ty, first + i, temps.at[i], args[i], sig.variadic))
     \o (IF first = 1 THEN <<Ld("rcx", "rbp", frame.result)>> ELSE <<>>) \o callee
     \o <<AddI("rsp", temps.size)>> \o Result
-----------------------------------------------------------------------------
(* Functions exported to C: parameters become slots on entry, the result    *)
(* what C expects on return.                                                *)
SysvExportParam(i, ty, loc, frame) ==
  LET above == 16 + loc.offset
  IN CASE IsAggregate(ty) /\ loc.at = "stack" ->
            CopyMem("rbp", frame.copy[i], "rbp", above, ty.size)
            \o <<Lea("rax", "rbp", frame.copy[i]), Put(i - 1, "rax")>>
       [] IsAggregate(ty) /\ loc.at = "regs" ->
            Each(loc.pieces, LAMBDA k, reg : IF IsFloatReg(reg) THEN <<St("rbp", frame.copy[i] + 8 * (k - 1), reg)>>
                                             ELSE <<Mov("rax", reg), St("rbp", frame.copy[i] + 8 * (k - 1), "rax")>>)
            \o <<Lea("rax", "rbp", frame.copy[i]), Put(i - 1, "rax")>>
       [] ty.kind = "f32" -> (IF loc.at = "regs" THEN <<Fn("cvtss2sd", "xmm15", loc.pieces[1])>>
                              ELSE <<Ld("xmm15", "rbp", above), Fn("cvtss2sd", "xmm15", "xmm15")>>)
                             \o <<Put(i - 1, "xmm15")>>
       [] OTHER -> IF loc.at = "regs" THEN <<Put(i - 1, loc.pieces[1])>>
                   ELSE <<Ld("rax", "rbp", above), Put(i - 1, "rax")>>

SysvExportParams(sig, frame) ==
  (IF InMemory(sig.ret) THEN <<St("rbp", frame.sret, "rdi")>> ELSE <<>>)
  \o Each(sig.params, LAMBDA i, ty : SysvExportParam(i, ty, Plan(sig).args[i], frame))

WindowsExportParam(i, pos, ty, frame) ==
  LET stack == 48 + 8 * AtLeast(pos - 5, 0)
      Take(d) == IF pos <= 4 THEN <<Mov(d, ArgRegs("win64")[pos])>> ELSE <<Ld(d, "rbp", stack)>>
      Copied == <<Lea("rax", "rbp", frame.copy[i]), Put(i - 1, "rax")>>
  IN CASE Indirect(ty) -> Take("r10") \o CopyMem("rbp", frame.copy[i], "r10", 0, ty.size) \o Copied
       [] IsAggregate(ty) /\ ~Indirect(ty) -> Take("rax") \o <<St("rbp", frame.copy[i], "rax")>> \o Copied
       [] ty.kind = "f64" -> IF pos <= 4 THEN <<Put(i - 1, FloatArgs("win64")[pos])>> ELSE Take("rax") \o <<Put(i - 1, "rax")>>
       [] ty.kind = "f32" -> (IF pos <= 4 THEN <<Fn("cvtss2sd", "xmm15", FloatArgs("win64")[pos])>>
                              ELSE <<Ld("xmm15", "rbp", stack), Fn("cvtss2sd", "xmm15", "xmm15")>>)
                             \o <<Put(i - 1, "xmm15")>>
       [] OTHER -> IF pos <= 4 THEN <<Put(i - 1, ArgRegs("win64")[pos])>> ELSE Take("rax") \o <<Put(i - 1, "rax")>>

WindowsExportParams(sig, frame) ==
  LET first == IF Indirect(sig.ret) THEN 1 ELSE 0
  IN (IF first = 1 THEN <<St("rbp", frame.sret, "rcx")>> ELSE <<>>)
     \o Each(sig.params, LAMBDA i, ty : WindowsExportParam(i, first + i, ty, frame))

ScalarReturn(ret, r) ==
  CASE ret.kind = "void" -> <<Zero("rax")>>
    [] ret.kind = "int" -> <<Get("rax", r)>>
    [] ret.kind = "f64" -> <<Get("xmm0", r)>>
    [] ret.kind = "f32" -> <<Get("xmm15", r), Fn("cvtsd2ss", "xmm0", "xmm15")>>

MemoryReturn(ret, r, frame) ==
  <<Ld("r10", "rbp", frame.sret), Get("r11", r)>> \o CopyMem("r10", 0, "r11", 0, ret.size) \o <<Mov("rax", "r10")>>

\* Mutant: from the first to the last.
Forwards(n) == [k \in 1..n |-> k]
\* Words are returned from the last to the first, since each passes through rax.
Backwards(n) == [k \in 1..n |-> n + 1 - k]
ReturnWord(cs, k) ==
  IF cs[k] = "int" THEN <<Ld("rax", "r10", 8 * (k - 1))>> \o (IF Nth(cs, k) = 2 THEN <<Mov("rdx", "rax")>> ELSE <<>>)
  ELSE <<Ld(<<"xmm0", "xmm1">>[Nth(cs, k)], "r10", 8 * (k - 1))>>

SysvExportReturn(ret, r, frame) ==
  LET cs == Classes(ret)
  IN (IF ~IsAggregate(ret) THEN ScalarReturn(ret, r)
      ELSE IF InMemory(ret) THEN MemoryReturn(ret, r, frame)
      ELSE <<Get("r10", r)>> \o Each(Backwards(Len(cs)), LAMBDA i, k : ReturnWord(cs, k)))
     \o Leave

WindowsExportReturn(ret, r, frame) ==
  (IF ~IsAggregate(ret) THEN ScalarReturn(ret, r)
   ELSE IF Indirect(ret) THEN MemoryReturn(ret, r, frame)
   ELSE <<Get("r10", r), Ld("rax", "r10", 0)>>) \o Leave
-----------------------------------------------------------------------------
(* Opcodes.  Operands are slots of the frame; rax, rcx, rdx, xmm0 and xmm1   *)
(* hold them in between.  Widths of memory accesses are left out but for     *)
(* single bytes of strings.                                                  *)
Binary(f, d, a, b) == <<Get("rax", a), OpM(f, "rax", "rbp", Slot(b)), Put(d, "rax")>>
FloatBinary(f, d, a, b) == <<Get("xmm0", a), Get("xmm1", b), Op(f, "xmm0", "xmm1"), Put(d, "xmm0")>>
Shift(f, d, a, b) == <<Get("rax", a), Get("rcx", b), Op(f, "rax", "rcx"), Put(d, "rax")>>
Unary(f, d, a) == <<Get("rax", a), Fn(f, "rax", "rax"), Put(d, "rax")>>

Move(d, a) == <<Get("rax", a), Put(d, "rax")>>
MovI(d, n) == <<Imm("rax", n), Put(d, "rax")>>
MovAddress(d, symbol) == <<Sym("rax", symbol), Put(d, "rax")>>

\* Mutant: the least integer by -1 is divided like others.
DivideAlways(b) == <<IdivM("rbp", Slot(b))>>
\* The least integer divided by -1 is itself, remainder 0, without a division.
Divide(b) ==
  <<Imm("rcx", WordSize \div 2), Cmp("rax", "rcx"), J("jne", "normal"), CmpM("rbp", Slot(b), -1), J("jne", "normal"),
    Zero("rdx"), Jmp("divided"), Label("normal"), IdivM("rbp", Slot(b)), Label("divided")>>
DivMod(result, d, a, b, unsigned) ==
  <<Get("rax", a)>> \o (IF unsigned THEN <<Zero("rdx"), DivM("rbp", Slot(b))>> ELSE Divide(b)) \o <<Put(d, result)>>
DivOp(d, a, b, unsigned) == DivMod("rax", d, a, b, unsigned)
ModOp(d, a, b, unsigned) == DivMod("rdx", d, a, b, unsigned)

FloatNeg(d, a) == <<Get("rax", a), Const("rcx", "sign_bit"), Op("xor", "rax", "rcx"), Put(d, "rax")>>
Pow(d, a, b) == <<Ld("xmm0", "rbp", Slot(a)), Fn("cvtsi2sd", "xmm0", "xmm0"), Ld("xmm1", "rbp", Slot(b)),
                  Fn("cvtsi2sd", "xmm1", "xmm1"), Call("pow"), Fn("cvttsd2si", "rax", "xmm0"), Put(d, "rax")>>
-----------------------------------------------------------------------------
\* Comparisons set the flags that the jump after them reads.
CmpOp(a, b, float) == IF float THEN <<Get("xmm0", a), Get("xmm1", b), Ucomisd("xmm0", "xmm1")>>
                      ELSE <<Get("rax", a), CmpR("rax", "rbp", Slot(b))>>

IntJump(op, unsigned) ==
  CASE op = "Je" -> "je" [] op = "Jne" -> "jne"
    [] op = "Jg" -> IF unsigned THEN "ja" ELSE "jg"  [] op = "Jge" -> IF unsigned THEN "jae" ELSE "jge"
    [] op = "Jl" -> IF unsigned THEN "jb" ELSE "jl"  [] op = "Jle" -> IF unsigned THEN "jbe" ELSE "jle"
    [] op = "Ja" -> "ja" [] op = "Jb" -> "jb"

\* Mutant: a negated condition is not told apart.
FloatJumpUnnegated(op, negated, l) ==
  CASE op \in {"Jg", "Jge"} -> <<J(IF op = "Jg" THEN "ja" ELSE "jae", l)>>
    [] op = "Jne" -> <<J("jp", l), J("jne", l)>>
    [] OTHER -> <<J("jp", "unordered"), J(CASE op = "Je" -> "je" [] op = "Jl" -> "jb" [] op = "Jle" -> "jbe", l),
                  Label("unordered")>>
\* An unordered pair sets the flags of less and of equal, so jumps on these
\* pass it by; the jumps of a negated condition take it.
FloatJump(op, negated, l) ==
  LET cc == CASE op = "Jg" -> "ja" [] op = "Jge" -> "jae" [] op = "Jl" -> "jb" [] op = "Jle" -> "jbe"
              [] op = "Je" -> "je" [] op = "Jne" -> "jne"
  IN IF op = "Jne" \/ (op # "Je" /\ negated) THEN <<J("jp", l), J(cc, l)>>
     ELSE IF op \in {"Jg", "Jge"} THEN <<J(cc, l)>>
     ELSE <<J("jp", "unordered"), J(cc, l), Label("unordered")>>

Jump(op, float, unsigned, negated, l) ==
  IF float THEN FloatJump(op, negated, l) ELSE <<J(IntJump(op, unsigned), l)>>
JumpZero(op, r, l) == <<CmpM("rbp", Slot(r), 0), J(IF op = "Jz" THEN "je" ELSE "jne", l)>>
-----------------------------------------------------------------------------
Offset(o) == IF o = 0 THEN <<>> ELSE <<AddI("rax", o)>>
LeaOp(d, base, o) == <<Lea("rax", "rbp", Slot(base))>> \o Offset(o) \o <<Put(d, "rax")>>

\* Single floats are kept as doubles in slots.
LoadOp(d, base, o, single) ==
  <<Get("rax", base)>> \o Offset(o)
  \o (IF single THEN <<Ld("xmm0", "rax", 0), Fn("cvtss2sd", "xmm0", "xmm0"), Put(d, "xmm0")>>
                ELSE <<Ld("rcx", "rax", 0), Put(d, "rcx")>>)
StoreOp(s, base, o, single) ==
  <<Get("rax", base)>> \o Offset(o)
  \o (IF single THEN <<Get("xmm0", s), Fn("cvtsd2ss", "xmm0", "xmm0"), St("rax", 0, "xmm0")>>
                ELSE <<Get("rcx", s), St("rax", 0, "rcx")>>)
FieldLoad(d, obj, o, single) ==
  <<Get("rax", obj)>> \o (IF single THEN <<Ld("xmm0", "rax", o), Fn("cvtss2sd", "xmm0", "xmm0"), Put(d, "xmm0")>>
                          ELSE <<Ld("rcx", "rax", o), Put(d, "rcx")>>)
FieldStore(v, obj, o, single) ==
  <<Get("rax", obj)>> \o (IF single THEN <<Get("xmm0", v), Fn("cvtsd2ss", "xmm0", "xmm0"), St("rax", o, "xmm0")>>
                          ELSE <<Get("rcx", v), St("rax", o, "rcx")>>)
VtblLoad(d, vtable, k) == <<Get("rax", vtable), Ld("rax", "rax", 8 * k), Put(d, "rax")>>

\* Elements of an array ascend, the slots of a register block descend.
Element(base, idx, slots) ==
  <<Get("rax", base), Get("rcx", idx)>>
  \o (IF slots > 1 THEN <<Imm("rdx", 8 * slots), Op("mul", "rcx", "rdx")>> ELSE <<OpI("shl", "rcx", 3)>>)
  \o <<Op("add", "rax", "rcx")>>
ArrayStore(v, base, idx, slots) ==
  Element(base, idx, slots)
  \o FlattenSeq([k \in 1..slots |-> <<Get("rdx", v + k - 1), St("rax", 8 * (k - 1), "rdx")>>])
ArrayLoad(d, base, idx, slots) ==
  IF slots = 1 THEN Element(base, idx, 1) \o <<Ld("rax", "rax", 0), Put(d, "rax")>>
  ELSE <<Get("rdi", d)>> \o Element(base, idx, slots)
       \o FlattenSeq([k \in 1..slots |-> <<Ld("rdx", "rax", 8 * (k - 1)), St("rdi", -8 * (k - 1), "rdx")>>])

SyscallOp(d, number, n) ==
  [i \in 1..n |-> Get(SyscallArgs[i], d + i - 1)] \o <<Imm("rax", number), Syscall, Put(d, "rax")>>
=============================================================================
