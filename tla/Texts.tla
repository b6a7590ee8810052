-------------------------------- MODULE Texts -------------------------------
(***************************************************************************)
(* Strings and numbers as text, inlined without libc (encoder.rs).  A byte *)
(* is one word of an area; a character is its code.                        *)
(***************************************************************************)
EXTENDS Encoder

Malloc80 == [win64 |-> <<Call("GetProcessHeap"), Mov("rcx", "rax"), Zero("rdx"), Imm("r8", 80), Call("HeapAlloc")>>,
             sysv  |-> <<Imm("rdi", 80), Call("malloc")>>]

\* The digits of rax at r11, least first, then turned round in place.
IntegerText(base, upper, signed) ==
  <<Zero("r8")>>
  \o (IF signed THEN <<Test("rax"), J("jns", "magnitude"), Imm("r8", 1), Fn("neg", "rax", "rax"), Label("magnitude")>>
      ELSE <<>>)
  \o <<Mov("r10", "r11"), Imm("r9", base),
       Label("digit"), Zero("rdx"), Div("r9"), CmpI("rdx", 9), J("jbe", "numeric"),
       AddI("rdx", IF upper THEN 55 ELSE 87), Jmp("digit_ready"), Label("numeric"), AddI("rdx", 48),
       Label("digit_ready"), St("r10", 0, "rdx"), AddI("r10", 1), Test("rax"), J("jne", "digit")>>
  \o (IF signed THEN <<Test("r8"), J("je", "sign_done"), StI("r10", 0, 45), AddI("r10", 1), Label("sign_done")>>
      ELSE <<>>)
  \o <<StI("r10", 0, 0), Mov("r8", "r11"), Lea("r9", "r10", -1),
       Label("reverse"), Cmp("r8", "r9"), J("jae", "reversed"), Ld("rax", "r8", 0), Ld("rdx", "r9", 0),
       St("r8", 0, "rdx"), St("r9", 0, "rax"), AddI("r8", 1), SubI("r9", 1), Jmp("reverse"), Label("reversed")>>

\* The fraction is scaled and rounded; what rounds to 1 carries into the integer.
Scaled(precision) ==
  <<FImm("rax", FloatUnit * 10^precision), Mov("xmm2", "rax"), Op("mulsd", "xmm1", "xmm2"),
    FImm("rax", FloatUnit \div 2), Mov("xmm2", "rax"), Op("addsd", "xmm1", "xmm2"), Fn("cvttsd2si", "rax", "xmm1")>>
\* Mutant: the carry is lost.
CarryLost(precision) == <<CmpI("rax", 10^precision), J("jb", "fraction_ready"), Zero("rax"), Label("fraction_ready")>>
Carry(precision) ==
  <<CmpI("rax", 10^precision), J("jb", "fraction_ready"), Zero("rax"), Mov("rcx", "xmm3"), AddI("rcx", 1),
    Mov("xmm3", "rcx"), Label("fraction_ready")>>

Fraction(precision) ==
  <<Mov("r10", "r11"), Label("scan_end"), CmpM("r10", 0, 0), J("je", "end_found"), AddI("r10", 1), Jmp("scan_end"),
    Label("end_found"), StI("r10", 0, 46), AddI("r10", 1), Mov("r8", "r10"), AddI("r10", precision), StI("r10", 0, 0),
    Imm("rcx", precision), Imm("r9", 10),
    Label("fraction"), Zero("rdx"), Div("r9"), AddI("rdx", 48), SubI("r10", 1), St("r10", 0, "rdx"),
    SubI("rcx", 1), J("jne", "fraction")>>

TrimZeroes(precision) ==
  <<AddI("r8", precision), Label("trim"), Cmp("r8", "r10"), J("jbe", "trimmed"), CmpM("r8", -1, 48), J("jne", "trimmed"),
    SubI("r8", 1), Jmp("trim"), Label("trimmed"), CmpM("r8", -1, 46), J("jne", "keep_point"), SubI("r8", 1),
    Label("keep_point"), StI("r8", 0, 0)>>

FloatText(precision, trim) ==
  <<Mov("rdx", "rax"), Const("r8", "magnitude_bits"), Op("and", "rax", "r8"), Test("rdx"), J("jns", "positive"),
    StI("r11", 0, 45), AddI("r11", 1), Label("positive"),
    Mov("r8", "rax"), OpI("shr", "r8", 52), CmpI("r8", 2047), J("jne", "finite"),
    Mov("r8", "rax"), OpI("shl", "r8", 12), Test("r8"), J("jne", "not_a_number"),
    Const("r8", "inf"), St("r11", 0, "r8"), Jmp("float_done"),
    Label("not_a_number"), Const("r8", "nan"), St("r11", 0, "r8"), Jmp("float_done"),
    Label("finite"), Mov("xmm1", "rax"), Fn("cvttsd2si", "rax", "xmm1"), Mov("xmm3", "rax"),
    Fn("cvtsi2sd", "xmm2", "rax"), Op("subsd", "xmm1", "xmm2")>>
  \o Scaled(precision) \o Carry(precision)
  \o <<Push("rax"), Mov("rax", "xmm3")>> \o IntegerText(10, FALSE, FALSE) \o <<Pop("rax")>>
  \o (IF precision = 0 THEN <<>> ELSE Fraction(precision) \o (IF trim THEN TrimZeroes(precision) ELSE <<>>))
  \o <<Label("float_done")>>

\* A new buffer for a number; rax is pushed for alignment only.
NumberToHeap(abi, d, text) ==
  <<Push("rbx"), Push("rax")>> \o (IF abi = "win64" THEN <<SubI("rsp", 32)>> ELSE <<>>) \o Malloc80[abi]
  \o <<Mov("rbx", "rax"), Get("rax", d), Mov("r11", "rbx")>> \o text \o <<Put(d, "rbx")>>
  \o (IF abi = "win64" THEN <<AddI("rsp", 32)>> ELSE <<>>) \o <<Pop("rax"), Pop("rbx")>>

BoolText(abi) ==
  LET r == IF abi = "win64" THEN "rcx" ELSE "rdi"
  IN <<Test("rax"), J("je", "false"), Sym(r, "buf"), Const("rax", "true"), St(r, 0, "rax"), StI(r, 4, 0), Jmp("bool_done"),
       Label("false"), Sym(r, "buf"), Const("rax", "fals"), St(r, 0, "rax"), StI(r, 4, 101), StI(r, 5, 0),
       Label("bool_done")>>

\* Binary digits from the highest bit set.
BinaryText ==
  <<Test("rax"), J("jne", "nonzero"), StI("r11", 0, 48), StI("r11", 1, 0), Jmp("binary_done"), Label("nonzero"),
    Fn("bsr", "rcx", "rax"), Mov("r10", "r11"),
    Label("bit"), Mov("r9", "rax"), Op("shr", "r9", "rcx"), Fn("bit", "r9", "r9"), AddI("r9", 48), St("r10", 0, "r9"),
    AddI("r10", 1), Test("rcx"), J("je", "last_bit"), SubI("rcx", 1), Jmp("bit"),
    Label("last_bit"), StI("r10", 0, 0), Label("binary_done")>>

PrimToStr(abi, d, a, how) ==
  <<Get("rax", a)>> \o (IF how[1] = "bool" THEN <<>> ELSE <<Sym("r11", "buf")>>)
  \o (CASE how[1] = "bool" -> BoolText(abi)
       [] how[1] = "float" -> FloatText(how[2], how[3])
       [] how[1] = "binary" -> BinaryText
       [] how[1] = "integer" -> IntegerText(how[2], FALSE, how[3]))
  \o <<Sym("rax", "buf"), Put(d, "rax")>>
-----------------------------------------------------------------------------
\* Length of the string at register p, in register n.
Scan(p, n, byte, loop, done) ==
  <<Zero(n), Label(loop), Ld(byte, p, 0), Test(byte), J("je", done), AddI(p, 1), AddI(n, 1), Jmp(loop), Label(done)>>
StrLen(d, a) == <<Get("rax", a)>> \o Scan("rax", "rcx", "rdx", "len", "len_done") \o <<Put(d, "rcx")>>

\* A buffer for both and a zero, the first without its zero, the second with it.
StrConcat(abi, d) ==
  LET room == IF abi = "win64" THEN 40 ELSE 8
  IN <<Push("rbx"), Push("r12"), Push("r13"), SubI("rsp", room), Get("r12", d), Get("r13", d + 1), Mov("rax", "r12")>>
     \o Scan("rax", "rbx", "rcx", "len1", "len1_done") \o <<Mov("rax", "r13")>>
     \o Scan("rax", "rcx", "rdx", "len2", "len2_done")
     \o <<Mov("rax", "rcx"), Op("add", "rax", "rbx"), AddI("rax", 1)>>
     \o (IF abi = "win64" THEN <<St("rsp", 32, "rax"), Call("GetProcessHeap"), Mov("rcx", "rax"), Zero("rdx"),
                                 Ld("r8", "rsp", 32), Call("HeapAlloc")>>
         ELSE <<Mov("rdi", "rax"), Call("malloc")>>)
     \o <<Mov("rbx", "rax"), Zero("rcx"),
          Label("copy1"), LdB("rdx", "r12", "rcx"), Test("rdx"), J("je", "copy2"), StB("rbx", "rcx", "rdx"),
          AddI("rcx", 1), Jmp("copy1"),
          Label("copy2"), Ld("rdx", "r13", 0), StB("rbx", "rcx", "rdx"), AddI("r13", 1), AddI("rcx", 1), Test("rdx"),
          J("jne", "copy2"), Put(d, "rbx"), AddI("rsp", room), Pop("r13"), Pop("r12"), Pop("rbx")>>

\* Bytes in order are code points in order.
StrCompare(d) ==
  <<Get("r8", d), Get("r9", d + 1), Label("compare"), Ld("rax", "r8", 0), Ld("rcx", "r9", 0), Cmp("rax", "rcx"),
    J("jb", "less"), J("ja", "greater"), Test("rax"), J("je", "equal"), AddI("r8", 1), AddI("r9", 1), Jmp("compare"),
    Label("less"), Imm("rax", -1), Jmp("compared"), Label("greater"), Imm("rax", 1), Jmp("compared"),
    Label("equal"), Zero("rax"), Label("compared"), Put(d, "rax")>>

\* Mutant: every byte counts.
StrCountBytes(d) ==
  <<Get("r8", d), Zero("rcx"), Label("scan"), Ld("rax", "r8", 0), Test("rax"), J("je", "counted"),
    AddI("rcx", 1), AddI("r8", 1), Jmp("scan"), Label("counted"), Put(d, "rcx")>>
\* Bytes that do not continue a character.
StrCount(d) ==
  <<Get("r8", d), Zero("rcx"), Label("scan"), Ld("rax", "r8", 0), Test("rax"), J("je", "counted"),
    Fn("top_bits", "rdx", "rax"), CmpI("rdx", 128), J("je", "continuation"), AddI("rcx", 1),
    Label("continuation"), AddI("r8", 1), Jmp("scan"), Label("counted"), Put(d, "rcx")>>

ByteAt(d) == <<Get("rax", d), Get("rcx", d + 1), LdB("rax", "rax", "rcx"), Put(d, "rax")>>

FromByte(abi, d) ==
  <<Push("rbx"), Push("rax")>>
  \o (IF abi = "win64" THEN <<SubI("rsp", 32), Call("GetProcessHeap"), Mov("rcx", "rax"), Zero("rdx"), Imm("r8", 2),
                              Call("HeapAlloc"), AddI("rsp", 32)>>
      ELSE <<Imm("rdi", 2), Call("malloc")>>)
  \o <<Get("rbx", d), Fn("byte", "rbx", "rbx"), St("rax", 0, "rbx"), StI("rax", 1, 0), Put(d, "rax"), Pop("rax"), Pop("rbx")>>

CopyBytes(d) ==
  <<Get("rax", d), Get("rcx", d + 1), Get("rdx", d + 2), Zero("r8"),
    Label("copy"), Cmp("r8", "rdx"), J("jae", "copied"), LdB("r9", "rcx", "r8"), StB("rax", "r8", "r9"), AddI("r8", 1),
    Jmp("copy"), Label("copied"), Put(d, "rax")>>

\* A name is found where the entry goes on with '='.
GetEnv(abi, d) ==
  (IF abi = "win64" THEN <<Get("rcx", d), Call("getenv")>>
   ELSE <<Sym("rax", "envp"), Ld("rsi", "rax", 0), Get("r8", d),
          Label("env_loop"), Ld("rdx", "rsi", 0), Test("rdx"), J("je", "not_found"), Zero("rcx"),
          Label("compare"), LdB("rax", "r8", "rcx"), Test("rax"), J("je", "name_end"), LdB("r9", "rdx", "rcx"),
          Cmp("rax", "r9"), J("jne", "next"), AddI("rcx", 1), Jmp("compare"),
          Label("name_end"), LdB("r9", "rdx", "rcx"), CmpI("r9", 61), J("je", "found"),
          Label("next"), AddI("rsi", 8), Jmp("env_loop"),
          Label("found"), Op("add", "rdx", "rcx"), Lea("rax", "rdx", 1), Jmp("env_done"),
          Label("not_found"), Zero("rax"), Label("env_done")>>)
  \o <<Put(d, "rax")>>
=============================================================================
