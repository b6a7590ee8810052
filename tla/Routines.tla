------------------------------ MODULE Routines ------------------------------
(***************************************************************************)
(* The machine code the back end emits, one routine at a time: an opcode   *)
(* or an intrinsic in the frame of its function, a call together with the  *)
(* function it calls, a routine of the runtime, or an entry point.  A job, *)
(* a tuple of kind, convention, name and operands, says which.             *)
(***************************************************************************)
EXTENDS Intrinsics, StartStub

CONSTANTS FrameSlots,     \* slots of the frame of an opcode
          Signatures      \* C signatures, by name

ASSUME FrameSlotsAssumption == FrameSlots \in Nat /\ FrameSlots % 2 = 0

-----------------------------------------------------------------------------
(* The routines that replace libc in a Linux program (runtime.rs).  A heap *)
(* block is a mapping of its own: its first word is the size of the        *)
(* mapping, its second the capacity, and the address handed out follows    *)
(* them.  A "word" of the areas memory and string routines work on is one  *)
(* byte here.                                                              *)

Mmap == <<Mov("rsi", "rdi"), Zero("rdi"), Imm("rdx", 3), Imm("r10", 34), Imm("r8", -1), Zero("r9"),
          Imm("rax", 9), Syscall>>

\* Fill in the header of the block at rax, of size rdx and the given capacity.
Header(capacity) == <<CmpI("rax", -TopErrors), J("jae", "failed"), St("rax", 0, "rdx"), St("rax", 8, capacity)>>
Null == <<Zero("rax"), Ret>>

\* Mutant: the sizes are kept in registers that the kernel overwrites.
AllocateInRegisters ==
  <<Mov("rcx", "rdi"), AddI("rdi", 16), J("jo", "overflow"), Mov("r11", "rdi")>> \o Mmap
  \o <<Mov("rdx", "r11")>> \o Header("rcx") \o <<AddI("rax", 16)>>

\* The block for rdi bytes.
Allocate ==
  <<Push("rdi"), AddI("rdi", 16), J("jo", "overflow"), Push("rdi")>> \o Mmap
  \o <<Pop("rdx"), Pop("rcx")>> \o Header("rcx") \o <<AddI("rax", 16)>>

Malloc ==
  <<Test("rdi"), J("jne", "nonzero"), Imm("rdi", 1), Label("nonzero")>> \o Allocate
  \o <<Ret, Label("overflow"), Pop("rax"), Label("failed")>> \o Null

Munmap == <<SubI("rdi", 16), Ld("rsi", "rdi", 0), Imm("rax", 11), Syscall>>
Free == <<Test("rdi"), J("je", "done")>> \o Munmap \o <<Label("done")>> \o Null

Calloc ==
  <<Mov("rax", "rdi"), Mul("rsi"), Test("rdx"), J("jne", "failed"), Test("rax"), J("jne", "nonzero"),
    Imm("rax", 1), Label("nonzero"), Push("rax"), AddI("rax", 16), J("jo", "overflow"), Push("rax"),
    Mov("rdi", "rax")>> \o Mmap \o <<Pop("rdx"), Pop("rcx")>> \o Header("rcx")
  \o <<AddI("rax", 16), Mov("r8", "rax"), Mov("rdi", "rax"), Zero("rax"), Stos, Mov("rax", "r8"), Ret,
       Label("overflow"), Pop("rax"), Label("failed")>> \o Null

\* Mutant: the old block is copied whole into a smaller one.
CopySizeOld == <<Ld("rcx", "rsi", -8)>>
CopySize == <<Ld("rcx", "rsi", -8), Cmp("rcx", "r9"), J("jbe", "copy_size_ready"), Mov("rcx", "r9"), Label("copy_size_ready")>>

\* A new block, a copy of as much as both hold, and the old one unmapped.
ReallocMove ==
  <<Push("rdi"), Push("rsi"), Mov("rax", "rsi"), AddI("rax", 16), J("jo", "overflow_two"), Push("rax"),
    Mov("rdi", "rax")>> \o Mmap \o <<Pop("rdx"), Pop("r9"), Pop("rsi")>> \o Header("r9")
  \o <<Lea("r8", "rax", 16)>> \o CopySize \o <<Push("r8"), Push("rsi"), Mov("rdi", "r8"),
       Cld, Movs, Pop("rdi")>> \o Munmap \o <<Pop("rax"), Ret>>

Realloc ==
  <<Test("rdi"), J("je", "allocate"), Test("rsi"), J("je", "release")>> \o ReallocMove
  \o <<Label("release")>> \o Munmap \o Null
  \o <<Label("allocate"), Mov("rdi", "rsi"), Test("rdi"), J("jne", "nonzero"), Imm("rdi", 1), Label("nonzero")>>
  \o Allocate \o <<Ret, Label("overflow_two"), Pop("rax"), Pop("rax"), Jmp("failed"),
                   Label("overflow"), Pop("rax"), Label("failed")>> \o Null
-----------------------------------------------------------------------------
Memcpy == <<Mov("rax", "rdi"), Mov("rcx", "rdx"), Cld, Movs, Ret>>

\* Mutant: the direction flag is left set.
MemmoveKeepsDirection ==
  <<Mov("rax", "rdi"), Test("rdx"), J("je", "done"), Cmp("rdi", "rsi"), J("jbe", "forward"),
    Op("add", "rsi", "rdx"), SubI("rsi", 1), Op("add", "rdi", "rdx"), SubI("rdi", 1),
    Mov("rcx", "rdx"), Std, Movs, Jmp("done"), Label("forward"), Mov("rcx", "rdx"), Movs, Label("done"), Ret>>

\* Downwards only when the destination lies inside the source.
Memmove ==
  <<Mov("rax", "rdi"), Test("rdx"), J("je", "done"), Cmp("rdi", "rsi"), J("jbe", "forward"),
    Mov("r8", "rsi"), Op("add", "r8", "rdx"), Cmp("rdi", "r8"), J("jae", "forward"),
    Op("add", "rsi", "rdx"), SubI("rsi", 1), Op("add", "rdi", "rdx"), SubI("rdi", 1),
    Mov("rcx", "rdx"), Std, Movs, Cld, Jmp("done"),
    Label("forward"), Mov("rcx", "rdx"), Cld, Movs, Label("done"), Ret>>

Memset == <<Mov("r8", "rdi"), Mov("rax", "rsi"), Mov("rcx", "rdx"), Cld, Stos, Mov("rax", "r8"), Ret>>

Memcmp ==
  <<Test("rdx"), J("je", "equal"), Label("loop"), Ld("rax", "rdi", 0), Ld("rcx", "rsi", 0), Cmp("rax", "rcx"),
    J("jne", "different"), AddI("rdi", 1), AddI("rsi", 1), SubI("rdx", 1), J("jne", "loop"),
    Label("equal"), Zero("rax"), Ret, Label("different"), Op("sub", "rax", "rcx"), Ret>>

CopyString ==
  <<Label("copy"), Ld("rcx", "rsi", 0), St("rdi", 0, "rcx"), AddI("rsi", 1), AddI("rdi", 1), Test("rcx"),
    J("jne", "copy"), Ret>>
Strcpy == <<Mov("rax", "rdi")>> \o CopyString
Strcat ==
  <<Mov("rax", "rdi"), Label("scan"), CmpM("rdi", 0, 0), J("je", "copy"), AddI("rdi", 1), Jmp("scan")>>
  \o CopyString

-----------------------------------------------------------------------------

NoExport == [params |-> <<>>, ret |-> Void]
FrameOf(abi, foreign) == Frame(abi, FrameSlots, NoExport, foreign)

\* An opcode: <<"op", abi, name, d, a, b>>.
OpCode(abi, f, d, a, b) ==
  CASE f \in {"add", "sub", "mul", "and", "or", "xor"} -> Binary(f, d, a, b)
    [] f \in {"addsd", "subsd", "mulsd", "divsd"} -> FloatBinary(f, d, a, b)
    [] f \in {"shl", "shr", "sar"} -> Shift(f, d, a, b)
    [] f \in {"neg", "not"} -> Unary(f, d, a)
    [] f = "fneg" -> FloatNeg(d, a)
    [] f = "move" -> Move(d, a)
    [] f = "pow" -> Pow(d, a, b)
    [] f = "div" -> DivOp(d, a, b, FALSE)    [] f = "divu" -> DivOp(d, a, b, TRUE)
    [] f = "mod" -> ModOp(d, a, b, FALSE)    [] f = "modu" -> ModOp(d, a, b, TRUE)
    [] f = "lea" -> LeaOp(d, a, 8 * b)
    [] f = "load" -> LoadOp(d, a, 8 * b, FALSE)     [] f = "loadf" -> LoadOp(d, a, 8 * b, TRUE)
    [] f = "store" -> StoreOp(d, a, 8 * b, FALSE)   [] f = "storef" -> StoreOp(d, a, 8 * b, TRUE)
    [] f = "get" -> FieldLoad(d, a, 8 * b, FALSE)   [] f = "getf" -> FieldLoad(d, a, 8 * b, TRUE)
    [] f = "put" -> FieldStore(d, a, 8 * b, FALSE)  [] f = "putf" -> FieldStore(d, a, 8 * b, TRUE)
    [] f = "vtbl" -> VtblLoad(d, a, b)
    [] f = "aload1" -> ArrayLoad(d, a, b, 1)        [] f = "aload2" -> ArrayLoad(d, a, b, 2)
    [] f = "astore1" -> ArrayStore(d, a, b, 1)      [] f = "astore2" -> ArrayStore(d, a, b, 2)

\* Intrinsics by name, with their arguments from slot 0.
Intrinsic(abi, f) ==
  CASE f = "write" -> WriteOp(abi, 0)            [] f = "read" -> ReadOp(abi, 0)
    [] f = "exit" -> ExitOp(abi, 0)              [] f = "malloc" -> MallocOp(abi, 0)
    [] f = "free" -> FreeOp(abi, 0)              [] f = "realloc" -> ReallocOp(abi, 0)
    [] f = "new" -> New(abi, 0, 24)              [] f \in {"memset", "memmove", "memcmp"} -> BlockOp(abi, f, 0)
    [] f = "stderr_write" -> StderrWrite(abi, 0) [] f = "sleep_ms" -> SleepOp(abi, 0)
    [] f = "to_int" -> StrToInt(abi, 0, 1)       [] f = "to_float" -> StrToFloat(abi, 0, 1)
    [] f = "spawn" -> ThreadSpawn(abi, 0)        [] f = "join" -> ThreadJoin(abi, 0)
    [] f = "bind_tcp" -> BindTcp(abi, 0)         [] f = "connect_tcp" -> ConnectTcp(abi, 0)
    [] f = "backtrace" -> PrintBacktrace(0)      [] f = "memory" -> MemoryInfo(abi, TRUE, 0)
    [] f = "free_memory" -> MemoryInfo(abi, FALSE, 0)
    [] f = "hostname" -> Hostname(abi, 0)        [] f = "cpuid" -> CpuBrand(0)
    [] f = "build" -> BuildNumber(abi, 0)        [] f = "product" -> ProductInfo(abi, 0)
    [] f = "random" -> RandomOp(abi, 0)          [] f = "random_float" -> RandomFloat(abi, 0)
    [] f = "ext6" -> CallExt(abi, "runtime7", 6, 0, TRUE)
    [] f = "process_spawn" -> ProcessSpawn(0)    [] f = "process_wait" -> ProcessWait(abi, 0)
    [] f = "process_try_wait" -> ProcessTryWait(abi, 0)
    [] f = "process_terminate" -> ProcessTerminate(abi, 0)
    [] f = "process_close" -> ProcessClose(abi, 0)
    [] f = "syscall" -> SyscallOp(0, 231, 6)

Text(abi, f) ==
  CASE f = "strlen" -> StrLen(0, 0)              [] f = "concat" -> StrConcat(abi, 0)
    [] f = "strcmp" -> StrCompare(0)             [] f = "count" -> StrCount(0)
    [] f = "byte_at" -> ByteAt(0)                [] f = "from_byte" -> FromByte(abi, 0)
    [] f = "memcpy" -> CopyBytes(0)              [] f = "getenv" -> GetEnv(abi, 0)

\* Numbers as text: <<"text", abi, kind, number, precision or base, trim or signed>>.
NumberText(abi, kind, p, flag) ==
  CASE kind = "int_heap" -> NumberToHeap(abi, 0, IntegerText(10, FALSE, TRUE))
    [] kind = "float_heap" -> NumberToHeap(abi, 0, FloatText(p, TRUE))
    [] kind \in {"float", "inf", "nan"} -> PrimToStr(abi, 0, 0, <<"float", p, flag>>)
    [] kind = "bool" -> PrimToStr(abi, 0, 0, <<"bool">>)
    [] kind = "binary" -> PrimToStr(abi, 0, 0, <<"binary">>)
    [] kind = "integer" -> PrimToStr(abi, 0, 0, <<"integer", p, flag>>)

\* A comparison and the jump after it: rax tells whether it was taken.
Branching(op, float, unsigned, negated) ==
  (IF op \in {"Jz", "Jnz"} THEN JumpZero(op, 0, "taken") ELSE CmpOp(0, 1, float) \o Jump(op, float, unsigned, negated, "taken"))
  \o <<Zero("rax")>> \o Leave \o <<Label("taken"), Imm("rax", 1)>> \o Leave

\* The slots of a caller's arguments and of a block for its result, apart.
ArgSlots(n) == [i \in 1..n |-> i]
BlockSlot == FrameSlots - 4

\* A Quazi function of n parameters that returns its slot 1, or slots 1 and 2
\* to the address it got as its first argument.
QuaziPair(abi, n, results, through) ==
  (IF through THEN CallThrough(abi, 0, FrameSlots - 1, ArgSlots(n), results) ELSE CallIdx(abi, 0, "f", ArgSlots(n), results))
  \o Leave \o <<Label("f")>> \o Enter(FrameOf(abi, Void).size) \o QuaziParams(abi, n) \o <<Label("body")>>
  \o QuaziReturn(IF results = 1 THEN n - 1 ELSE 0, results)

\* A C call of an exported function that returns its last parameter.
ForeignPair(abi, sig) ==
  LET n == Len(sig.params)
      caller == FrameOf(abi, sig.ret)
      callee == Frame(abi, FrameSlots, sig, Void)
  IN (IF abi = "win64" THEN WindowsForeignCall(0, sig, <<Call("f")>>, ArgSlots(n), caller)
      ELSE SysvForeignCall(0, sig, <<Call("f")>>, ArgSlots(n), caller))
     \o Leave \o <<Label("f")>> \o Enter(callee.size)
     \o (IF abi = "win64" THEN WindowsExportParams(sig, callee) ELSE SysvExportParams(sig, callee)) \o <<Label("body")>>
     \o (IF abi = "win64" THEN WindowsExportReturn(sig.ret, n - 1, callee) ELSE SysvExportReturn(sig.ret, n - 1, callee))

RuntimeCode(f) ==
  CASE f = "malloc" -> Malloc  [] f = "free" -> Free     [] f = "calloc" -> Calloc [] f = "realloc" -> Realloc
    [] f = "memcpy" -> Memcpy  [] f = "memmove" -> Memmove [] f = "memset" -> Memset [] f = "memcmp" -> Memcmp
    [] f = "strcpy" -> Strcpy  [] f = "strcat" -> Strcat

StartCode(f, takesArgs) ==
  CASE f = "linux" -> LinuxStart(takesArgs)           [] f = "linux_minimal" -> LinuxMinimalStart(takesArgs)
    [] f = "windows" -> WindowsStart(TRUE, takesArgs) [] f = "windows_minimal" -> WindowsStart(FALSE, takesArgs)
    [] f = "linux_backtrace" -> LinuxPrintBacktrace   [] f = "windows_backtrace" -> WindowsPrintBacktrace
    [] f = "linux_crash" -> LinuxCrashHandler         [] f = "windows_crash" -> WindowsCrashHandler

CodeOf(j) ==
  LET kind == j[1]  abi == j[2]  name == j[3]
  IN CASE kind = "op" -> OpCode(abi, name, j[4], j[5], j[6]) \o Leave
       [] kind = "intrinsic" -> Intrinsic(abi, name) \o Leave
       [] kind = "string" -> Text(abi, name) \o Leave
       [] kind = "number" -> NumberText(abi, name, j[5], j[6]) \o Leave
       [] kind = "branch" -> Branching(name, j[4], j[5], j[6])
       [] kind = "quazi" -> QuaziPair(abi, j[4], j[5], name = "through")
       [] kind = "foreign" -> ForeignPair(abi, Signatures[name])
       [] kind = "runtime" -> RuntimeCode(name)
       [] kind = "start" -> StartCode(name, j[4])
=============================================================================
