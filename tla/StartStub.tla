----------------------------- MODULE StartStub ------------------------------
(***************************************************************************)
(* The entry points the linker puts in front of a program (start.rs): four *)
(* variants, for Linux and Windows, with and without a crash handler.      *)
(* Printing is a sequence of calls whose texts do not matter; the digits   *)
(* of a number are one step.  A program reads its arguments only if main   *)
(* declares them (takesArgs).                                              *)
(***************************************************************************)
EXTENDS X86

Saved == <<"rbx", "r12", "r13", "r14", "r15">>

\* Formats rbx into the shared buffer of digits, from the last to the first.
HexDigits == <<Sym("r8", "hex_buf"), Block("hex", <<"rbx", "r8">>, <<"rax", "rbx", "rcx", "r8">>)>>

LinuxPrint(text, n) == <<Imm("rax", 1), Imm("rdi", 2), Sym("rsi", text), Imm("rdx", n), Syscall>>
LinuxPrintHex == HexDigits \o LinuxPrint("hex_buf", 16) \o LinuxPrint("nl", 1)

WindowsPrint(text, n) ==
  <<Mov("rcx", "r15"), Sym("rdx", text), Imm("r8", n), Zero("r9"), StI("rsp", 32, 0), Call("WriteFile")>>
WindowsPrintHex == HexDigits \o WindowsPrint("hex_buf", 16) \o WindowsPrint("nl", 1)

Traced(l)  == <<Sym("rax", "trace_enabled"), CmpM("rax", 0, 0), J("jne", l)>>
NoTrace(l) == <<Sym("rax", "trace_enabled"), CmpM("rax", 0, 0), J("je", l)>>

\* Up to 16 frames from r12, as long as the chain of frame pointers lasts.
Frames(print, printHex, done) ==
  <<Label("frame"), Test("r12"), J("je", done), Test("r13"), J("je", done)>> \o print
  \o <<Ld("rbx", "r12", 8)>> \o printHex \o <<Ld("r12", "r12", 0), SubI("r13", 1), Jmp("frame"), Label(done)>>

LinuxPrintBacktrace ==
  PushAll(Saved) \o NoTrace("bt_done") \o LinuxPrint("bt_prefix", 17) \o <<Mov("r12", "rbp"), Imm("r13", 16)>>
  \o Frames(LinuxPrint("at_0x", 7), LinuxPrintHex, "bt_done") \o PopAll(Saved) \o <<Ret>>

WindowsPrintBacktrace ==
  PushAll(Saved) \o <<SubI("rsp", 40)>> \o NoTrace("bt_done")
  \o <<Imm("rcx", -12), Call("GetStdHandle"), Mov("r15", "rax")>> \o WindowsPrint("bt_prefix", 17)
  \o <<Mov("r12", "rbp"), Imm("r13", 16)>> \o Frames(WindowsPrint("at_0x", 7), WindowsPrintHex, "bt_done")
  \o <<AddI("rsp", 40)>> \o PopAll(Saved) \o <<Ret>>

\* The handler of a signal: rdi the signal, rsi its siginfo_t, rdx a ucontext_t.
LinuxCrashHandler ==
  PushAll(Saved) \o <<Mov("r12", "rdi"), Mov("r13", "rsi"), Mov("r14", "rdx")>>
  \o LinuxPrint("crash_header", 14) \o LinuxPrint("fatal_sig", 16) \o <<Mov("rbx", "r12")>> \o LinuxPrintHex
  \o LinuxPrint("fault", 9) \o <<Ld("rbx", "r13", 16)>> \o LinuxPrintHex
  \o LinuxPrint("rip", 7) \o <<Ld("rbx", "r14", 168)>> \o LinuxPrintHex
  \o NoTrace("bt_done_c") \o <<Call("__quazi_print_backtrace"), Label("bt_done_c")>>
  \o Traced("skip_hint") \o LinuxPrint("trace_hint", 41)
  \o <<Label("skip_hint"), Imm("rdi", 101), Imm("rax", 231), Syscall>> \o PopAll(Saved) \o <<Ret>>

\* The vectored handler of an exception: rcx points to the record and context.
WindowsCrashHandler ==
  PushAll(Saved) \o <<SubI("rsp", 40), Mov("r14", "rcx"), Ld("rax", "r14", 0), Ld("rbx", "rax", 0),
                      Ld("r12", "rax", 16), Ld("rax", "r14", 8), Ld("r13", "rax", 248),
                      Imm("rcx", -12), Call("GetStdHandle"), Mov("r15", "rax")>>
  \o WindowsPrint("crash_header", 14) \o WindowsPrint("fatal_exc", 19) \o WindowsPrintHex
  \o WindowsPrint("fault", 9) \o <<Mov("rbx", "r12")>> \o WindowsPrintHex
  \o WindowsPrint("rip", 7) \o <<Mov("rbx", "r13")>> \o WindowsPrintHex
  \o NoTrace("bt_done_c") \o <<Ld("rax", "r14", 8), Ld("r12", "rax", 160)>>
  \o WindowsPrint("bt_prefix", 17) \o <<Imm("r13", 16)>>
  \o Frames(WindowsPrint("at_0x", 7), WindowsPrintHex, "bt_done_c")
  \o Traced("skip_hint") \o WindowsPrint("trace_hint", 41)
  \o <<Label("skip_hint"), Imm("rcx", 101), Call("ExitProcess"), AddI("rsp", 40)>> \o PopAll(Saved) \o <<Ret>>
-----------------------------------------------------------------------------
Signals == <<11, 6, 8, 7>>

\* One structure serves four calls of rt_sigaction.
InstallHandlers ==
  <<SubI("rsp", 64), Zero("rax"), St("rsp", 24, "rax"), Sym("rax", "crash_handler"), St("rsp", 0, "rax"),
    StI("rsp", 8, 4), Sym("rax", "sigreturn"), St("rsp", 16, "rax"),
    Mov("rsi", "rsp"), Zero("rdx"), Imm("r10", 8), Imm("rax", 13),
    Imm("rdi", Signals[1]), Syscall, Imm("rdi", Signals[2]), Syscall,
    Imm("rdi", Signals[3]), Syscall, Imm("rdi", Signals[4]), Syscall>>

\* Mutant: the zero after the arguments is forgotten.
SaveEnvironmentEarly ==
  <<Ld("rcx", "rbx", 0), LeaX("rsi", "rbx", "rcx", 8), Sym("rax", "envp"), St("rax", 0, "rsi")>>

\* The environment follows the arguments on the initial stack.
SaveEnvironment ==
  <<Ld("rcx", "rbx", 0), LeaX("rsi", "rbx", "rcx", 16), Sym("rax", "envp"), St("rax", 0, "rsi")>>

FindTrace ==
  <<Label("env_loop"), Ld("rax", "rsi", 0), Test("rax"), J("je", "no_trace"), Imm("rdx", 1),
    CmpM("rax", 0, 1), J("jne", "next_env"), CmpM("rax", 8, 1), J("jne", "next_env"),
    CmpM("rax", 12, 1), J("jne", "next_env"),
    Sym("rax", "trace_enabled"), StI("rax", 0, 1), Jmp("no_trace"),
    Label("next_env"), AddI("rsi", 8), Jmp("env_loop"), Label("no_trace"), AddI("rsp", 64)>>

\* The smaller entry point reads /proc/self/environ into the words at rsp.
FindTraceInFile ==
  <<Imm("rax", 2), Sym("rdi", "environ_path"), Zero("rsi"), Syscall, CmpI("rax", 0), J("js", "no_trace"),
    Mov("rdi", "rax"), Imm("rax", 0), Lea("rsi", "rsp", 0), Imm("rdx", 512), Syscall,
    Mov("rcx", "rax"), Lea("rsi", "rsp", 0),
    Label("search"), CmpI("rcx", 12), J("jb", "no_trace"),
    Fn("text", "rdx", "rsi"), CmpI("rdx", 1), J("jne", "next"),
    Sym("rax", "trace_enabled"), StI("rax", 0, 1), Jmp("no_trace"),
    Label("next"), AddI("rsi", 1), SubI("rcx", 1), Jmp("search"), Label("no_trace")>>

\* The number of arguments and where their addresses are.
\* Mutant: from the second on.
FindArgsLate == <<Ld("r12", "rsp", 0), Lea("r13", "rsp", 16)>>
FindArgs     == <<Ld("r12", "rsp", 0), Lea("r13", "rsp", 8)>>

\* Array[str] on the stack: storage, length, capacity; the strings stay where they are.
LinuxArgs ==
  FindArgs \o <<SubI("rsp", 24),
    Mov("rdi", "r12"), OpI("shl", "rdi", 3), Test("rdi"), J("jne", "args_malloc"), Zero("rax"),
    Jmp("args_malloc_done"), Label("args_malloc"), Call("malloc"), Label("args_malloc_done"),
    St("rsp", 0, "rax"), St("rsp", 8, "r12"), St("rsp", 16, "r12"),
    Zero("r14"), Label("args_loop"), Cmp("r14", "r12"), J("jae", "args_loop_end"),
    Ld("r15", "rsp", 0), LdX("rdi", "r13", "r14"), StX("r15", "r14", "rdi"),
    AddI("r14", 1), Jmp("args_loop"), Label("args_loop_end"), Mov("rdi", "rsp")>>

LinuxMain(takesArgs) ==
  (IF takesArgs THEN LinuxArgs ELSE <<>>) \o <<Call("main")>>
  \o (IF takesArgs THEN <<AddI("rsp", 24)>> ELSE <<>>) \o <<Mov("rdi", "rax"), Imm("rax", 60), Syscall>>

LinuxStart(takesArgs) ==
  <<Zero("rbp"), Mov("rbx", "rsp")>> \o InstallHandlers \o SaveEnvironment \o FindTrace \o LinuxMain(takesArgs)

LinuxMinimalStart(takesArgs) ==
  <<Zero("rbp"), Mov("rbx", "rsp")>> \o SaveEnvironment \o FindTraceInFile \o LinuxMain(takesArgs)
-----------------------------------------------------------------------------
\* QUAZI_TRACE is read into the word at rsp.
WindowsTrace ==
  <<Sym("rcx", "env_var_name"), Lea("rdx", "rsp", 0), Imm("r8", 8), Call("GetEnvironmentVariableA"),
    Test("rax"), J("je", "no_env"), CmpM("rsp", 0, 1), J("jne", "no_env"),
    Sym("rax", "trace_enabled"), StI("rax", 0, 1), Label("no_env")>>

\* rsp + 64 is a scratch word, rsp + 72 the array.
WindowsAllocate(size) ==
  <<Call("GetProcessHeap"), Mov("rcx", "rax"), Zero("rdx"), Ld("r8", "rsp", size), Call("HeapAlloc")>>

\* One call measures, the next converts into what was allocated in between.
WindowsConvert ==
  <<Imm("rcx", 1), Zero("rdx"), LdX("r8", "r13", "r15"), Imm("r9", -1),
    StI("rsp", 32, 0), StI("rsp", 40, 0), StI("rsp", 48, 0), StI("rsp", 56, 0),
    Call("WideCharToMultiByte"), St("rsp", 64, "rax")>> \o WindowsAllocate(64)
  \o <<StX("r14", "r15", "rax"), Imm("rcx", 1), Zero("rdx"), LdX("r8", "r13", "r15"), Imm("r9", -1),
       St("rsp", 32, "rax"), Ld("rax", "rsp", 64), St("rsp", 40, "rax"), StI("rsp", 48, 0),
       StI("rsp", 56, 0), Call("WideCharToMultiByte")>>

WindowsArgs ==
  <<Call("GetCommandLineW"), Mov("rcx", "rax"), Lea("rdx", "rsp", 8), StI("rsp", 8, 0),
    Call("CommandLineToArgvW"), Mov("r13", "rax"), Zero("r12"), Test("r13"), J("je", "args_parsed"),
    Ld("r12", "rsp", 8), Label("args_parsed"), SubI("rsp", 96),
    Mov("rcx", "r12"), OpI("shl", "rcx", 3), Test("rcx"), J("jne", "args_malloc"), Zero("rax"),
    Jmp("args_malloc_done"), Label("args_malloc"), St("rsp", 64, "rcx")>> \o WindowsAllocate(64)
  \o <<Label("args_malloc_done"), Mov("r14", "rax"), Test("r14"), J("jne", "args_storage_ready"), Zero("r12"),
       Label("args_storage_ready"), Zero("r15"),
       Label("args_loop"), Cmp("r15", "r12"), J("jae", "args_loop_end")>> \o WindowsConvert
  \o <<AddI("r15", 1), Jmp("args_loop"), Label("args_loop_end"), Mov("rcx", "r13"), Call("LocalFree"),
       St("rsp", 72, "r14"), St("rsp", 80, "r12"), St("rsp", 88, "r12"), Lea("rcx", "rsp", 72)>>

WindowsStart(handler, takesArgs) ==
  <<SubI("rsp", 40)>>
  \o (IF handler THEN <<Imm("rcx", 1), Sym("rdx", "crash_handler"), Call("AddVectoredExceptionHandler")>> ELSE <<>>)
  \o WindowsTrace \o (IF takesArgs THEN WindowsArgs ELSE <<>>) \o <<Call("main")>>
  \o (IF takesArgs THEN <<AddI("rsp", 96)>> ELSE <<>>)
  \o <<Mov("rcx", "rax"), Call("ExitProcess"), AddI("rsp", 40), Ret>>
=============================================================================
