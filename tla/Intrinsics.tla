----------------------------- MODULE Intrinsics -----------------------------
(***************************************************************************)
(* The intrinsics of the language that call the system (encoder.rs): on    *)
(* Linux mostly system calls, on Windows its libraries.  Their arguments   *)
(* are in slots d, d + 1, ...; the result goes to slot d.                  *)
(***************************************************************************)
EXTENDS Texts

Os(abi, windows, linux) == IF abi = "win64" THEN windows ELSE linux
Room(abi, windows, linux) == <<SubI("rsp", Os(abi, windows, linux))>>
GiveBack(abi, windows, linux) == <<AddI("rsp", Os(abi, windows, linux))>>
Gets(regs, d) == [i \in 1..Len(regs) |-> Get(regs[i], d + i - 1)]
Sys(n) == <<Imm("rax", n), Syscall>>
Args(abi, n, d) == Gets(SubSeq(ArgRegs(abi), 1, n), d)
\* -1 after a failed call, else what follows.
OrMinusOne(ok) == <<Test("rax"), J("je", "call_failed")>> \o ok \o <<Jmp("call_done"), Label("call_failed"), Imm("rax", -1), Label("call_done")>>

\* WriteFile and ReadFile leave the count above the shadow space.
WindowsTransfer(f) == <<Lea("r9", "rsp", 40), StI("rsp", 32, 0), Call(f)>> \o OrMinusOne(<<Ld("rax", "rsp", 40)>>)

StdHandle(d) == <<Imm("rax", -10), OpM("sub", "rax", "rbp", Slot(d)), Mov("rcx", "rax"), Call("GetStdHandle")>>
Transfer(abi, f, number, d) ==
  Os(abi, StdHandle(d) \o <<Mov("rcx", "rax"), Get("rdx", d + 1), Get("r8", d + 2)>> \o WindowsTransfer(f),
          Gets(<<"rdi", "rsi", "rdx">>, d) \o Sys(number)) \o <<Put(d, "rax")>>
WriteOp(abi, d) == Transfer(abi, "WriteFile", 1, d)
ReadOp(abi, d)  == Transfer(abi, "ReadFile", 0, d)

StderrWrite(abi, d) ==
  Os(abi, <<Imm("rcx", -12), Call("GetStdHandle"), Mov("rcx", "rax"), Get("rdx", d), Get("r8", d + 1)>> \o WindowsTransfer("WriteFile"),
          <<Imm("rdi", 2), Get("rsi", d), Get("rdx", d + 1)>> \o Sys(1)) \o <<Put(d, "rax")>>

ExitOp(abi, d) == Os(abi, <<Get("rcx", d), Call("ExitProcess")>>, <<Get("rdi", d)>> \o Sys(60)) \o <<Zero("rax"), Put(d, "rax")>>

Heap(f, args) == <<Call("GetProcessHeap"), Mov("rcx", "rax"), Zero("rdx")>> \o args \o <<Call(f)>>
MallocOp(abi, d) == Os(abi, Heap("HeapAlloc", <<Get("r8", d)>>), <<Get("rdi", d), Call("malloc")>>) \o <<Put(d, "rax")>>
FreeOp(abi, d) == Os(abi, Heap("HeapFree", <<Get("r8", d)>>), <<Get("rdi", d), Call("free")>>) \o <<Zero("rax"), Put(d, "rax")>>
ReallocOp(abi, d) == Os(abi, Heap("HeapReAlloc", <<Get("r8", d), Get("r9", d + 1)>>),
                             <<Get("rdi", d), Get("rsi", d + 1), Call("realloc")>>) \o <<Put(d, "rax")>>
New(abi, d, size) ==
  Os(abi, <<Call("GetProcessHeap"), Mov("rcx", "rax"), Imm("rdx", 8), Imm("r8", size), Call("HeapAlloc")>>,
          <<Imm("rdi", 1), Imm("rsi", size), Call("calloc")>>) \o <<Put(d, "rax")>>
\* memset, memmove and memcmp.
BlockOp(abi, f, d) == Args(abi, 3, d) \o <<Call(f), Put(d, "rax")>>
StrToInt(abi, d, a) == Args(abi, 1, a) \o <<Call("atoll"), Put(d, "rax")>>
StrToFloat(abi, d, a) == Args(abi, 1, a) \o <<Zero(ArgRegs(abi)[2]), Call("strtod"), Put(d, "xmm0")>>

\* Calls of the runtime by name take their arguments from the first slots.
CallExt(abi, f, n, d, variadic) ==
  LET regs == SubSeq(ArgRegs(abi), 1, IF n < Len(ArgRegs(abi)) THEN n ELSE Len(ArgRegs(abi)))
  IN Gets(regs, 0)
     \o (IF abi = "win64" THEN FlattenSeq([k \in 1..(IF n > 6 THEN 2 ELSE AtLeast(n - 4, 0)) |->
                                 <<Get("rax", 3 + k), St("rsp", 24 + 8 * k, "rax")>>])
         ELSE IF variadic THEN <<Zero("rax")>> ELSE <<>>)
     \o <<Call(f), Put(d, "rax")>>
-----------------------------------------------------------------------------
\* Windows sleeps at most one less than its word for ever, 2^32 - 1, at a time;
\* scaled down.
MaxSleep == 1000
\* Mutant: what is slept is not taken off.
SleepPartAgain == <<Mov("rcx", "rax"), Zero("rbx")>>
SleepPart == <<Op("sub", "rbx", "rax"), Mov("rcx", "rax")>>
SleepOp(abi, d) ==
  Os(abi, <<Push("rbx"), Get("rbx", d), Label("more"), Imm("rax", MaxSleep), Cmp("rbx", "rax"), J("jbe", "final")>>
          \o SleepPart \o <<SubI("rsp", 40), Call("Sleep"), AddI("rsp", 40), Jmp("more"),
            Label("final"), Mov("rcx", "rbx"), SubI("rsp", 40), Call("Sleep"), AddI("rsp", 40), Pop("rbx")>>,
          <<SubI("rsp", 16), Get("rax", d), Imm("rcx", 1000), Zero("rdx"), Div("rcx"), St("rsp", 0, "rax"),
            Imm("rcx", 1000000), Op("mul", "rdx", "rcx"), St("rsp", 8, "rdx"), Mov("rdi", "rsp"), Zero("rsi")>>
          \o Sys(35) \o <<AddI("rsp", 16)>>) \o <<Zero("rax"), Put(d, "rax")>>

\* Mutant: the block of a thread that could not be created is kept.
KeepThread == <<>>
GiveUpThread == <<Mov("rdi", "rbx"), Call("free")>>
\* rax is pushed for alignment.  On Linux a handle is a block that holds the thread.
ThreadSpawn(abi, d) ==
  <<Push("rbx"), Push("rax")>>
  \o Os(abi, <<SubI("rsp", 48), Zero("rcx"), Zero("rdx"), Get("r8", d), Zero("r9"), StI("rsp", 32, 0), StI("rsp", 40, 0),
               Call("CreateThread"), AddI("rsp", 48)>>,
             <<Imm("rdi", 8), Call("malloc"), Test("rax"), J("je", "no_block"), Mov("rbx", "rax"),
               Mov("rdi", "rbx"), Zero("rsi"), Get("rdx", d), Zero("rcx"), Call("pthread_create"),
               Test("rax"), J("jne", "create_failed"), Mov("rax", "rbx"), Jmp("spawned"),
               Label("create_failed")>> \o GiveUpThread \o <<Label("no_block"), Zero("rax"), Label("spawned")>>)
  \o <<Put(d, "rax"), Pop("rax"), Pop("rbx")>>

ThreadJoin(abi, d) ==
  <<Push("rbx"), Push("rax"), CmpM("rbp", Slot(d), 0), J("je", "joined")>>
  \o Os(abi, <<SubI("rsp", 32), Get("rcx", d), Imm("rdx", -1), Call("WaitForSingleObject"),
               Get("rcx", d), Call("CloseHandle"), AddI("rsp", 32)>>,
             <<Get("rbx", d), Ld("rdi", "rbx", 0), Zero("rsi"), Call("pthread_join"), Mov("rdi", "rbx"), Call("free")>>)
  \o <<Label("joined"), Zero("rax"), Put(d, "rax"), Pop("rax"), Pop("rbx")>>

\* A sockaddr_in on the stack, above the shadow space on Windows.
SocketAddress(abi, port) ==
  LET at == Os(abi, 32, 0)
  IN Room(abi, 48, 32) \o <<Zero("rax"), St("rsp", at, "rax"), St("rsp", at + 8, "rax"), StI("rsp", at, 2),
                            Get("rax", port), Fn("swap", "rax", "rax"), St("rsp", at + 2, "rax")>>
SocketCall(abi, f, number, d) ==
  Os(abi, <<Get("rcx", d), Lea("rdx", "rsp", 32), Imm("r8", 16), Call(f), CmpI("rax", -1), J("jne", "socket_done"),
            Call("WSAGetLastError"), Fn("neg", "rax", "rax"), Label("socket_done")>>,
          <<Get("rdi", d), Lea("rsi", "rsp", 0), Imm("rdx", 16)>> \o Sys(number))
  \o GiveBack(abi, 48, 32) \o <<Put(d, "rax")>>
BindTcp(abi, d) ==
  <<Push("rbx"), Push("rax")>> \o SocketAddress(abi, d + 1) \o SocketCall(abi, "bind", 49, d) \o <<Pop("rax"), Pop("rbx")>>
ConnectTcp(abi, d) ==
  <<Push("rbx"), Push("r12"), Push("rax"), Push("rax")>> \o SocketAddress(abi, d + 2)
  \o <<Lea("r12", "rsp", Os(abi, 36, 4)), Imm(ArgRegs(abi)[1], 2), Get(ArgRegs(abi)[2], d + 1), Mov(ArgRegs(abi)[3], "r12"),
       Call("inet_pton")>>
  \o SocketCall(abi, "connect", 42, d) \o <<Pop("rax"), Pop("rax"), Pop("r12"), Pop("rbx")>>

PrintBacktrace(d) == <<Call("__quazi_print_backtrace"), Zero("rax"), Put(d, "rax")>>

\* Total and free memory, at different words of what the system fills in.
MemoryInfo(abi, total, d) ==
  Os(abi, <<SubI("rsp", 96), StI("rsp", 32, 64), Lea("rcx", "rsp", 32), Call("GlobalMemoryStatusEx"), Test("rax"),
            J("je", "no_info"), Ld("rax", "rsp", IF total THEN 40 ELSE 48), Jmp("info"),
            Label("no_info"), Zero("rax"), Label("info"), AddI("rsp", 96)>>,
          <<SubI("rsp", 112), Mov("rdi", "rsp")>> \o Sys(99)
          \o <<Test("rax"), J("js", "no_info"), Ld("rax", "rsp", IF total THEN 32 ELSE 40), Ld("rcx", "rsp", 104),
               Op("mul", "rax", "rcx"), Jmp("info"), Label("no_info"), Zero("rax"), Label("info"), AddI("rsp", 112)>>)
  \o <<Put(d, "rax")>>

\* The name and a zero fit in the buffer.
\* Mutant: the zero may fall behind it.
NameFullLate == <<Cmp("rcx", "r9"), J("jae", "copied")>>
NameFull == <<Lea("rdx", "rcx", 1), Cmp("rdx", "r9"), J("jae", "copied")>>
Hostname(abi, d) ==
  Os(abi, <<Get("rax", d + 1), St("rsp", 32, "rax"), Get("rcx", d), Lea("rdx", "rsp", 32), Call("GetComputerNameA"),
            Test("rax"), Imm("rax", -1), J("je", "named"), Ld("rax", "rsp", 32), Label("named")>>,
          <<Get("r8", d), Get("r9", d + 1), Test("r9"), J("je", "invalid"), SubI("rsp", 400), Mov("rdi", "rsp")>> \o Sys(63)
          \o <<Test("rax"), J("js", "no_name"), Lea("r10", "rsp", 65), Zero("rcx"),
               Label("copy")>> \o NameFull \o <<LdB("rdx", "r10", "rcx"),
               Test("rdx"), J("je", "copied"), StB("r8", "rcx", "rdx"), AddI("rcx", 1), Jmp("copy"),
               Label("copied"), Zero("rdx"), StB("r8", "rcx", "rdx"), Mov("rax", "rcx"), AddI("rsp", 400), Jmp("named"),
               Label("no_name"), AddI("rsp", 400), Imm("rax", -1), Jmp("named"),
               Label("invalid"), Imm("rax", -1), Label("named")>>)
  \o <<Put(d, "rax")>>

\* Three leaves of the processor's brand string.
CpuBrand(d) ==
  LET Leaf(o) == <<Const("rax", "leaf"), Cpuid, St("r8", o, "rax"), St("r8", o + 4, "rbx"), St("r8", o + 8, "rcx"), St("r8", o + 12, "rdx")>>
  IN <<Get("r8", d), Get("r9", d + 1), CmpI("r9", 49), J("jb", "failed"), Const("rax", "leaf"), Cpuid,
       CmpI("rax", 4), J("jb", "failed")>> \o Leaf(0) \o Leaf(16) \o Leaf(32)
     \o <<StI("r8", 48, 0), Block("scan", <<"r8">>, <<"rcx">>), Mov("rax", "rcx"), Jmp("stored"),
          Label("failed"), Imm("rax", -1), Label("stored"), Put(d, "rax")>>

BuildNumber(abi, d) == Os(abi, <<Const("rax", "KUSER_SHARED_DATA"), Ld("rax", "rax", 0)>>, <<Zero("rax")>>) \o <<Put(d, "rax")>>

ProductInfo(abi, d) ==
  Os(abi, <<SubI("rsp", 48), StI("rsp", 40, 0), Lea("rax", "rsp", 40), St("rsp", 32, "rax"), Imm("rcx", 10), Zero("rdx"),
            Zero("r8"), Zero("r9"), Call("GetProductInfo"), Test("rax"), J("je", "no_info"), Ld("rax", "rsp", 40), Jmp("info"),
            Label("no_info"), Zero("rax"), Label("info"), AddI("rsp", 48)>>, <<Zero("rax")>>) \o <<Put(d, "rax")>>

RandomFill(abi, d) ==
  Os(abi, <<Zero("rcx"), Get("rdx", d), Imm("r8", 8), Imm("r9", 2), Call("BCryptGenRandom")>>,
          <<Get("rdi", d), Imm("rsi", 8), Zero("rdx")>> \o Sys(318))
RandomOp(abi, d) == RandomFill(abi, d) \o <<Fn(Os(abi, "is_0", "is_8"), "rax", "rax"), Put(d, "rax")>>
RandomFloat(abi, d) ==
  RandomFill(abi, d) \o <<CmpI("rax", Os(abi, 0, 8)), J("jne", "failure"), Get("r8", d), Ld("rax", "r8", 0),
    OpI("shr", "rax", 11), Fn("cvtsi2sd", "xmm0", "rax"), Const("r10", "2^53"), Mov("xmm1", "r10"), Op("divsd", "xmm0", "xmm1"),
    St("r8", 0, "xmm0"), Imm("rax", 1), Jmp("random_done"), Label("failure"), Zero("rax"), Label("random_done"), Put(d, "rax")>>

-----------------------------------------------------------------------------
(***************************************************************************)
(* Child processes: starting one, with a pipe over which it reports that   *)
(* it could not run the program, and waiting for it, polling, terminating  *)
(* and closing it.  System calls are retried when a signal interrupts them *)
(* (EINTR, 4).                                                             *)
(***************************************************************************)
Interrupted(retry) == <<CmpI("rax", -4), J("je", retry)>>
Close(fd) == <<Ld("rdi", "rsp", fd)>> \o Sys(3)
Wait4(status, flags) == <<Lea("rsi", "rsp", status), flags, Zero("r10")>> \o Sys(61)

\* The words at rsp: the pipe's ends at 0 and 4, the child's error at 8, the
\* size of the argument vector at 16, the child at 24, where to report an
\* error at 32, whether the vector is mapped at 48, the result at 56.
SpawnPrepare(d) ==
  <<Push("rbx"), Push("r12"), Push("r13"), Push("r14"), Push("r15"), SubI("rsp", 64)>>
  \o Gets(<<"r12", "r13", "r14", "rbx", "rax">>, d)
  \o <<St("rsp", 32, "rax"), StI("rsp", 48, 0), Zero("r15"), StI("rbx", 0, 0), StI("rax", 0, 0),
       Sym("rax", "envp"), CmpM("rax", 0, 0), J("je", "no_environment"),
       Mov("rax", "r14"), AddI("rax", 2), J("jc", "allocation_failed"), Mov("rcx", "rax"), OpI("shr", "rcx", 61),
       Test("rcx"), J("jne", "allocation_failed"), OpI("shl", "rax", 3), St("rsp", 16, "rax"),
       Zero("rdi"), Mov("rsi", "rax"), Imm("rdx", 3), Imm("r10", 34), Imm("r8", -1), Zero("r9")>> \o Sys(9)
  \o <<Test("rax"), J("js", "mmap_failed"), Mov("r15", "rax"), StI("rsp", 48, 1)>>
SpawnArgs ==
  <<St("r15", 0, "r12"), Zero("rcx"), Label("copy_args"), Cmp("rcx", "r14"), J("jae", "copied_args"),
    LdX("rax", "r13", "rcx"), LeaX("r9", "r15", "rcx", 8), St("r9", 0, "rax"), AddI("rcx", 1), Jmp("copy_args"),
    Label("copied_args"), LeaX("r9", "r15", "r14", 8), StI("r9", 0, 0)>>
SpawnFork ==
  <<Mov("rdi", "rsp"), Const("rsi", "O_CLOEXEC")>> \o Sys(293) \o <<Test("rax"), J("js", "pipe_failed")>>
  \o Sys(57) \o <<Test("rax"), J("js", "fork_failed"), J("je", "child")>>

\* The parent closes the writing end: the end of the pipe means the program runs.
SpawnParent ==
  <<St("rsp", 24, "rax")>> \o Close(4)
  \o <<Label("retry_read"), Ld("rdi", "rsp", 0), Lea("rsi", "rsp", 8), Imm("rdx", 4)>> \o Sys(0) \o Interrupted("retry_read")
  \o <<Test("rax"), J("js", "read_failed"), J("je", "success"), CmpI("rax", 4), J("jne", "protocol_failed"), Jmp("exec_failed")>>
SpawnChild ==
  <<Label("child")>> \o Close(0) \o <<Sym("rax", "envp"), Ld("rdx", "rax", 0), Mov("rdi", "r12"), Mov("rsi", "r15")>> \o Sys(59)
  \o <<Fn("neg", "rax", "rax"), St("rsp", 8, "rax"), Label("retry_write"), Ld("rdi", "rsp", 4), Lea("rsi", "rsp", 8), Imm("rdx", 4)>>
  \o Sys(1) \o Interrupted("retry_write") \o <<Imm("rdi", 127)>> \o Sys(231)

Reap == <<Ld("rdi", "rsp", 24)>> \o Wait4(4, Zero("rdx"))
SpawnSuccess ==
  <<Label("success")>> \o Close(0)
  \o <<Ld("rax", "rsp", 24), St("rbx", 0, "rax"), Ld("rcx", "rsp", 32), StI("rcx", 0, 0), Zero("rax"), Jmp("finished")>>
SpawnReap ==
  <<Label("exec_failed")>> \o Close(0) \o Reap
  \o <<CmpI("rax", -4), J("je", "reap_again"), Ld("rax", "rsp", 8), Jmp("failed"), Label("reap_again")>> \o Reap
  \o Interrupted("reap_again") \o <<Ld("rax", "rsp", 8), Jmp("failed"),
       Label("read_failed"), Fn("neg", "rax", "rax"), St("rsp", 8, "rax"), Jmp("cleanup"),
       Label("protocol_failed"), StI("rsp", 8, 5), Label("cleanup")>> \o Close(0)
  \o <<Ld("rdi", "rsp", 24), Imm("rsi", 9)>> \o Sys(62) \o <<Label("reap_after_read")>> \o Reap \o Interrupted("reap_after_read")
  \o <<Ld("rax", "rsp", 8), Jmp("failed")>>
\* Mutant: a failed fork leaves the pipe open.
CloseNone == <<>>
CloseBoth == Close(0) \o Close(4)
SpawnFailures ==
  <<Label("no_environment"), Imm("rax", 38), Jmp("failed"), Label("allocation_failed"), Imm("rax", 7), Jmp("failed"),
    Label("mmap_failed"), Fn("neg", "rax", "rax"), Jmp("failed"), Label("pipe_failed"), Fn("neg", "rax", "rax"), Jmp("failed"),
    Label("fork_failed"), Fn("neg", "rax", "rax"), St("rsp", 8, "rax")>> \o CloseBoth
  \o <<Ld("rax", "rsp", 8), Label("failed"), Ld("rcx", "rsp", 32), St("rcx", 0, "rax"), Imm("rax", -1)>>
SpawnRelease(d) ==
  <<Label("finished"), St("rsp", 56, "rax"), CmpM("rsp", 48, 0), J("je", "unmapped"), Mov("rdi", "r15"), Ld("rsi", "rsp", 16)>>
  \o Sys(11) \o <<Label("unmapped"), Ld("rax", "rsp", 56), AddI("rsp", 64), Put(d, "rax"),
                  Pop("r15"), Pop("r14"), Pop("r13"), Pop("r12"), Pop("rbx")>>

ProcessSpawn(d) ==
  SpawnPrepare(d) \o SpawnArgs \o SpawnFork \o SpawnParent \o SpawnChild \o SpawnSuccess \o SpawnReap \o SpawnFailures \o SpawnRelease(d)
-----------------------------------------------------------------------------
Succeed(l) == <<Zero("rax"), Jmp(l)>>
\* The error at [rbx] and -1.
Report(abi) == <<Label("failed")>> \o Os(abi, <<Call("GetLastError")>>, <<Fn("neg", "rax", "rax")>>)
               \o <<St("rbx", 0, "rax"), Imm("rax", -1), Label("finished")>>
WindowsWait(ms) == <<Mov("rcx", "r12"), Imm("rdx", ms), Call("WaitForSingleObject")>>
WindowsKill == <<Mov("rcx", "r12"), Imm("rdx", 1), Call("TerminateProcess"), Test("rax"), J("je", "failed")>>
\* Its exit code, and the handle is given up.
WindowsExit == <<Mov("rcx", "r12"), Lea("rdx", "rsp", 32), Call("GetExitCodeProcess"), Test("rax"), J("je", "failed"),
                 Mov("rcx", "r12"), Call("CloseHandle"), Test("rax"), J("je", "failed")>>
Poll(retry, flags) == <<Label(retry), Mov("rdi", "r12")>> \o Wait4(0, flags) \o Interrupted(retry)
NoHang == Imm("rdx", 1)
Kill == <<Mov("rdi", "r12"), Imm("rsi", 9)>> \o Sys(62) \o <<Test("rax"), J("js", "failed")>>
\* The status word: how the child ended to [kind], the code or signal to [value].
Decode(kind, value) ==
  <<Ld("rax", "rsp", 0), Fn("signal", "rcx", "rax"), Test("rcx"), J("jne", "signaled"), Fn("exit_code", "rax", "rax"),
    StI(kind, 0, 0), St(value, 0, "rax"), Zero("rax"), Jmp("finished"),
    Label("signaled"), StI(kind, 0, 1), St(value, 0, "rcx"), Zero("rax"), Jmp("finished")>>

ProcessWait(abi, d) ==
  PushAll(<<"rbx", "r12", "r13", "r14">>) \o Gets(<<"r12", "r13", "r14", "rbx">>, d) \o Room(abi, 48, 16)
  \o <<Test("r12"), J("je", "no_handle")>>
  \o Os(abi, WindowsWait(-1) \o <<Test("rax"), J("jne", "failed")>> \o WindowsExit
             \o <<StI("r13", 0, 0), Ld("rax", "rsp", 32), St("r14", 0, "rax")>> \o Succeed("finished"),
             Poll("retry", Zero("rdx")) \o <<Test("rax"), J("js", "failed")>> \o Decode("r13", "r14"))
  \o <<Label("no_handle")>> \o Succeed("finished") \o Report(abi) \o GiveBack(abi, 48, 16)
  \o <<Put(d, "rax")>> \o PopAll(<<"rbx", "r12", "r13", "r14">>)

ProcessTryWait(abi, d) ==
  PushAll(<<"rbx", "r12", "r13", "r14", "r15">>) \o Gets(<<"r12", "r13", "r14", "r15", "rbx">>, d) \o Room(abi, 48, 16)
  \o <<Test("r12"), J("je", "live")>>
  \o Os(abi, WindowsWait(0) \o <<CmpI("rax", 258), J("je", "live"), Test("rax"), J("jne", "failed")>> \o WindowsExit
             \o <<StI("r13", 0, 1), StI("r14", 0, 0), Ld("rax", "rsp", 32), St("r15", 0, "rax")>> \o Succeed("finished"),
             Poll("retry", NoHang) \o <<Test("rax"), J("je", "live"), J("js", "failed")>>
             \o <<StI("r13", 0, 1)>> \o Decode("r14", "r15"))
  \o <<Label("live"), StI("r13", 0, 0)>> \o Succeed("finished") \o Report(abi) \o GiveBack(abi, 48, 16)
  \o <<Put(d, "rax")>> \o PopAll(<<"rbx", "r12", "r13", "r14", "r15">>)

\* Terminating does not consume the handle.  On Windows the room for callees
\* is given back before GetLastError is called.
ProcessTerminate(abi, d) ==
  PushAll(<<"rbx", "r12">>) \o Gets(<<"r12", "rbx">>, d) \o <<Test("r12"), J("je", "no_handle")>>
  \o Os(abi, <<SubI("rsp", 32), Mov("rcx", "r12"), Imm("rdx", 1), Call("TerminateProcess"), AddI("rsp", 32),
               Test("rax"), J("je", "failed")>>, Kill)
  \o Succeed("finished") \o <<Label("no_handle")>> \o Succeed("finished") \o Report(abi)
  \o <<Put(d, "rax")>> \o PopAll(<<"rbx", "r12">>)

\* Mutant: the killed child stays a zombie.
KillOnly == Kill
KillAndReap == Kill \o Poll("reap", Zero("rdx")) \o <<Test("rax"), J("js", "failed")>>
\* A live child is killed and reaped, a dead one reaped.
ProcessClose(abi, d) ==
  PushAll(<<"rbx", "r12">>) \o Gets(<<"r12", "rbx">>, d) \o Room(abi, 32, 16) \o <<Test("r12"), J("je", "no_handle")>>
  \o Os(abi, WindowsWait(0) \o <<CmpI("rax", 258), J("je", "terminate"), Test("rax"), J("jne", "failed"), Jmp("wait"),
                                 Label("terminate")>> \o WindowsKill \o <<Label("wait")>>
             \o WindowsWait(-1) \o <<Test("rax"), J("jne", "failed"), Mov("rcx", "r12"), Call("CloseHandle"),
                                     Test("rax"), J("je", "failed")>>,
             Poll("probe", NoHang) \o <<Test("rax"), J("js", "failed"), J("je", "terminate")>> \o Succeed("finished")
             \o <<Label("terminate")>> \o KillAndReap)
  \o Succeed("finished") \o <<Label("no_handle")>> \o Succeed("finished") \o Report(abi) \o GiveBack(abi, 32, 16)
  \o <<Put(d, "rax")>> \o PopAll(<<"rbx", "r12">>)
=============================================================================
