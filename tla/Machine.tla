------------------------------ MODULE Machine -------------------------------
(***************************************************************************)
(* Execution of the routines of module Routines, one instruction a step:   *)
(* what they leave in slots, registers and memory, what they ask of the    *)
(* outside, and whether they keep to the conventions.                      *)
(***************************************************************************)
EXTENDS Routines

-----------------------------------------------------------------------------
(* What the compiled code calls: functions of C and of Windows, as far as    *)
(* the code that calls them tells, and the kernel of Linux.  A callee may    *)
(* change what its convention lets it change; it returns one of a few        *)
(* results and writes where its pointer arguments lead.                      *)
Arity ==
  [GetStdHandle |-> 1, WriteFile |-> 5, ReadFile |-> 5, AddVectoredExceptionHandler |-> 2, GetEnvironmentVariableA |-> 3,
   GetCommandLineW |-> 0, CommandLineToArgvW |-> 2, GetProcessHeap |-> 0, HeapAlloc |-> 3, HeapFree |-> 3, HeapReAlloc |-> 4,
   WideCharToMultiByte |-> 8, LocalFree |-> 1, ExitProcess |-> 1, Sleep |-> 1, CreateThread |-> 6, WaitForSingleObject |-> 2,
   CloseHandle |-> 1, bind |-> 3, connect |-> 3, inet_pton |-> 3, WSAGetLastError |-> 0, GlobalMemoryStatusEx |-> 1,
   GetComputerNameA |-> 2, GetProductInfo |-> 5, BCryptGenRandom |-> 4, GetExitCodeProcess |-> 2, TerminateProcess |-> 2,
   GetLastError |-> 0, getenv |-> 1, main |-> 0, malloc |-> 1, free |-> 1, calloc |-> 2, realloc |-> 2, memset |-> 3,
   memmove |-> 3, memcmp |-> 3, atoll |-> 1, strtod |-> 2, pthread_create |-> 4, pthread_join |-> 2, pow |-> 0,
   runtime7 |-> 7, __quazi_print_backtrace |-> 0]

Allocators == {"malloc", "calloc", "HeapAlloc"}
Allocated(m) == Cardinality({k \in DOMAIN m.out : m.out[k][1] \in Allocators \/ m.out[k][1] = "sys9"})
Fresh(m) == At(<<"h1", "h2", "h3", "h4", "h5">>[Allocated(m) + 1], 0)

\* Results that the callers tell apart; other results are terms.
Results(f, args, m, mayFail) ==
  CASE f \in Allocators -> {Fresh(m)} \cup (IF mayFail THEN {Num(0)} ELSE {})
    [] f \in {"WriteFile", "ReadFile", "GetEnvironmentVariableA", "GlobalMemoryStatusEx", "GetComputerNameA",
              "GetProductInfo", "BCryptGenRandom", "GetExitCodeProcess", "TerminateProcess", "CloseHandle"} -> {Num(0), Num(1)}
    [] f = "WaitForSingleObject" -> {Num(0), Num(-1)} \cup (IF args[2] = Num(0) THEN {Num(258)} ELSE {})
    [] f \in {"bind", "connect"} -> {Num(0), Num(-1)}
    [] f = "pthread_create" -> {Num(0), Num(11)}
    [] f = "CommandLineToArgvW" -> {At("argvw", 0), Num(0)}
    [] f \in {"GetLastError", "WSAGetLastError"} -> {Num(5)}
    [] OTHER -> {<<f, args>>}

\* Offsets from the k-th argument at which a callee writes.
Written ==
  [WriteFile |-> <<4, <<0>>>>, ReadFile |-> <<4, <<0>>>>, GetEnvironmentVariableA |-> <<2, <<0>>>>,
   CommandLineToArgvW |-> <<2, <<0>>>>, GlobalMemoryStatusEx |-> <<1, <<8, 16>>>>, GetComputerNameA |-> <<2, <<0>>>>,
   GetProductInfo |-> <<5, <<0>>>>, BCryptGenRandom |-> <<2, <<0>>>>, GetExitCodeProcess |-> <<2, <<0>>>>,
   pthread_create |-> <<1, <<0>>>>, inet_pton |-> <<3, <<0>>>>]
WideChars == 2
Writes(f, args) ==
  IF f = "WideCharToMultiByte" /\ IsAt(args[5]) THEN (<<args[5][2], args[5][3]>> :> <<"utf8", args[3]>>)
  ELSE IF f \notin DOMAIN Written THEN <<>>
  ELSE LET a == args[Written[f][1]]  os == Written[f][2]
           value == IF f = "CommandLineToArgvW" THEN Num(WideChars) ELSE <<"written", f>>
       IN IF IsAt(a) THEN [k \in {<<a[2], a[3] + os[i]>> : i \in DOMAIN os} |-> value] ELSE <<>>

\* Functions that return one value of C in other registers.
Returned(m, f, args, v) ==
  [m EXCEPT !.reg = [@ EXCEPT !["rax"] = v, !["xmm0"] = <<f, args>>], !.out = Append(@, <<f, args, v>>)]
Stops(f) == f = "ExitProcess"
-----------------------------------------------------------------------------
\* System calls, by number.  A pipe has two ends, a process one child.
ReadEnd  == <<"fd", "read">>
WriteEnd == <<"fd", "write">>
Child    == Num(77)
Environ  == Num(3)
\* A signal interrupts a routine this often at most.
MaxInterruptions == 1
Signal(m) == IF Cardinality({k \in DOMAIN m.out : m.out[k][3] = Num(-4)}) < MaxInterruptions THEN {Num(-4)} ELSE {}
Reaped(m) == \E k \in DOMAIN m.out : m.out[k][1] = "sys61" /\ m.out[k][3] = Child

SyscallName == (0 :> "sys0" @@ 1 :> "sys1" @@ 2 :> "sys2" @@ 3 :> "sys3" @@ 9 :> "sys9" @@ 11 :> "sys11" @@ 13 :> "sys13"
  @@ 15 :> "sys15" @@ 35 :> "sys35" @@ 42 :> "sys42" @@ 49 :> "sys49" @@ 57 :> "sys57" @@ 59 :> "sys59" @@ 60 :> "sys60"
  @@ 61 :> "sys61" @@ 62 :> "sys62" @@ 63 :> "sys63" @@ 99 :> "sys99" @@ 231 :> "sys231" @@ 293 :> "sys293" @@ 318 :> "sys318")

SyscallOf(v) == IF IsNum(v) /\ v[2] \in DOMAIN SyscallName THEN SyscallName[v[2]] ELSE "unknown"

SyscallResults(n, args, m) ==
  CASE n = "sys0" -> IF args[1] = ReadEnd THEN {Num(0), Num(4), Num(2), Num(-9)} \cup Signal(m)
                     ELSE IF args[1] = Environ THEN {Num(0), Num(13), Num(20)}
                     ELSE IF IsNum(args[1]) THEN {Num(-9)} ELSE {<<n, args>>}
    [] n = "sys1" -> IF args[1] = WriteEnd THEN {Num(4)} \cup Signal(m) ELSE {<<n, args>>}
    [] n = "sys2" -> {Environ, Num(-2)}
    [] n = "sys9" -> IF args[2] = Num(0) THEN {Num(-22)} ELSE {Fresh(m), Num(-12)}
    [] n \in {"sys3", "sys11", "sys13", "sys35"} -> {Num(0)}
    [] n \in {"sys42", "sys49"} -> {Num(0), Num(-98)}
    [] n = "sys57" -> {Child, Num(0), Num(-11)}
    [] n = "sys59" -> {Num(-2)}
    [] n = "sys61" -> IF Reaped(m) THEN {Num(-10)}
                      ELSE {Child} \cup Signal(m) \cup (IF args[3] = Num(1) THEN {Num(0)} ELSE {})
    [] n = "sys62" -> IF Reaped(m) THEN {Num(-3)} ELSE {Num(0), Num(-1)}
    [] n \in {"sys63", "sys99"} -> {Num(0), Num(-14)}
    [] n = "sys293" -> {Num(0), Num(-24)}
    [] n = "sys318" -> {Num(8), Num(-4)}
    [] OTHER -> {Num(-38)}

Fill(a, os, v(_)) == IF IsAt(a) THEN [k \in {<<a[2], a[3] + o>> : o \in os} |-> v(k[2] - a[3])] ELSE <<>>
SyscallWrites(n, args, result) ==
  CASE n = "sys0" /\ result \in {Num(4), Num(2)} -> Fill(args[2], {0}, LAMBDA o : Num(2))
    [] n = "sys0" /\ result \in {Num(13), Num(20)} -> Fill(args[2], 0..(result[2] - 1), LAMBDA o : <<"environ", o>>)
    [] n = "sys61" /\ result = Child -> Fill(args[2], {0}, LAMBDA o : <<"status">>)
    [] n = "sys63" /\ result = Num(0) -> Fill(args[1], {65, 66, 67}, LAMBDA o : IF o = 67 THEN Num(0) ELSE Num(o + 32))
    [] n = "sys99" /\ result = Num(0) -> Fill(args[1], {32, 40, 104}, LAMBDA o : <<"sysinfo", o>>)
    [] n = "sys293" /\ result = Num(0) -> Fill(args[1], {0, 4}, LAMBDA o : IF o = 0 THEN ReadEnd ELSE WriteEnd)
    [] n = "sys318" /\ result = Num(8) -> Fill(args[1], {0}, LAMBDA o : <<"random">>)
    [] OTHER -> <<>>

\* exit, exit_group and rt_sigreturn do not return, nor an execve that succeeds.
SyscallStops(n) == n \in {"sys60", "sys231", "sys15"}

-----------------------------------------------------------------------------

CONSTANTS Jobs,           \* the routines to execute
          Starts(_),      \* what slots, registers and memory may hold before a job
          Excused         \* check, convention and name of the routines known to fail it

VARIABLES job,    \* the routine
          begin,  \* the machine before it
          code,   \* its instructions
          m,      \* the machine
          pc      \* the next instruction, 0 at the end
vars == <<job, begin, code, m, pc>>

Abi == job[2]
Kind == job[1]
Name == job[3]
Instr == code[pc]
Running == pc > 0

\* A function is entered by a call, which leaves its stack pointer 8 off a
\* multiple of 16; the kernel starts a process with it on a multiple.
InFrame(j) == j[1] \in {"op", "intrinsic", "string", "number", "branch", "quazi", "foreign"}
FromKernel(j) == j[1] = "start" /\ j[3] \in {"linux", "linux_minimal"}
Aligned(j, sp) == (IF FromKernel(j) THEN sp ELSE sp + 8) % 16 = 0

Foreign(j) == IF j[1] = "foreign" THEN Signatures[j[3]].ret ELSE Void
SlotAddress(n) == <<"stack", -8 + Slot(n)>>
SlotIs(mm, n) == mm.mem[SlotAddress(n)]

\* The machine when the job begins: in its frame, or on entry.
Machine(j, s) ==
  LET slots == s.slots @@ [n \in 0..(FrameSlots - 1) |-> <<"slot", n>>]
      frame == [a \in {SlotAddress(n) : n \in DOMAIN slots} |->
                  slots[CHOOSE n \in DOMAIN slots : SlotAddress(n) = a]]
      saved == (<<"stack", -8>> :> Old("rbp"))
      regs == [r \in Register |-> IF r \in DOMAIN s.regs THEN s.regs[r]
                 ELSE IF InFrame(j) /\ r = "rbp" THEN At("stack", -8)
                 ELSE IF r = "rsp" THEN At("stack", IF InFrame(j) THEN -8 - FrameOf(j[2], Foreign(j)).size ELSE 0)
                 ELSE Old(r)]
  IN [reg |-> regs, mem |-> IF InFrame(j) THEN s.mem @@ frame @@ saved ELSE s.mem,
      flag |-> Compare(Junk, Junk), out |-> <<>>, down |-> FALSE]

Init == /\ job \in Jobs
        /\ begin \in {Machine(job, s) : s \in Starts(job)}
        /\ code = CodeOf(job)
        /\ m = begin
        /\ pc = 1
-----------------------------------------------------------------------------
Faulted(mm) == mm.out # <<>> /\ mm.out[Len(mm.out)] = Fault

Compute ==
  /\ Running /\ Instr[1] \in Computing
  /\ m' \in Computed(m, Instr)
  /\ pc' = IF Faulted(m') THEN 0 ELSE pc + 1
  /\ UNCHANGED <<job, begin, code>>

Branch ==
  /\ Running /\ Instr[1] \in {"jmp", "j"}
  /\ \E taken \in (IF Instr[1] = "jmp" THEN {TRUE} ELSE Taken(m, Instr[2])) :
       pc' = IF taken THEN Target(code, Instr[Len(Instr)]) ELSE pc + 1
  /\ UNCHANGED <<job, begin, code, m>>

Inside(f) == \E k \in 1..Len(code) : code[k] = Label(f)
Callee == IF Instr[1] = "callr" THEN m.reg[Instr[2]][2] ELSE Instr[2]
IsCall == Running /\ Instr[1] \in {"call", "callr"}

CallInside ==
  /\ IsCall /\ Inside(Callee)
  /\ LET sp == Value("sub", m.reg["rsp"], Num(8))
     IN m' = Set(Write(m, sp, <<"return", pc>>), "rsp", sp)
  /\ pc' = Target(code, Callee)
  /\ UNCHANGED <<job, begin, code>>

Given(f) == [i \in 1..Arity[f] |-> Argument(m, Abi, i)]
CallOutside ==
  /\ IsCall /\ ~Inside(Callee)
  /\ \E v \in (IF Kind = "start" /\ Callee = "WriteFile" THEN {Num(1)}     \* nobody looks at it there
               ELSE Results(Callee, Given(Callee), m, Kind = "start" \/ Name = "spawn")) :
       LET args == Given(Callee)
           after == Returned(Clobber(m, Abi), Callee, args, v)
       IN m' = [after EXCEPT !.mem = Writes(Callee, args) @@ @]
  /\ pc' = IF Stops(Callee) THEN 0 ELSE pc + 1
  /\ UNCHANGED <<job, begin, code>>

\* The kernel keeps all registers but rax, rcx and r11.
Kernel ==
  /\ Running /\ Instr = Syscall
  /\ LET n == SyscallOf(m.reg["rax"])
         args == [i \in 1..6 |-> m.reg[SyscallArgs[i]]]
     IN \/ \E v \in SyscallResults(n, args, m) :
             /\ m' = [m EXCEPT !.reg = [@ EXCEPT !["rax"] = v, !["rcx"] = Junk, !["r11"] = Junk],
                               !.mem = SyscallWrites(n, args, v) @@ @, !.out = Append(@, <<n, args, v>>)]
             /\ pc' = IF SyscallStops(n) THEN 0 ELSE pc + 1
        \/ /\ n = "sys59"
           /\ m' = [m EXCEPT !.out = Append(@, <<n, args, Num(0)>>)]
           /\ pc' = 0
  /\ UNCHANGED <<job, begin, code>>

\* After a call inside only results and what a callee preserves can be relied on.
Results2 == {"rax", "rdx", "xmm0", "xmm1"}
Return ==
  /\ Running /\ Instr = Ret
  /\ LET to == Read(m, m.reg["rsp"])
         popped == Set(m, "rsp", Value("add", m.reg["rsp"], Num(8)))
     IN IF to[1] = "return"
        THEN /\ m' = [popped EXCEPT !.reg = [r \in Register |-> IF r \in Preserved(Abi) \cup Results2 THEN @[r] ELSE Junk],
                                    !.mem = [k \in {k \in DOMAIN @ : k[1] = "stack" => k[2] >= Sp(popped) + ShadowBytes(Abi)} |-> @[k]]]
             /\ pc' = to[2] + 1
        ELSE m' = popped /\ pc' = 0
  /\ UNCHANGED <<job, begin, code>>

Finished == pc = 0 /\ UNCHANGED vars

Next == Compute \/ Branch \/ CallInside \/ CallOutside \/ Kernel \/ Return \/ Finished
Spec == Init /\ [][Next]_vars
-----------------------------------------------------------------------------
Except(check) == <<check, Abi, Name>> \notin Excused

\* A call finds the stack aligned, every argument defined, and no pointer to
\* memory that the callee may overwrite.
CallsObeyConvention ==
  (IsCall /\ Except("calls") /\ (Inside(Callee) \/ Callee \in DOMAIN Arity)) =>
     /\ Aligned(job, Sp(m))
     /\ ~Inside(Callee) => \A i \in 1..Arity[Callee] :
          LET v == Argument(m, Abi, i)
          IN v # Junk /\ ~(IsAt(v) /\ v[2] = "stack" /\ v[3] < Sp(m) + ShadowBytes(Abi))

\* No instruction reads what a call or a system call has overwritten, or memory
\* below the stack pointer.
NothingStaleIsRead ==
  (Running /\ Except("stale") /\ Instr[1] \notin {"push", "pop"}) =>
     /\ \A r \in Uses(Instr) : m.reg[r] # Junk
     /\ \A a \in Loads(m, Instr) : Read(m, a) # Junk /\ a # Junk

Returned2 == pc = 0 /\ (m.out = <<>> \/ ~(m.out[Len(m.out)][1] \in {"ExitProcess", "fault", "sys59", "sys60", "sys231", "sys15"}))

\* When a routine returns its caller finds the stack, the registers it relies
\* on, the direction flag, and its own memory as they were.
CallerStateKept ==
  (Returned2 /\ Except("kept")) =>
     /\ ~m.down
     /\ \A r \in Preserved(Abi) \ {"rsp"} : m.reg[r] = IF InFrame(job) /\ r = "rbp" THEN Old(r) ELSE begin.reg[r]
     /\ m.reg["rsp"] = At("stack", 8)
     /\ \A k \in DOMAIN m.mem : (k[1] = "stack" /\ k[2] >= 8 + ShadowBytes(Abi)) => k \in DOMAIN begin.mem /\ m.mem[k] = begin.mem[k]

\* Both sides of a call keep to the convention of the target.
ConventionIsKept == CallsObeyConvention /\ CallerStateKept
=============================================================================
