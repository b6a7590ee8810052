------------------------------ MODULE Meaning -------------------------------
(***************************************************************************)
(* What the routines are for: the meaning of an opcode, of a call, of a    *)
(* runtime routine, of a number's text and of a process handle, against    *)
(* which their machine code is checked.                                    *)
(***************************************************************************)
EXTENDS Machine

Before(n) == SlotIs(begin, n)
After(n) == SlotIs(m, n)
Done == pc = 0
Bit(b) == Num(IF b THEN 1 ELSE 0)
\* The results of the calls of f, and their arguments.
CallsOf(f) == {k \in DOMAIN m.out : m.out[k][1] = f}
-----------------------------------------------------------------------------
\* Division of words, unsigned or towards zero; the result fits or wraps.
Quotient(x, y, signed) == IF signed THEN Num(Truncated(Signed(x[2]), Signed(y[2]))) ELSE Num(x[2] \div y[2])
Remainder(x, y, signed) ==
  IF signed THEN Num(Signed(x[2]) - Signed(y[2]) * Truncated(Signed(x[2]), Signed(y[2]))) ELSE Num(x[2] % y[2])

OpcodeValue(f, d, a, b) ==
  LET x == Before(a)  y == Before(b)
      At2(v, o) == Value("add", v, Num(8 * o))
  IN CASE f \in {"add", "sub", "mul", "and", "or", "xor", "shl", "shr", "sar", "addsd", "subsd", "mulsd", "divsd"} -> Value(f, x, y)
       [] f \in {"neg", "not"} -> Applied(f, x)
       [] f = "fneg" -> Value("xor", x, <<"const", "sign_bit">>)
       [] f = "move" -> x
       [] f \in {"div", "divu"} -> Quotient(x, y, f = "div")
       [] f \in {"mod", "modu"} -> Remainder(x, y, f = "mod")
       [] f = "lea" -> At("stack", SlotAddress(a)[2] + 8 * b)
       [] f \in {"load", "get", "vtbl"} -> Read(begin, At2(x, b))
       [] f \in {"loadf", "getf"} -> Applied("cvtss2sd", Read(begin, At2(x, b)))
       [] f = "aload1" -> Read(begin, At2(x, y[2]))
       [] f = "pow" -> Applied("cvttsd2si", <<"pow", <<>>>>)

Divides(f) == f \in {"div", "divu", "mod", "modu"}
Stored(f) == f \in {"store", "storef", "put", "putf", "astore1", "astore2", "aload2"}
StoredValue(f, v) == IF f \in {"storef", "putf"} THEN Applied("cvtsd2ss", v) ELSE v

\* Every opcode leaves in its destination, or at its address, the value it
\* stands for, whatever its operands have in common, and no other slot changes;
\* a division faults only by zero.
OpcodesMean ==
  (Done /\ Kind = "op") =>
    LET f == Name  d == job[4]  a == job[5]  b == job[6]
    IN /\ \A n \in 0..(FrameSlots - 1) : (n # d \/ Stored(f)) => After(n) = (IF f = "aload2" /\ n \in {8, 9}
                                            THEN Read(begin, Value("add", Before(a), Num(16 * Before(b)[2] + 8 * (n - 8)))) ELSE Before(n))
       /\ Divides(f) => (Faulted(m) <=> Before(b) = Num(0))
       /\ ~Stored(f) /\ ~Faulted(m) => After(d) = OpcodeValue(f, d, a, b)
       /\ f \in {"store", "storef", "put", "putf"} =>
            Read(m, Value("add", Before(a), Num(8 * b))) = StoredValue(f, Before(d))
       /\ f = "astore1" => Read(m, Value("add", Before(a), Num(8 * Before(b)[2]))) = Before(d)
       /\ f = "astore2" => \A k \in 0..1 : Read(m, Value("add", Before(a), Num(16 * Before(b)[2] + 8 * k))) = Before(d + k)

\* The relation a branch asks for.
Holds(op, x, y, unsigned) ==
  LET u == IF unsigned THEN x[2] ELSE Signed(x[2])
      v == IF unsigned THEN y[2] ELSE Signed(y[2])
  IN CASE op \in {"Je"} -> u = v [] op = "Jne" -> u # v [] op = "Jg" -> u > v [] op = "Jge" -> u >= v
       [] op = "Jl" -> u < v [] op = "Jle" -> u <= v [] op = "Ja" -> x[2] > y[2] [] op = "Jb" -> x[2] < y[2]
       [] op = "Jz" -> x[2] = 0 [] op = "Jnz" -> x[2] # 0
FloatHolds(op, rel) ==
  CASE op = "Je" -> rel = "equal" [] op = "Jne" -> rel # "equal" [] op = "Jg" -> rel = "greater"
    [] op = "Jge" -> rel \in {"greater", "equal"} [] op = "Jl" -> rel = "less" [] op = "Jle" -> rel \in {"less", "equal"}
Opposite == [Jg |-> "Jle", Jge |-> "Jl", Jl |-> "Jge", Jle |-> "Jg", Je |-> "Jne", Jne |-> "Je"]

\* A jump is taken exactly when the comparison holds, signed or unsigned; of two
\* floats of which one is no number none holds, and the jump that skips a
\* condition's body, being the negation of it, is taken.
BranchesMeanComparison ==
  (Done /\ Kind = "branch") =>
    LET op == Name  float == job[4]  unsigned == job[5]  negated == job[6]
    IN m.reg["rax"] = Bit(IF ~float THEN Holds(op, Before(0), Before(1), unsigned)
                          ELSE IF negated THEN ~FloatHolds(Opposite[op], m.flag.rel)
                          ELSE FloatHolds(op, m.flag.rel))
-----------------------------------------------------------------------------
\* Inside a callee: its slots lie below its own frame pointer.
CalleeSlot(n) == Read(m, Value("add", m.reg["rbp"], Num(Slot(n))))
InBody == Running /\ Kind \in {"quazi", "foreign"} /\ Instr = Label("body")
Passed(ty, v) == IF ty.kind = "f32" THEN Applied("cvtss2sd", Applied("cvtsd2ss", v)) ELSE v
SameContents(ty, from, to) ==
  IsAt(to) /\ \A k \in DOMAIN CopyUnits(ty.size) :
    Read(m, Value("add", to, Num(CopyUnits(ty.size)[k]))) = Read(begin, Value("add", from, Num(CopyUnits(ty.size)[k])))

\* At the body of a function each parameter's slot holds the caller's argument,
\* and an aggregate is a copy of its own, for every number and mix of
\* parameters in registers and on the stack.
ParametersArrive ==
  InBody =>
    IF Kind = "quazi" THEN \A i \in 0..(job[4] - 1) : CalleeSlot(i) = Before(i + 1)
    ELSE LET sig == Signatures[Name]
         IN \A i \in DOMAIN sig.params :
              IF IsAggregate(sig.params[i])
              THEN SameContents(sig.params[i], Before(i), CalleeSlot(i - 1)) /\ CalleeSlot(i - 1) # Before(i)
              ELSE CalleeSlot(i - 1) = Passed(sig.params[i], Before(i))

\* The caller finds the value the callee returned: one word, the words of a
\* block in its own frame, or a new block that holds the aggregate.
ResultsReturn ==
  (Done /\ Kind \in {"quazi", "foreign"}) =>
    IF Kind = "quazi"
    THEN /\ job[5] = 1 => After(0) = Before(job[4])
         /\ job[5] = 2 => After(BlockSlot) = Before(2) /\ After(BlockSlot + 1) = Before(3)
         /\ \A n \in 1..(FrameSlots - 1) : (job[5] = 1 \/ n \notin {BlockSlot, BlockSlot + 1}) => After(n) = Before(n)
    ELSE LET sig == Signatures[Name]  n == Len(sig.params)  ty == sig.ret
         IN CASE IsAggregate(ty) -> IsAt(After(0)) /\ After(0)[2] = "h1" /\ SameContents(ty, Before(n), After(0))
              [] ty.kind = "void" -> After(0) = Num(0)
              [] ty.kind = "int" -> After(0) = IF ty.size < 8 THEN Applied("extend", Before(n)) ELSE Before(n)
              [] ty.kind = "f64" -> After(0) = Before(n)
              [] ty.kind = "f32" -> After(0) = Passed(ty, Passed(ty, Before(n)))
-----------------------------------------------------------------------------
\* main gets the number of arguments and their strings, or none of them, as long
\* as there is memory for them.
MainCalled == IsCall /\ Callee = "main"
MainArgs == m.reg[ArgRegs(Abi)[1]]
Word(a, o) == Read(m, Value("add", a, Num(o)))
MainGetsArguments ==
  (MainCalled /\ job[4] /\ \A f \in {"HeapAlloc", "malloc"} : \A k \in CallsOf(f) : m.out[k][3] # Num(0)) =>
    LET n == Word(MainArgs, 8)
    IN /\ IsNum(n) /\ Word(MainArgs, 16) = n
       /\ n[2] > 0 => \A i \in 0..(n[2] - 1) :
            Word(Word(MainArgs, 0), 8 * i) = (IF Abi = "win64" THEN m.out[CHOOSE k \in DOMAIN m.out :
                                             /\ m.out[k][1] = "HeapAlloc"
                                             /\ Cardinality({l \in CallsOf("HeapAlloc") : l < k}) = i + 1][3]
                                          ELSE Read(begin, At("stack", 8 + 8 * i)))
       /\ (Abi = "win64" /\ n[2] > 0) => \A i \in 0..(n[2] - 1) :
            Word(Word(Word(MainArgs, 0), 8 * i), 0) = <<"utf8", Read(begin, At("argvw", 8 * i))>>
       /\ Abi = "sysv" => n = Read(begin, At("stack", 0))
\* The environment of a Linux program is behind its arguments.
EnvironmentSaved ==
  (MainCalled /\ Abi = "sysv") => Read(m, At("envp", 0)) = At("stack", 16 + 8 * Read(begin, At("stack", 0))[2])
\* All four signals get the handler.
HandlersInstalled ==
  (MainCalled /\ Name = "linux") =>
    \A i \in DOMAIN Signals : \E k \in CallsOf("sys13") : m.out[k][2][1] = Num(Signals[i])
-----------------------------------------------------------------------------
\* Blocks of the heap, one mapping each.
Result == m.reg["rax"]
Mappings == {k \in CallsOf("sys9") : IsAt(m.out[k][3])}
Unmapped == [k \in CallsOf("sys11") |-> <<m.out[k][2][1], m.out[k][2][2]>>]
OldBlock == At("old", 16)
OldSize == Read(begin, At("old", 8))[2]
Least(a, b) == IF a < b THEN a ELSE b
\* The address of a new block for n bytes, in a mapping with room for them
\* behind its header.
IsBlock(a, n) ==
  /\ a = At("h1", 16) /\ Cardinality(Mappings) = 1
  /\ LET size == m.out[CHOOSE k \in Mappings : TRUE][2][2]
     IN size[2] >= n + 16 /\ Word(a, -16) = size /\ Word(a, -8) = Num(n)
  /\ \A k \in DOMAIN m.mem : k[1] = "h1" => k[2] < n + 16

Requested ==
  CASE Name = "malloc" -> begin.reg["rdi"][2]
    [] Name = "calloc" -> begin.reg["rdi"][2] * begin.reg["rsi"][2]
    [] Name = "realloc" -> begin.reg["rsi"][2]
\* An allocation gives a block of the size asked for (of one byte for none) or
\* nothing; the new block of realloc holds what both have room for and the old
\* one is unmapped exactly when its contents moved or nothing is asked for.
BlocksAreSound ==
  (Done /\ Kind = "runtime" /\ Name \in {"malloc", "calloc", "realloc", "free"}) =>
    LET moves == Name = "realloc" /\ begin.reg["rdi"] # Num(0)
        frees == (Name = "free" /\ begin.reg["rdi"] # Num(0)) \/ (moves /\ (Requested = 0 \/ Result # Num(0)))
    IN /\ IF Name = "free" \/ (moves /\ Requested = 0) THEN Result = Num(0) /\ Mappings = {}
          ELSE IF Result = Num(0) THEN Mappings = {} ELSE IsBlock(Result, AtLeast(Requested, 1))
       /\ Unmapped = IF frees THEN (CHOOSE k \in CallsOf("sys11") : TRUE) :> <<At("old", 0), Num(OldSize + 16)>> ELSE <<>>
       /\ (Name = "calloc" /\ Result # Num(0)) => \A k \in 0..(AtLeast(Requested, 1) - 1) : Word(Result, k) = Num(0)
       /\ (moves /\ Result # Num(0)) => \A k \in 0..(Least(OldSize, Requested) - 1) : Word(Result, k) = Read(begin, At("old", 16 + k))
-----------------------------------------------------------------------------
\* The text at an address: bytes up to a zero.
Longest == 24
TextIn(mm, a) ==
  LET Byte(k) == Read(mm, Value("add", a, Num(k)))
      n == CHOOSE k \in 0..Longest : Byte(k) = Num(0) /\ \A l \in 0..(k - 1) : Byte(l) # Num(0)
  IN [k \in 1..n |-> Byte(k - 1)[2]]
\* The sign of the first difference, as a word.
Sign(n) == IF n = 0 THEN 0 ELSE IF n < 0 THEN -1 ELSE 1
Order(s, t) ==
  LET At0(u, k) == IF k <= Len(u) THEN u[k] ELSE 0
      differ == {k \in 1..AtLeast(Len(s), Len(t)) : At0(s, k) # At0(t, k)}
  IN IF differ = {} THEN 0 ELSE LET k == CHOOSE k \in differ : \A l \in differ : k <= l IN Sign(At0(s, k) - At0(t, k))
Bytes(mm, a, n) == [k \in 1..n |-> Read(mm, Value("add", a, Num(k - 1)))]
Untouched(a, n) == \A k \in DOMAIN m.mem : (k[1] # "stack" /\ ~(k[1] = a[2] /\ k[2] \in a[3]..(a[3] + n - 1))) =>
                                            m.mem[k] = Read(begin, <<"at", k[1], k[2]>>)

\* What a routine of the runtime on bytes does: where it writes, how many, what.
Rdi == begin.reg["rdi"]
Rsi == begin.reg["rsi"]
Count3 == begin.reg["rdx"][2]
BytesWritten ==
  CASE Name \in {"memcpy", "memmove"} -> Bytes(begin, Rsi, Count3)
    [] Name = "memset" -> [k \in 1..Count3 |-> Rsi]
    [] Name = "strcpy" -> Bytes(begin, Rsi, Len(TextIn(begin, Rsi)) + 1)
    [] Name = "strcat" -> Bytes(begin, Rdi, Len(TextIn(begin, Rdi))) \o Bytes(begin, Rsi, Len(TextIn(begin, Rsi)) + 1)
    [] Name = "memcmp" -> <<>>
\* The memory routines of the runtime do what C asks of them, also on areas that
\* overlap, and write nothing else.
BytesMeanC ==
  (Done /\ Kind = "runtime" /\ Name \notin {"malloc", "calloc", "realloc", "free"}) =>
    /\ Bytes(m, Rdi, Len(BytesWritten)) = BytesWritten
    /\ Untouched(Rdi, Len(BytesWritten))
    /\ IF Name = "memcmp" THEN Sign(Signed(Result[2])) = Order([k \in 1..Count3 |-> Read(begin, Value("add", Rdi, Num(k - 1)))[2]],
                                                               [k \in 1..Count3 |-> Read(begin, Value("add", Rsi, Num(k - 1)))[2]])
       ELSE Result = Rdi

\* The environment of the program, and the value of a name in it.
Entries == {k \in 0..4 : \A l \in 0..k : Read(begin, At("env", 8 * l)) # Num(0)}
Named(e, name) == LET text == TextIn(begin, e) IN Len(text) > Len(name) /\ SubSeq(text, 1, Len(name) + 1) = Append(name, 61)
ValueOf(name) ==
  LET hits == {k \in Entries : Named(Read(begin, At("env", 8 * k)), name)}
  IN IF hits = {} THEN Num(0)
     ELSE Value("add", Read(begin, At("env", 8 * (CHOOSE k \in hits : \A l \in hits : k <= l))), Num(Len(name) + 1))

\* The strings of the language, inlined: what they return, and that a new
\* string fits in the block allocated for it.
StringsMeanText ==
  (Done /\ Kind = "string" /\ (Name # "getenv" \/ Abi = "sysv")) =>
    LET s == TextIn(begin, Before(0))
        t == TextIn(begin, Before(1))
        fresh == CallsOf("HeapAlloc") \cup CallsOf("malloc")
        room == LET c == m.out[CHOOSE k \in fresh : TRUE] IN c[2][Len(c[2])][2]
        New0(text) == /\ After(0) = At("h1", 0) /\ TextIn(m, After(0)) = text
                      /\ \A k \in DOMAIN m.mem : k[1] = "h1" => k[2] < room
    IN CASE Name = "strlen" -> After(0) = Num(Len(s))
         [] Name = "concat" -> New0(s \o t)
         [] Name = "strcmp" -> After(0) = Num(Order(s, t))
         [] Name = "count" -> After(0) = Num(Cardinality({k \in DOMAIN s : s[k] \notin 128..191}))
         [] Name = "byte_at" -> After(0) = Num(Append(s, 0)[Before(1)[2] + 1])
         [] Name = "from_byte" -> New0(IF Before(0) = Num(0) THEN <<>> ELSE <<Before(0)[2] % 256>>)
         [] Name = "memcpy" -> /\ After(0) = Before(0) /\ Untouched(Before(0), Before(2)[2])
                               /\ Bytes(m, Before(0), Before(2)[2]) = Bytes(begin, Before(1), Before(2)[2])
         [] Name = "getenv" -> After(0) = ValueOf(s)

\* The name of the host, as much as fits with its zero, in the buffer given.
HostnameFits ==
  (Done /\ Kind = "intrinsic" /\ Name = "hostname" /\ Abi = "sysv") =>
    LET size == Before(1)[2]
    IN /\ \A k \in DOMAIN m.mem : k[1] = "buf" => k[2] \in 0..(size - 1)
       /\ After(0) # Num(-1) => TextIn(m, Before(0)) = SubSeq(<<97, 98>>, 1, Least(2, size - 1)) /\ After(0) = Num(Least(2, size - 1))
       /\ size = 0 => After(0) = Num(-1)
-----------------------------------------------------------------------------
\* Numbers as text.
Digits(n, base) ==
  LET width == CHOOSE w \in 1..24 : (w = 1 \/ base^(w - 1) <= n) /\ n \div base^(w - 1) < base
      Digit(k) == (n \div base^(width - k)) % base
  IN [k \in 1..width |-> IF Digit(k) < 10 THEN 48 + Digit(k) ELSE 87 + Digit(k)]
Padded(n, width) == [k \in 1..(width - AtLeast(Len(Digits(n, 10)), 0)) |-> 48] \o Digits(n, 10)
Negative(b, text) == IF b THEN <<45>> \o text ELSE text
IntegerMeans(n, base, signed) ==
  IF signed /\ Signed(n) < 0 THEN Negative(TRUE, Digits(-Signed(n), base)) ELSE Digits(n, base)

\* A float rounded, half away from zero, to so many digits; with trailing zeros
\* of the fraction left out, and the point if nothing follows it.
Trimmed(text) ==
  LET last == CHOOSE k \in 1..Len(text) : text[k] # 48 /\ \A l \in (k + 1)..Len(text) : text[l] = 48
  IN SubSeq(text, 1, IF text[last] = 46 THEN last - 1 ELSE last)
FloatMeans(x, p, trim) ==
  LET size == IF x < 0 THEN -x ELSE x
      rounded == (2 * size * 10^p + FloatUnit) \div (2 * FloatUnit)
      text == Digits(rounded \div 10^p, 10) \o (IF p = 0 THEN <<>> ELSE <<46>> \o Padded(rounded % 10^p, p))
  IN Negative(x < 0, IF trim /\ p > 0 THEN Trimmed(text) ELSE text)

\* A number is printed as its digits, from the first to the last and no more,
\* for every sign, base, and place where rounding carries.
NumbersAreWritten ==
  (Done /\ Kind = "number") =>
    LET v == Before(0)  p == job[5]  flag == job[6]
        text == TextIn(m, After(0))
    IN /\ After(0)[2] = (IF Name \in {"int_heap", "float_heap"} THEN "h1" ELSE "buf")
       /\ Name \in {"int_heap", "integer", "float", "float_heap", "binary"} /\ v[1] \in {"int", "float"} =>
            text = CASE Name = "int_heap" -> IntegerMeans(v[2], 10, TRUE)
                     [] Name = "integer" -> IntegerMeans(v[2], p, flag)
                     [] Name \in {"float", "float_heap"} -> FloatMeans(v[2], p, flag)
                     [] Name = "binary" -> Digits(v[2], 2)
       /\ v[1] \in {"inf", "nan"} => \E k \in 0..1 : Word(After(0), k) = <<"const", v[1]>> /\ (k = 1 => Word(After(0), 0) = Num(45))
       /\ Name = "bool" => IF v = Num(0) THEN Word(After(0), 0) = <<"const", "fals">> /\ Word(After(0), 4) = Num(101) /\ Word(After(0), 5) = Num(0)
                           ELSE Word(After(0), 0) = <<"const", "true">> /\ Word(After(0), 4) = Num(0)
-----------------------------------------------------------------------------
\* Child processes.
Times(f, arg) == Cardinality({k \in CallsOf(f) : m.out[k][2][1] = arg})
Got(f, v) == \E k \in CallsOf(f) : m.out[k][3] = v
Waited == Got("sys61", Child)
InChild == Got("sys57", Num(0))

\* Whatever fails on the way, a parent that starts a process closes each end of
\* the pipe once and unmaps its argument vector once; it reports success for a
\* child that runs the program and has not been waited for, and an error for
\* none, having waited for a child that could not run it.
SpawnAccountsForChild ==
  (Done /\ Name = "process_spawn" /\ ~InChild) =>
    /\ \A e \in {ReadEnd, WriteEnd} : Times("sys3", e) = IF Got("sys293", Num(0)) THEN 1 ELSE 0
    /\ Times("sys11", At("h1", 0)) = Cardinality(Mappings)
    /\ After(0) = Num(0) => Word(Before(3), 0) = Child /\ Word(Before(4), 0) = Num(0) /\ ~Waited /\ ~Got("sys62", Num(0))
    /\ After(0) # Num(0) => After(0) = Num(-1) /\ Word(Before(4), 0) # Num(0) /\ Word(Before(3), 0) = Num(0)
                             /\ (Got("sys57", Child) => Waited)

\* A child waited for is waited for once; termination leaves that to a later
\* call, and closing a handle waits for it whether it was alive or not.
HandlesAreSettled ==
  (Done /\ Kind = "intrinsic" /\ Abi = "sysv" /\ Name \in {"process_wait", "process_try_wait", "process_terminate", "process_close"}) =>
    LET given == Before(0) # Num(0)  ok == After(0) = Num(0)
    IN /\ After(0) \in {Num(0), Num(-1)}
       /\ Name \in {"process_wait", "process_close"} => (Waited <=> ok /\ given)
       /\ Name = "process_try_wait" => (Waited <=> ok /\ Word(Before(1), 0) = Num(1))
       /\ Name = "process_terminate" => ~Waited
       /\ ~given => m.out = <<>>

\* A program sleeps as long as it asked for, in however many parts.
SleepsAsLong ==
  (Done /\ Kind = "intrinsic" /\ Name = "sleep_ms") =>
    LET n == Before(0)[2]
        total == FoldSet(LAMBDA k, t : t + m.out[k][2][1][2], 0, CallsOf("Sleep"))
        request == m.out[1][2][1]
    IN IF Abi = "win64" THEN total = n /\ \A k \in CallsOf("Sleep") : m.out[k][2][1][2] <= MaxSleep
       ELSE Word(request, 0) = Num(n \div 1000) /\ Word(request, 8) = Num((n % 1000) * 1000000)

\* A thread that could not be created keeps no block.
ThreadsKeepNoBlock ==
  (Done /\ Name = "spawn" /\ Abi = "sysv") =>
    (After(0) = Num(0) <=> Times("free", At("h1", 0)) = Cardinality({k \in CallsOf("malloc") : IsAt(m.out[k][3])}) /\ ~Got("pthread_create", Num(0)))
-----------------------------------------------------------------------------
(* What the runs check of all of these. *)

\* Every opcode and every branch does what it stands for.
InstructionsMean == OpcodesMean /\ BranchesMeanComparison

\* What one side of a call puts in place the other finds: parameters, results,
\* and what the start code hands to main.
ValuesCrossCalls == ParametersArrive /\ ResultsReturn /\ MainGetsArguments /\ EnvironmentSaved

\* The memory routines do what C asks of theirs and account for every block.
RuntimeMeansC == BytesMeanC /\ BlocksAreSound /\ ThreadsKeepNoBlock

\* Every text the generated code makes is the one meant and fits its buffer.
TextsAreWritten == StringsMeanText /\ NumbersAreWritten /\ HostnameFits

\* Children and handles are accounted for whatever fails, and a program sleeps
\* as long as it asked for.
OutsideIsSettled == SpawnAccountsForChild /\ HandlesAreSettled /\ SleepsAsLong
=============================================================================
