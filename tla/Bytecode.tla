------------------------------ MODULE Bytecode ------------------------------
(* QZI instructions: what each one reads and writes (regalloc.rs), how its   *)
(* registers are renamed (codegen.rs), and what the code emitted for it does *)
(* (backend/x86_64/encoder.rs).  Arithmetic that reads two registers and     *)
(* writes a third is "Add"; "Div" is kept apart because it may fault.        *)
(* Positions in a chunk count from 1, so Len(code) + 1 is its end.           *)
EXTENDS Integers, Sequences, FiniteSets

CONSTANT Width       \* values are 0 .. Width - 1 and wrap

ASSUME WidthAssumption == Width \in Nat \ {0}

Values == 0 .. Width - 1
Junk == -1                      \* a stack slot nothing was written to
Pointer(slot) == 1000 + slot    \* the address of a stack slot
Pointee(value) == value - 1000

-----------------------------------------------------------------------------
(* ops[0], ops[1], ops[2], the 16-bit immediate in ops[1..2], the flags.     *)
Rrr(op, d, x, y) == [op |-> op, d |-> d, x |-> x, y |-> y, imm |-> 0, n |-> 0]
Ri16(op, d, imm) == [op |-> op, d |-> d, x |-> 0, y |-> 0, imm |-> imm, n |-> 0]
LeaBlock(d, base, n) == [Rrr("Lea", d, base, 0) EXCEPT !.n = n]
Nop == Rrr("Nop", 0, 0, 0)

FlagJumps == {"Je", "Jne", "Jl", "Jge"}
ZeroJumps == {"Jz", "Jnz"}
Branches == FlagJumps \cup ZeroJumps
Jumps == Branches \cup {"Jmp"}
Moves == {"Mov", "Inc"}
Binary == {"Add", "Div"}
Ops == Jumps \cup Moves \cup Binary
         \cup {"Nop", "MovI", "Cmp", "Arg", "Call", "Lea", "Trap", "Ret"}

(* The function table of the programs: what a call does that its caller can *)
(* see.  Small returns the sum of its arguments; the others report what they *)
(* were given and return the next answer of the environment.                 *)
Small == 0
Use == 1       \* reports its arguments
Look == 2      \* reports the value its argument points to
Change == 3    \* overwrites the value its argument points to
Spread == 4    \* reports a block of slots, given its address and length
Functions == Small .. Spread

-----------------------------------------------------------------------------
InstrDef(i) == IF i.op \in Jumps \cup {"Nop", "Ret", "Trap", "Cmp", "Arg"}
               THEN {} ELSE {i.d}

InstrUses(i) ==
  CASE i.op \in {"Ret", "Arg"} -> {i.d}
    [] i.op \in ZeroJumps -> {i.d} \ {0}
    [] i.op \in Moves \cup {"Lea"} -> {i.x}
    [] i.op \in Binary \cup {"Cmp"} -> {i.x, i.y}
    [] OTHER -> {}

(* The consecutive registers whose slots a Lea gives the address of.         *)
Block(i) == IF i.op = "Lea" THEN i.x .. i.x + i.n - 1 ELSE {}

InstructionRegisters(i) == InstrDef(i) \cup InstrUses(i) \cup Block(i)

SideEffectFree == Moves \cup Binary \cup {"MovI", "Lea"}

(* Registers renamed by the function to, which knows register 0.             *)
RemapInstr(i, to) ==
  CASE i.op \in FlagJumps \cup {"Jmp", "Nop", "Trap"} -> i
    [] i.op \in ZeroJumps -> IF i.d = 0 THEN i ELSE [i EXCEPT !.d = to[@]]
    [] i.op \in {"MovI", "Call", "Ret", "Arg"} -> [i EXCEPT !.d = to[@]]
    [] i.op = "Lea" -> [i EXCEPT !.d = to[@], !.x = to[@]]
    [] OTHER -> [i EXCEPT !.d = to[@], !.x = to[@], !.y = to[@]]

RegistersOf(code) == UNION {InstructionRegisters(code[i]) : i \in DOMAIN code}

-----------------------------------------------------------------------------
(* A running function: where it is, its stack slots, the flags of the last   *)
(* comparison, the registers pending as arguments of the next call, and what *)
(* its environment has seen.                                                 *)
Start(chunk, input, slots) ==
  [pc |-> 1, slot |-> [s \in slots |-> IF s < chunk.params THEN input.args[s + 1] ELSE Junk],
   flags |-> <<0, 0>>, args |-> <<>>, seen |-> <<>>, status |-> "running"]

Sum(a, b) == IF Junk \in {a, b} THEN Junk ELSE (a + b) % Width

Answer(input, n) == IF n \in DOMAIN input.answers THEN input.answers[n] ELSE 0

(* What the callee reports of its arguments.                                 *)
Report(f, args, slot) ==
  CASE f = Use -> args
    [] f = Look -> <<slot[Pointee(args[1])]>>
    [] f = Spread -> [k \in 1 .. args[2] |-> slot[Pointee(args[1]) + k - 1]]
    [] OTHER -> <<>>

CallStep(m, i, input) ==
  LET args == [k \in DOMAIN m.args |-> m.slot[m.args[k]]]
      answer == Answer(input, Len(m.seen) + 1)
      changed == IF i.imm = Change THEN [m.slot EXCEPT ![Pointee(args[1])] = answer]
                                   ELSE m.slot
  IN IF i.imm = Small
     THEN [m EXCEPT !.pc = @ + 1, !.args = <<>>, !.slot[i.d] = Sum(args[1], args[2])]
     ELSE [m EXCEPT !.pc = @ + 1, !.args = <<>>,
                    !.seen = Append(@, <<i.imm>> \o Report(i.imm, args, m.slot)),
                    !.slot = [changed EXCEPT ![i.d] = answer]]

Taken(m, i) ==
  CASE i.op = "Jmp" -> TRUE
    [] i.op = "Je" -> m.flags[1] = m.flags[2]
    [] i.op = "Jne" -> m.flags[1] # m.flags[2]
    [] i.op = "Jl" -> m.flags[1] < m.flags[2]
    [] i.op = "Jge" -> m.flags[1] >= m.flags[2]
    [] i.op = "Jz" -> m.slot[i.d] = 0
    [] i.op = "Jnz" -> m.slot[i.d] # 0

Compute(m, i) ==
  LET x == m.slot[i.x] IN
  CASE i.op = "MovI" -> i.imm
    [] i.op = "Mov" -> x
    [] i.op = "Inc" -> Sum(m.slot[i.d], 1)
    [] i.op = "Add" -> Sum(x, m.slot[i.y])
    [] i.op = "Div" -> IF Junk \in {x, m.slot[i.y]} THEN Junk ELSE x \div m.slot[i.y]
    [] i.op = "Lea" -> Pointer(i.x)

Halt(m, how) == [m EXCEPT !.status = how]

Execute(m, i, input) ==
  CASE i.op \in Jumps -> [m EXCEPT !.pc = IF Taken(m, i) THEN i.imm ELSE @ + 1]
    [] i.op = "Cmp" -> [m EXCEPT !.pc = @ + 1, !.flags = <<m.slot[i.x], m.slot[i.y]>>]
    [] i.op = "Arg" -> [m EXCEPT !.pc = @ + 1, !.args = Append(@, i.d)]
    [] i.op = "Call" -> CallStep(m, i, input)
    [] i.op = "Trap" -> Halt(m, "panicked")
    [] i.op = "Ret" -> Halt([m EXCEPT !.seen = Append(@, <<m.slot[i.d]>>)], "returned")
    [] i.op = "Nop" -> [m EXCEPT !.pc = @ + 1]
    [] i.op = "Div" /\ m.slot[i.y] = 0 -> Halt(m, "faulted")
    [] OTHER -> [m EXCEPT !.pc = @ + 1, !.slot[i.d] = Compute(m, i)]

(* A jump to the end of the chunk returns 0.                                 *)
Step(code, m, input) ==
  IF m.pc \in DOMAIN code THEN Execute(m, code[m.pc], input)
  ELSE Halt([m EXCEPT !.seen = Append(@, <<0>>)], "returned")

(* Repeats a step as long as the status is "running", at most fuel times, in *)
(* bursts so that TLC need not recurse over all of it at once.               *)
Burst == 10

Advance(step(_), s, steps) ==
  LET after[k \in 0 .. steps] ==
        IF k = 0 THEN s
        ELSE LET t == after[k - 1] IN IF t.status = "running" THEN step(t) ELSE t
  IN after[steps]

Repeat(step(_), s, fuel) ==
  LET after[k \in 0 .. fuel \div Burst] ==
        IF k = 0 THEN s
        ELSE LET t == after[k - 1]
             IN IF t.status = "running" THEN Advance(step, t, Burst) ELSE t
  IN after[fuel \div Burst]

(* The states an execution goes through.                                     *)
Execution(chunk, input, fuel) ==
  LET slots == RegistersOf(chunk.code) \cup 0 .. chunk.regs
      start == Start(chunk, input, slots)
      step(e) == LET m == Step(chunk.code, e.states[Len(e.states)], input)
                 IN [status |-> m.status, states |-> Append(e.states, m)]
  IN Repeat(step, [status |-> "running", states |-> <<start>>], fuel).states

Outcome(chunk, input, fuel) ==
  LET states == Execution(chunk, input, fuel)
      last == states[Len(states)]
  IN [seen |-> last.seen, status |-> last.status]
=============================================================================
