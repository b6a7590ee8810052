-------------------------- MODULE ConstProp_proofs ---------------------------
(* Theorems about constant propagation, for any Width and any chunk: folding *)
(* by true facts changes no step of an execution, an instruction makes true  *)
(* facts out of true ones, the dataflow ends in a solution of its equations, *)
(* and so what it takes for constants is true in every execution that never  *)
(* reads a register a path left unwritten.                                   *)
EXTENDS ConstProp, FiniteSetTheorems, SequenceTheorems, WellFoundedInduction, TLAPS

(* The code generator increments a register in place.                        *)
IsInstruction(i) ==
  /\ i \in [op : Ops, d : Nat, x : Nat, y : Nat, imm : Nat, n : Nat]
  /\ i.op = "Inc" => i.d = i.x
  /\ i.op = "MovI" => i.imm \in Values

IsState(m, slots) ==
  /\ m = [pc |-> m.pc, slot |-> m.slot, flags |-> m.flags, args |-> m.args,
          seen |-> m.seen, status |-> m.status]
  /\ m.slot = [s \in slots |-> m.slot[s]]

(* What is known of a register is its value.                                 *)
Holds(state, slot, r) == state[r] \in Values => slot[r] = state[r]

LEMMA KnownIsThere ==
  ASSUME NEW state, NEW slot, NEW r, Holds(state, slot, r)
  PROVE  \/ Known(state, r) = {}
         \/ Known(state, r) = {slot[r]} /\ slot[r] \in Values
BY DEF Known, Holds

(* Je and Jne decide by the flags, but are folded by the register in ops[0]  *)
(* when its value is known.                                                  *)
FlagsDecide(i, state) == i.op \in {"Je", "Jne"} => state[i.d] \notin Values

(* A result that is computed is the value the instruction writes; no         *)
(* division by 0 is computed.                                                *)
LEMMA ComputedIsWritten ==
  ASSUME NEW i, IsInstruction(i), i.op \in Computable, NEW state, NEW m,
         \A r \in InstrUses(i) : Holds(state, m.slot, r),
         ComputeResult(i, state) \in Values
  PROVE  /\ Compute(m, i) = ComputeResult(i, state)
         /\ ~ (i.op = "Div" /\ m.slot[i.y] = 0)
<1> DEFINE X == Known(state, i.x)
           Y == Known(state, i.y)
<1>1. Bottom \notin Values /\ Junk \notin Values
  BY WidthAssumption DEF Bottom, Junk, Values
<1>2. i.op \in {"MovI", "Mov", "Inc", "Add", "Div"}
  BY DEF Computable, Moves, Binary
<1>3. CASE i.op = "MovI"
  BY <1>3 DEF ComputeResult, Compute
<1>4. CASE i.op = "Mov"
  <2>1. X = {} \/ X = {m.slot[i.x]}
    BY <1>4, KnownIsThere DEF InstrUses, Moves, ZeroJumps
  <2>2. ComputeResult(i, state) = IF X = {} THEN Bottom ELSE CHOOSE v \in X : TRUE
    BY <1>4 DEF ComputeResult
  <2>3. X = {m.slot[i.x]} /\ ComputeResult(i, state) = m.slot[i.x]
    BY <1>1, <2>1, <2>2
  <2> QED
    BY <1>4, <2>3 DEF Compute
<1>5. CASE i.op = "Inc"
  <2>1. X = {} \/ X = {m.slot[i.x]}
    BY <1>5, KnownIsThere DEF InstrUses, Moves, ZeroJumps
  <2> DEFINE R == {Sum(a, 1) : a \in X}
  <2>2. i.d = i.x /\ ComputeResult(i, state) = IF R = {} THEN Bottom ELSE CHOOSE v \in R : TRUE
    BY <1>5 DEF ComputeResult, IsInstruction
  <2>3. R = {} \/ R = {Sum(m.slot[i.d], 1)}
    BY <2>1, <2>2
  <2> HIDE DEF R
  <2>4. ComputeResult(i, state) = Sum(m.slot[i.d], 1)
    BY <1>1, <2>2, <2>3
  <2> QED
    BY <1>5, <2>4 DEF Compute
<1>6. CASE i.op = "Add"
  <2>1. (X = {} \/ X = {m.slot[i.x]}) /\ (Y = {} \/ Y = {m.slot[i.y]})
    BY <1>6, KnownIsThere DEF InstrUses, Moves, Binary, ZeroJumps
  <2> DEFINE R == {Sum(p[1], p[2]) : p \in X \X Y}
  <2>2. ComputeResult(i, state) = IF R = {} THEN Bottom ELSE CHOOSE v \in R : TRUE
    BY <1>6 DEF ComputeResult
  <2>3. R = {} \/ R = {Sum(m.slot[i.x], m.slot[i.y])}
    BY <2>1
  <2> HIDE DEF R
  <2>4. ComputeResult(i, state) = Sum(m.slot[i.x], m.slot[i.y])
    BY <1>1, <2>2, <2>3
  <2> QED
    BY <1>6, <2>4 DEF Compute
<1>7. CASE i.op = "Div"
  <2>1. /\ X # {} => X = {m.slot[i.x]} /\ m.slot[i.x] \in Values
        /\ Y # {} => Y = {m.slot[i.y]} /\ m.slot[i.y] \in Values
    BY <1>7, KnownIsThere DEF InstrUses, Moves, Binary, ZeroJumps
  <2> DEFINE R == {p[1] \div p[2] : p \in X \X (Y \ {0})}
  <2>2. ComputeResult(i, state) = IF R = {} THEN Bottom ELSE CHOOSE v \in R : TRUE
    BY <1>7 DEF ComputeResult
  <2>3. R # {}
    BY <1>1, <2>2
  <2>4. X # {} /\ Y \ {0} # {}
    BY <2>3
  <2>5. /\ X = {m.slot[i.x]} /\ Y \ {0} = {m.slot[i.y]} /\ m.slot[i.y] # 0
        /\ m.slot[i.x] \in Values /\ m.slot[i.y] \in Values
    BY <2>1, <2>4
  <2>6. R = {m.slot[i.x] \div m.slot[i.y]}
    <3>1. X \X (Y \ {0}) = {<<m.slot[i.x], m.slot[i.y]>>}
      BY <2>5
    <3>2. R = {p[1] \div p[2] : p \in {<<m.slot[i.x], m.slot[i.y]>>}}
      BY <3>1
    <3> QED
      BY <3>2
  <2> HIDE DEF R
  <2>7. ComputeResult(i, state) = m.slot[i.x] \div m.slot[i.y]
    BY <2>2, <2>6
  <2> QED
    BY <1>1, <1>7, <2>5, <2>7 DEF Compute
<1> QED
  BY <1>2, <1>3, <1>4, <1>5, <1>6, <1>7

(* Wherever what the pass knows of the registers an instruction reads is     *)
(* true, the instruction that takes its place does the same: it writes the   *)
(* same value, faults alike and jumps alike.                                 *)
THEOREM FoldingIsInvisible ==
  ASSUME NEW i, IsInstruction(i), NEW state, NEW slots, NEW m, IsState(m, slots), NEW input,
         \A r \in ReadBy(i) : Holds(state, m.slot, r),
         FlagsDecide(i, state)
  PROVE  Execute(m, FoldInstr(i, state), input) = Execute(m, i, input)
<1>1. i = [op |-> i.op, d |-> i.d, x |-> i.x, y |-> i.y, imm |-> i.imm, n |-> i.n] /\ i.op \in Ops
  BY DEF IsInstruction
<1>2. CASE i.op \in Branches
  <2>1. FoldInstr(i, state) = FoldBranch(i, state)
    BY <1>2 DEF FoldInstr
  <2>2. CASE i.op \in FlagJumps
    <3>1. EvalBranch(i.op, 0) = {} \/ Known(state, i.d) = {}
      BY <2>2 DEF EvalBranch, Known, FlagJumps, FlagsDecide
    <3>2. \A v \in Known(state, i.d) : EvalBranch(i.op, v) = {}
      BY <2>2, <3>1 DEF EvalBranch, FlagJumps, Known
    <3>3. FoldBranch(i, state) = i
      BY <3>2 DEF FoldBranch
    <3> QED
      BY <2>1, <3>3
  <2>3. CASE i.op \in ZeroJumps
    <3>1. Known(state, i.d) = {} \/ Known(state, i.d) = {m.slot[i.d]}
      BY <2>3, KnownIsThere DEF ReadBy
    <3> DEFINE taken == UNION {EvalBranch(i.op, v) : v \in Known(state, i.d)}
    <3>2. EvalBranch(i.op, m.slot[i.d]) = {Taken(m, i)} /\ Taken(m, i) \in BOOLEAN
      BY <2>3 DEF EvalBranch, Taken, ZeroJumps
    <3>3. taken = {} \/ taken = {Taken(m, i)}
      BY <3>1, <3>2
    <3>4. FoldBranch(i, state) = IF TRUE \in taken THEN Ri16("Jmp", 0, i.imm)
                                 ELSE IF FALSE \in taken THEN Nop ELSE i
      BY DEF FoldBranch
    <3> HIDE DEF taken
    <3>5. /\ Taken(m, i) => Execute(m, i, input) = [m EXCEPT !.pc = i.imm]
          /\ ~ Taken(m, i) => Execute(m, i, input) = [m EXCEPT !.pc = m.pc + 1]
      <4>1. i.op \in Jumps
        BY <1>2 DEF Jumps
      <4> QED
        BY <4>1 DEF Execute, Jumps, Branches, FlagJumps, ZeroJumps
    <3>6. Execute(m, Ri16("Jmp", 0, i.imm), input) = [m EXCEPT !.pc = i.imm]
      BY DEF Execute, Jumps, Taken, Ri16
    <3>7. Execute(m, Nop, input) = [m EXCEPT !.pc = m.pc + 1]
      BY DEF Execute, Nop, Rrr, Jumps, Branches, FlagJumps, ZeroJumps
    <3> QED
      BY <2>1, <3>2, <3>3, <3>4, <3>5, <3>6, <3>7
  <2> QED
    BY <1>2, <2>2, <2>3 DEF Branches
<1>3. CASE i.op \in Computable /\ i.op \notin Branches /\ ComputeResult(i, state) \in Values
  <2> DEFINE j == Ri16("MovI", i.d, ComputeResult(i, state))
  <2>1. FoldInstr(i, state) = j
    BY <1>3 DEF FoldInstr
  <2>2. Compute(m, i) = ComputeResult(i, state) /\ ~ (i.op = "Div" /\ m.slot[i.y] = 0)
    BY <1>3, ComputedIsWritten DEF ReadBy
  <2>3. Execute(m, i, input) = [m EXCEPT !.pc = @ + 1, !.slot[i.d] = Compute(m, i)]
    BY <1>3, <2>2 DEF Execute, Computable, Moves, Binary, Jumps, Branches, FlagJumps, ZeroJumps
  <2>4. j.op = "MovI" /\ j.d = i.d /\ j.imm = ComputeResult(i, state)
    BY DEF Ri16
  <2> HIDE DEF j
  <2>5. Compute(m, j) = ComputeResult(i, state)
    BY <2>4 DEF Compute
  <2>6. Execute(m, j, input) = [m EXCEPT !.pc = @ + 1, !.slot[j.d] = Compute(m, j)]
    BY <2>4 DEF Execute, Jumps, Branches, FlagJumps, ZeroJumps
  <2> QED
    BY <2>1, <2>2, <2>3, <2>4, <2>5, <2>6
<1>4. CASE i.op \notin Branches /\ ~ (i.op \in Computable /\ ComputeResult(i, state) \in Values)
  BY <1>4 DEF FoldInstr
<1> QED
  BY <1>2, <1>3, <1>4

(* A whole chunk: in a state where the facts before the next instruction     *)
(* are true - what invariant ConstantsHold says of every execution - the     *)
(* folded chunk takes the same step as the chunk.                            *)
THEOREM FoldedChunkStepsAlike ==
  ASSUME NEW chunk, "code" \in DOMAIN chunk, \A k \in DOMAIN chunk.code : IsInstruction(chunk.code[k]),
         NEW slots, NEW m, IsState(m, slots), NEW input,
         m.pc \in DOMAIN chunk.code =>
           LET i == chunk.code[m.pc]
               known == Analysis(chunk.code).before[m.pc]
           IN FlagsDecide(i, known) /\ \A r \in ReadBy(i) : Holds(known, m.slot, r)
  PROVE  Step(ConstPropFold(chunk).code, m, input) = Step(chunk.code, m, input)
<1> DEFINE folded == ConstPropFold(chunk).code
           before == Analysis(chunk.code).before
<1> SUFFICES Step(folded, m, input) = Step(chunk.code, m, input)
  OBVIOUS
<1>1. folded = [i \in DOMAIN chunk.code |-> FoldInstr(chunk.code[i], before[i])]
  BY DEF ConstPropFold
<1> HIDE DEF folded
<1>2. CASE m.pc \in DOMAIN chunk.code
  <2>1. folded[m.pc] = FoldInstr(chunk.code[m.pc], before[m.pc]) /\ m.pc \in DOMAIN folded
    BY <1>1, <1>2
  <2>2. Execute(m, FoldInstr(chunk.code[m.pc], before[m.pc]), input) = Execute(m, chunk.code[m.pc], input)
    BY <1>2, FoldingIsInvisible
  <2> QED
    BY <1>2, <2>1, <2>2 DEF Step
<1>3. CASE m.pc \notin DOMAIN chunk.code
  BY <1>1, <1>3 DEF Step
<1> QED
  BY <1>2, <1>3

-----------------------------------------------------------------------------
(* The values the next call is given.                                        *)
Given(m) == [k \in DOMAIN m.args |-> m.slot[m.args[k]]]

(* The slot a call writes through the address it is given.                   *)
Writes(i) == i.op = "Call" /\ i.imm = Change

(* An instruction makes true facts out of true ones: if what is known of the *)
(* registers R is true, R having those the instruction reads, what the       *)
(* transfer function says of R, and of the register written, is true after   *)
(* it.  Nothing may be known of a variable a callee writes to through its    *)
(* address (which codegen.rs:5619 does not see to).                          *)
THEOREM TransferKeepsFacts ==
  ASSUME NEW i, IsInstruction(i), NEW slots, NEW m, IsState(m, slots), NEW input,
         NEW regs, regs \subseteq slots, i.d \in regs, NEW state \in [regs -> Lattice],
         NEW R, R \subseteq regs, InstrUses(i) \subseteq R,
         \A r \in R : Holds(state, m.slot, r),
         Writes(i) => \A r \in R : r = Pointee(Given(m)[1]) => state[r] \notin Values
  PROVE  \A r \in R \cup InstrDef(i) : Holds(Transfer(i, state), Execute(m, i, input).slot, r)
<1> DEFINE after == Execute(m, i, input)
           known == Transfer(i, state)
<1>1. i.op \in Ops /\ i.d \in slots /\ DOMAIN m.slot = slots
  BY DEF IsInstruction, IsState
<1>2. m.slot = [s \in slots |-> m.slot[s]] /\ DOMAIN state = regs
  BY DEF IsState
<1>3. CASE i.op \notin HasDest
  <2>1. known = state
    BY <1>3 DEF Transfer, HasDest
  <2>2. after.slot = m.slot
    BY <1>1, <1>3 DEF Execute, Halt, HasDest, Computable, Moves, Binary, Ops, Jumps, Branches,
                      FlagJumps, ZeroJumps, IsState
  <2>3. InstrDef(i) = {}
    BY <1>1, <1>3 DEF InstrDef, HasDest, Computable, Moves, Binary, Ops, Jumps, Branches, FlagJumps, ZeroJumps
  <2> QED
    BY <2>1, <2>2, <2>3
<1>4. CASE i.op = "Cmp"
  <2>1. known = [state EXCEPT ![i.d] = Bottom]
    BY <1>4 DEF Transfer, HasDest, Computable, Moves, Binary
  <2>2. after.slot = m.slot
    BY <1>4 DEF Execute, IsState, Jumps, Branches, FlagJumps, ZeroJumps
  <2>3. Bottom \notin Values
    BY WidthAssumption DEF Bottom, Values
  <2> QED
    BY <1>2, <1>4, <2>1, <2>2, <2>3 DEF Holds, InstrDef
<1>5. CASE i.op = "Call"
  <2>1. known = [state EXCEPT ![i.d] = Bottom]
    BY <1>5 DEF Transfer, HasDest, Computable, Moves, Binary
  <2>2. after = CallStep(m, i, input)
    BY <1>5 DEF Execute, Jumps, Branches, FlagJumps, ZeroJumps
  <2>3. ASSUME NEW r \in R, r # i.d, state[r] \in Values PROVE after.slot[r] = m.slot[r]
    <3>1. CASE ~ Writes(i)
      BY <1>1, <1>2, <1>5, <2>2, <2>3, <3>1 DEF CallStep, IsState, Writes
    <3>2. CASE Writes(i)
      <4>1. r # Pointee(Given(m)[1])
        BY <2>3, <3>2
      <4>2. after.slot = [[m.slot EXCEPT ![Pointee(Given(m)[1])] = Answer(input, Len(m.seen) + 1)]
                            EXCEPT ![i.d] = Answer(input, Len(m.seen) + 1)]
        BY <2>2, <3>2 DEF CallStep, IsState, Writes, Given, Small, Change
      <4> QED
        BY <1>1, <1>2, <2>3, <4>1, <4>2
    <3> QED
      BY <3>1, <3>2
  <2>4. Bottom \notin Values
    BY WidthAssumption DEF Bottom, Values
  <2>5. ASSUME NEW r \in R \cup {i.d} PROVE Holds(known, after.slot, r)
    <3>1. CASE r = i.d
      BY <1>2, <2>1, <2>4, <3>1 DEF Holds
    <3>2. CASE r # i.d
      BY <1>2, <2>1, <2>3, <3>2 DEF Holds
    <3> QED
      BY <3>1, <3>2
  <2> QED
    BY <2>5 DEF InstrDef
<1>6. CASE i.op \in Computable \cup {"Lea"}
  <2> DEFINE v == IF i.op = "Lea" THEN Bottom ELSE ComputeResult(i, state)
  <2>1. known = [state EXCEPT ![i.d] = v]
    BY <1>6 DEF Transfer, HasDest, Computable, Moves, Binary
  <2> DEFINE faults == i.op = "Div" /\ m.slot[i.y] = 0
  <2>2. after.slot = IF faults THEN m.slot ELSE [m.slot EXCEPT ![i.d] = Compute(m, i)]
    BY <1>6 DEF Execute, Halt, Computable, Moves, Binary, IsState, Jumps, Branches, FlagJumps, ZeroJumps
  <2>3. v \in Values => v = Compute(m, i) /\ ~ faults
    <3> SUFFICES ASSUME v \in Values PROVE v = Compute(m, i) /\ ~ faults
      OBVIOUS
    <3>1. i.op # "Lea" /\ v = ComputeResult(i, state)
      BY WidthAssumption DEF Bottom, Values
    <3> QED
      BY <1>6, <3>1, ComputedIsWritten
  <2> HIDE DEF v, faults
  <2>4. ASSUME NEW r \in R \cup {i.d} PROVE Holds(known, after.slot, r)
    <3>1. CASE r = i.d
      BY <1>1, <1>2, <2>1, <2>2, <2>3, <3>1 DEF Holds
    <3>2. CASE r # i.d
      BY <1>1, <1>2, <2>1, <2>2, <3>2 DEF Holds
    <3> QED
      BY <3>1, <3>2
  <2> QED
    BY <2>4 DEF InstrDef
<1> QED
  BY <1>3, <1>4, <1>5, <1>6 DEF HasDest
-----------------------------------------------------------------------------
(* Induction over the natural numbers, with the property as a set.           *)
LEMMA Induction ==
  ASSUME NEW S, 0 \in S, \A n \in Nat : n \in S => n + 1 \in S
  PROVE  \A n \in Nat : n \in S
<1> DEFINE Less == {ss \in Nat \X Nat : ss[1] < ss[2]}
           T == Nat \ S
<1>1. IsWellFoundedOn(Less, Nat)
  BY NatLessThanWellFounded, Zenon DEF OpToRel
<1>2. SUFFICES ASSUME T # {} PROVE FALSE
  OBVIOUS
<1>3. PICK x \in T : \A y \in T : <<y, x>> \notin Less
  BY <1>1, <1>2, WFMin
<1>4. x \in Nat /\ x # 0 /\ x - 1 \in Nat /\ x - 1 < x
  BY <1>3
<1>5. x - 1 \in S
  BY <1>3, <1>4
<1> QED
  BY <1>3, <1>4, <1>5

-----------------------------------------------------------------------------
(* The state after a run of instructions, one instruction at a time.         *)
Runs(g, code, state, from, to) ==
  g = [i \in from - 1 .. to |-> IF i < from THEN state ELSE Transfer(code[i], g[i - 1])]

LEMMA RunExists ==
  ASSUME NEW code, NEW state, NEW from \in Nat
  PROVE  \A n \in Nat : \E g : Runs(g, code, state, from, from - 1 + n)
<1> DEFINE S == {n \in Nat : \E g : Runs(g, code, state, from, from - 1 + n)}
<1>1. 0 \in S
  <2> DEFINE g == [i \in from - 1 .. from - 1 |-> state]
  <2>1. Runs(g, code, state, from, from - 1 + 0)
    BY DEF Runs
  <2> QED
    BY <2>1
<1>2. ASSUME NEW n \in Nat, n \in S PROVE n + 1 \in S
  <2>1. PICK g : Runs(g, code, state, from, from - 1 + n)
    BY <1>2
  <2> DEFINE to == from + n
             h == [i \in from - 1 .. to |-> IF i = to THEN Transfer(code[i], g[i - 1]) ELSE g[i]]
  <2>2. \A i \in from - 1 .. to - 1 : g[i] = IF i < from THEN state ELSE Transfer(code[i], g[i - 1])
    BY <2>1 DEF Runs
  <2>3. ASSUME NEW i \in from - 1 .. to
        PROVE  h[i] = IF i < from THEN state ELSE Transfer(code[i], h[i - 1])
    <3>1. CASE i = to
      <4>1. i - 1 \in from - 1 .. to /\ i - 1 # to /\ ~ (i < from)
        BY <3>1
      <4> QED
        BY <3>1, <4>1
    <3>2. CASE i # to
      <4>1. h[i] = g[i] /\ i \in from - 1 .. to - 1
        BY <3>2
      <4>2. ~ (i < from) => i - 1 \in from - 1 .. to /\ i - 1 # to
        BY <3>2
      <4> QED
        BY <2>2, <4>1, <4>2
    <3> QED
      BY <3>1, <3>2
  <2>4. h = [i \in from - 1 .. to |-> IF i < from THEN state ELSE Transfer(code[i], h[i - 1])]
    BY <2>3
  <2>5. Runs(h, code, state, from, from - 1 + (n + 1))
    BY <2>4 DEF Runs
  <2> QED
    BY <2>5
<1>3. \A n \in Nat : n \in S
  BY <1>1, <1>2, Induction
<1> QED
  BY <1>3

LEMMA RunsAgree ==
  ASSUME NEW code, NEW state, NEW from \in Nat, NEW to \in Int, NEW end \in Int, to <= end,
         NEW g, Runs(g, code, state, from, to), NEW h, Runs(h, code, state, from, end)
  PROVE  \A i \in from - 1 .. to : g[i] = h[i]
<1> DEFINE S == {n \in Nat : from - 1 + n <= to => g[from - 1 + n] = h[from - 1 + n]}
<1>1. /\ \A i \in from - 1 .. to : g[i] = IF i < from THEN state ELSE Transfer(code[i], g[i - 1])
      /\ \A i \in from - 1 .. end : h[i] = IF i < from THEN state ELSE Transfer(code[i], h[i - 1])
  BY DEF Runs
<1>2. 0 \in S
  BY <1>1
<1>3. ASSUME NEW n \in Nat, n \in S PROVE n + 1 \in S
  <2>1. SUFFICES ASSUME from + n <= to PROVE g[from + n] = h[from + n]
    OBVIOUS
  <2>2. from + n \in from - 1 .. to /\ from + n \in from - 1 .. end /\ ~ (from + n < from)
    BY <2>1
  <2>3. g[from + n - 1] = h[from + n - 1]
    BY <1>3, <2>1
  <2> QED
    BY <1>1, <2>2, <2>3
<1>4. \A n \in Nat : n \in S
  BY <1>2, <1>3, Induction
<1> QED
  <2> TAKE i \in from - 1 .. to
  <2>1. i - (from - 1) \in Nat /\ from - 1 + (i - (from - 1)) = i
    OBVIOUS
  <2> QED
    BY <1>4, <2>1

LEMMA AfterRuns ==
  ASSUME NEW code, NEW state, NEW from \in Nat, NEW to \in Int, to >= from - 1
  PROVE  \E g : Runs(g, code, state, from, to) /\ After(code, state, from, to) = g[to]
<1> DEFINE g == CHOOSE g : g = [i \in from - 1 .. to |-> IF i < from THEN state ELSE Transfer(code[i], g[i - 1])]
<1>1. to - (from - 1) \in Nat /\ from - 1 + (to - (from - 1)) = to
  OBVIOUS
<1>2. \E h : Runs(h, code, state, from, to)
  BY <1>1, RunExists
<1>3. Runs(g, code, state, from, to)
  BY <1>2 DEF Runs
<1>4. After(code, state, from, to) = g[to]
  BY DEF After
<1> QED
  BY <1>3, <1>4

LEMMA AfterNone ==
  ASSUME NEW code, NEW state, NEW from \in Nat
  PROVE  After(code, state, from, from - 1) = state
<1>1. PICK g : Runs(g, code, state, from, from - 1) /\ After(code, state, from, from - 1) = g[from - 1]
  BY AfterRuns
<1> QED
  BY <1>1 DEF Runs

LEMMA AfterOne ==
  ASSUME NEW code, NEW state, NEW from \in Nat, NEW to \in Int, to >= from
  PROVE  After(code, state, from, to) = Transfer(code[to], After(code, state, from, to - 1))
<1>1. PICK g : Runs(g, code, state, from, to) /\ After(code, state, from, to) = g[to]
  BY AfterRuns
<1>2. PICK h : Runs(h, code, state, from, to - 1) /\ After(code, state, from, to - 1) = h[to - 1]
  BY AfterRuns
<1>3. h[to - 1] = g[to - 1]
  BY <1>1, <1>2, RunsAgree
<1>4. g[to] = Transfer(code[to], g[to - 1])
  BY <1>1 DEF Runs
<1> QED
  BY <1>1, <1>2, <1>3, <1>4

-----------------------------------------------------------------------------
(* Blocks: each position is in one, which a leader begins.                   *)
IsCode(code) ==
  /\ code \in Seq([op : Ops, d : Nat, x : Nat, y : Nat, imm : Nat, n : Nat])
  /\ \A k \in DOMAIN code : IsInstruction(code[k])

IsBlockOf(code, b, i) ==
  /\ b \in 1 .. i /\ b \in Leaders(code)
  /\ \A c \in b + 1 .. i : c \notin Leaders(code)

IsEndOf(code, b, e) ==
  /\ e \in b .. Len(code)
  /\ e = Len(code) \/ e + 1 \in Leaders(code)
  /\ \A c \in b + 1 .. e : c \notin Leaders(code)

LEMMA LeadersArePositions ==
  ASSUME NEW code, IsCode(code)
  PROVE  Leaders(code) \subseteq 1 .. Len(code) /\ DOMAIN code = 1 .. Len(code) /\ Len(code) \in Nat
<1>1. DOMAIN code = 1 .. Len(code) /\ Len(code) \in Nat
  BY LenProperties DEF IsCode
<1>2. Leaders(code) \subseteq DOMAIN code
  BY DEF Leaders
<1> QED
  BY <1>1, <1>2

LEMMA BlockExists ==
  ASSUME NEW code, IsCode(code)
  PROVE  \A n \in Nat : n + 1 \in DOMAIN code => \E b : IsBlockOf(code, b, n + 1)
<1> DEFINE S == {n \in Nat : n + 1 \in DOMAIN code => \E b : IsBlockOf(code, b, n + 1)}
<1>1. 0 \in S
  BY DEF IsBlockOf, Leaders
<1>2. ASSUME NEW n \in Nat, n \in S PROVE n + 1 \in S
  <2>1. SUFFICES ASSUME n + 2 \in DOMAIN code PROVE \E b : IsBlockOf(code, b, n + 2)
    OBVIOUS
  <2>2. n + 1 \in DOMAIN code
    BY <2>1, LeadersArePositions
  <2>3. PICK b : IsBlockOf(code, b, n + 1)
    BY <1>2, <2>2
  <2>4. CASE n + 2 \in Leaders(code)
    BY <2>4 DEF IsBlockOf
  <2>5. CASE n + 2 \notin Leaders(code)
    BY <2>3, <2>5 DEF IsBlockOf
  <2> QED
    BY <2>4, <2>5
<1>3. \A n \in Nat : n \in S
  BY <1>1, <1>2, Induction
<1> QED
  BY <1>3

LEMMA BlockOfIs ==
  ASSUME NEW code, IsCode(code), NEW i \in DOMAIN code
  PROVE  IsBlockOf(code, BlockOf(code, i), i)
<1>1. i - 1 \in Nat /\ (i - 1) + 1 = i
  BY LeadersArePositions
<1>2. \E b : IsBlockOf(code, b, i)
  BY <1>1, BlockExists
<1> QED
  BY <1>2 DEF BlockOf, IsBlockOf

LEMMA OneBlock ==
  ASSUME NEW code, NEW i \in Nat, NEW b, NEW c, IsBlockOf(code, b, i), IsBlockOf(code, c, i)
  PROVE  b = c
BY DEF IsBlockOf

LEMMA EndExists ==
  ASSUME NEW code, IsCode(code)
  PROVE  \A n \in Nat : n < Len(code) => \E e : IsEndOf(code, Len(code) - n, e)
<1> DEFINE S == {n \in Nat : n < Len(code) => \E e : IsEndOf(code, Len(code) - n, e)}
<1>0. Len(code) \in Nat
  BY LeadersArePositions
<1>1. 0 \in S
  BY <1>0 DEF IsEndOf
<1>2. ASSUME NEW n \in Nat, n \in S PROVE n + 1 \in S
  <2>1. SUFFICES ASSUME n + 1 < Len(code) PROVE \E e : IsEndOf(code, Len(code) - (n + 1), e)
    OBVIOUS
  <2>2. PICK e : IsEndOf(code, Len(code) - n, e)
    BY <1>0, <1>2, <2>1
  <2>3. CASE Len(code) - n \in Leaders(code)
    <3>1. IsEndOf(code, Len(code) - (n + 1), Len(code) - (n + 1))
      BY <1>0, <2>1, <2>3 DEF IsEndOf
    <3> QED
      BY <3>1
  <2>4. CASE Len(code) - n \notin Leaders(code)
    <3>1. IsEndOf(code, Len(code) - (n + 1), e)
      BY <1>0, <2>1, <2>2, <2>4 DEF IsEndOf
    <3> QED
      BY <3>1
  <2> QED
    BY <2>3, <2>4
<1>3. \A n \in Nat : n \in S
  BY <1>1, <1>2, Induction
<1> QED
  BY <1>3

LEMMA BlockEndIs ==
  ASSUME NEW code, IsCode(code), NEW b \in DOMAIN code
  PROVE  IsEndOf(code, b, BlockEnd(code, b))
<1>1. Len(code) - b \in Nat /\ Len(code) - b < Len(code) /\ Len(code) - (Len(code) - b) = b
  BY LeadersArePositions
<1>2. \E e : IsEndOf(code, b, e)
  BY <1>1, EndExists
<1> QED
  BY <1>2 DEF BlockEnd, IsEndOf

(* A block ends where the next one begins.                                   *)
LEMMA EndOfBlock ==
  ASSUME NEW code, IsCode(code), NEW i \in DOMAIN code, i = Len(code) \/ i + 1 \in Leaders(code)
  PROVE  BlockEnd(code, BlockOf(code, i)) = i
<1> DEFINE b == BlockOf(code, i)
           e == BlockEnd(code, b)
<1>1. IsBlockOf(code, b, i)
  BY BlockOfIs
<1>2. b \in DOMAIN code
  BY <1>1, LeadersArePositions DEF IsBlockOf
<1>3. IsEndOf(code, b, e)
  BY <1>2, BlockEndIs
<1> HIDE DEF b, e
<1>4. i \in 1 .. Len(code) /\ Len(code) \in Nat
  BY LeadersArePositions
<1>5. ~ (e < i)
  BY <1>1, <1>3, <1>4 DEF IsBlockOf, IsEndOf
<1>6. ~ (i < e)
  BY <1>1, <1>3, <1>4 DEF IsBlockOf, IsEndOf
<1>7. e \in Int
  BY <1>1, <1>3, <1>4 DEF IsBlockOf, IsEndOf
<1> QED
  BY <1>4, <1>5, <1>6, <1>7 DEF b, e

LEMMA SameBlock ==
  ASSUME NEW code, IsCode(code), NEW i \in DOMAIN code, i + 1 \in DOMAIN code, i + 1 \notin Leaders(code)
  PROVE  BlockOf(code, i + 1) = BlockOf(code, i)
<1>1. IsBlockOf(code, BlockOf(code, i), i + 1)
  BY BlockOfIs, LeadersArePositions DEF IsBlockOf
<1>2. IsBlockOf(code, BlockOf(code, i + 1), i + 1)
  BY BlockOfIs
<1>3. i + 1 \in Nat
  BY LeadersArePositions
<1> QED
  BY <1>1, <1>2, <1>3, OneBlock

LEMMA LeaderBlock ==
  ASSUME NEW code, IsCode(code), NEW j \in Leaders(code)
  PROVE  BlockOf(code, j) = j
<1>1. j \in DOMAIN code /\ j \in Nat
  BY LeadersArePositions
<1>2. IsBlockOf(code, BlockOf(code, j), j)
  BY <1>1, BlockOfIs
<1> QED
  BY <1>1, <1>2 DEF IsBlockOf

-----------------------------------------------------------------------------
(* Where an instruction leads, and what must be known there: a fact only if  *)
(* it was one before, and not nothing where something was known.             *)
Nexts(code, i) == Target(code, i) \cup Behind(code, i)

Carries(state, next, regs) ==
  \A r \in regs : state[r] # Top => next[r] # Top /\ (next[r] \in Values => next[r] = state[r])

LEMMA MeetCarries ==
  ASSUME NEW values, NEW v \in values, v # Top
  PROVE  Meet(values) # Top /\ (Meet(values) \in Values => Meet(values) = v)
<1> DEFINE known == values \ {Top}
<1>1. v \in known
  OBVIOUS
<1>2. Top # Bottom /\ Bottom \notin Values
  BY WidthAssumption DEF Top, Bottom, Values
<1>3. CASE \E w \in known : known = {w}
  <2>1. known = {v}
    BY <1>1, <1>3
  <2>2. Meet(values) = v
    BY <2>1 DEF Meet
  <2> QED
    BY <2>2
<1>4. CASE ~ \E w \in known : known = {w}
  <2>1. Meet(values) = Bottom
    BY <1>1, <1>4 DEF Meet
  <2> QED
    BY <1>2, <2>1
<1> QED
  BY <1>3, <1>4

LEMMA MeetInLattice ==
  ASSUME NEW values, values \subseteq Lattice
  PROVE  Meet(values) \in Lattice
<1> DEFINE known == values \ {Top}
<1>1. CASE known = {}
  BY <1>1 DEF Meet, Lattice
<1>2. CASE known # {} /\ \E w \in known : known = {w}
  <2>1. Meet(values) \in known
    BY <1>2 DEF Meet
  <2> QED
    BY <2>1
<1>3. CASE known # {} /\ ~ \E w \in known : known = {w}
  BY <1>3 DEF Meet, Lattice
<1> QED
  BY <1>1, <1>2, <1>3

(* An instruction leads to the next one of its block, or to a block its own  *)
(* block is a predecessor of.                                                *)
LEMMA NextsFollow ==
  ASSUME NEW code, IsCode(code), NEW i \in DOMAIN code, NEW j \in Nexts(code, i)
  PROVE  \/ j = i + 1 /\ j \in DOMAIN code /\ j \notin Leaders(code)
         \/ /\ j \in Leaders(code) /\ BlockOf(code, i) \in Graph(code).preds[j]
            /\ BlockEnd(code, BlockOf(code, i)) = i
<1>1. j \in DOMAIN code /\ i \in Int /\ Len(code) \in Int
  BY LeadersArePositions DEF Nexts, Target, Behind
<1>2. SUFFICES ASSUME j \in Leaders(code) \/ j # i + 1
               PROVE  /\ j \in Leaders(code) /\ BlockOf(code, i) \in Graph(code).preds[j]
                      /\ BlockEnd(code, BlockOf(code, i)) = i
  BY <1>1
<1>3. j \in Target(code, i) => code[i].op \in Jumps /\ j \in Leaders(code)
  BY <1>1 DEF Target, Leaders
<1>4. j \in Leaders(code)
  BY <1>2, <1>3 DEF Nexts, Behind
<1>5. i = Len(code) \/ i + 1 \in Leaders(code)
  <2>1. CASE j \in Behind(code, i)
    BY <1>4, <2>1 DEF Behind
  <2>2. CASE j \in Target(code, i)
    BY <1>1, <1>3, <2>2, LeadersArePositions DEF Leaders
  <2> QED
    BY <2>1, <2>2 DEF Nexts
<1>6. BlockEnd(code, BlockOf(code, i)) = i
  BY <1>5, EndOfBlock
<1>7. BlockOf(code, i) \in Leaders(code)
  BY BlockOfIs DEF IsBlockOf
<1> QED
  BY <1>4, <1>6, <1>7 DEF Graph, Nexts

-----------------------------------------------------------------------------
(* What the transfer function gives a register it writes: a value or Bottom. *)
LEMMA QuotientIsValue ==
  ASSUME NEW a \in Values, NEW b \in Values \ {0}
  PROVE  a \div b \in Values
<1>1. a \in Nat /\ b \in Nat /\ b >= 1 /\ a < Width /\ Width \in Nat
  BY WidthAssumption DEF Values
<1>2. a \div b \in Int /\ a \div b >= 0 /\ b * (a \div b) <= a
  BY <1>1
<1>3. \A q \in Nat : b * q <= a => q <= a
  BY <1>1
<1>4. a \div b <= a
  BY <1>2, <1>3
<1> QED
  BY <1>1, <1>2, <1>4 DEF Values

LEMMA SumIsValue ==
  ASSUME NEW a \in Values, NEW b \in Nat
  PROVE  Sum(a, b) \in Values
<1>1. Junk \notin {a, b} /\ Width \in Nat /\ Width > 0 /\ a \in Nat
  BY WidthAssumption DEF Values, Junk
<1> QED
  BY <1>1 DEF Sum, Values

LEMMA ResultInLattice ==
  ASSUME NEW i, IsInstruction(i), i.op \in Computable, NEW state
  PROVE  ComputeResult(i, state) \in Values \cup {Bottom}
<1> DEFINE X == Known(state, i.x)
           Y == Known(state, i.y)
           D == Known(state, i.d)
<1>1. X \subseteq Values /\ Y \subseteq Values /\ D \subseteq Values
  BY DEF Known
<1> HIDE DEF X, Y, D
<1>2. CASE i.op = "MovI"
  BY <1>2 DEF ComputeResult, IsInstruction
<1>3. CASE i.op = "Mov"
  BY <1>1, <1>3 DEF ComputeResult, X
<1>4. CASE i.op = "Inc"
  <2>1. {Sum(a, 1) : a \in D} \subseteq Values
    BY <1>1, SumIsValue
  <2> QED
    BY <1>4, <2>1 DEF ComputeResult, D
<1>5. CASE i.op = "Add"
  <2>0. Values \subseteq Nat
    BY WidthAssumption DEF Values
  <2>1. {Sum(p[1], p[2]) : p \in X \X Y} \subseteq Values
    BY <1>1, <2>0, SumIsValue
  <2> QED
    BY <1>5, <2>1 DEF ComputeResult, X, Y
<1>6. CASE i.op = "Div"
  <2>1. {p[1] \div p[2] : p \in X \X (Y \ {0})} \subseteq Values
    BY <1>1, QuotientIsValue
  <2> QED
    BY <1>6, <2>1 DEF ComputeResult, X, Y
<1> QED
  BY <1>2, <1>3, <1>4, <1>5, <1>6 DEF Computable, Moves, Binary

LEMMA TransferInLattice ==
  ASSUME NEW i, IsInstruction(i), NEW regs, NEW state \in [regs -> Lattice]
  PROVE  /\ Transfer(i, state) \in [regs -> Lattice]
         /\ \A r \in regs : r \in InstrDef(i) \/ state[r] # Top => Transfer(i, state)[r] # Top
<1>1. Top \notin Values /\ Top # Bottom
  BY WidthAssumption DEF Top, Bottom, Values
<1>2. CASE i.op \in Computable
  <2>1. ComputeResult(i, state) \in Lattice /\ ComputeResult(i, state) # Top
    BY <1>1, <1>2, ResultInLattice DEF Lattice
  <2>2. Transfer(i, state) = [state EXCEPT ![i.d] = ComputeResult(i, state)]
    BY <1>2 DEF Transfer
  <2> QED
    BY <2>1, <2>2 DEF InstrDef
<1>3. CASE i.op \notin Computable /\ i.op \in HasDest
  BY <1>1, <1>3 DEF Transfer, Lattice, InstrDef
<1>4. CASE i.op \notin HasDest
  <2>1. Transfer(i, state) = state /\ InstrDef(i) = {}
    BY <1>4 DEF Transfer, HasDest, InstrDef, IsInstruction, Computable, Moves, Binary, Ops
  <2> QED
    BY <2>1
<1> QED
  BY <1>2, <1>3, <1>4

LEMMA AfterInLattice ==
  ASSUME NEW code, IsCode(code), NEW regs, NEW state \in [regs -> Lattice], NEW from \in DOMAIN code
  PROVE  \A to \in from - 1 .. Len(code) : After(code, state, from, to) \in [regs -> Lattice]
<1> DEFINE Fits(to) == to <= Len(code) => After(code, state, from, to) \in [regs -> Lattice]
           S == {n \in Nat : \A to \in Int : to = from - 1 + n => Fits(to)}
<1>0. from \in Nat /\ from >= 1 /\ Len(code) \in Nat /\ DOMAIN code = 1 .. Len(code)
  BY LeadersArePositions
<1>1. 0 \in S
  BY <1>0, AfterNone
<1>2. ASSUME NEW n \in Nat, n \in S PROVE n + 1 \in S
  <2>1. SUFFICES ASSUME NEW to \in Int, to = from + n, to <= Len(code)
                 PROVE  After(code, state, from, to) \in [regs -> Lattice]
    BY <1>0
  <2>2. to - 1 \in Int /\ to - 1 = from - 1 + n /\ to - 1 <= Len(code) /\ to >= from /\ to \in DOMAIN code
    BY <1>0, <2>1
  <2>3. After(code, state, from, to) = Transfer(code[to], After(code, state, from, to - 1))
    BY <1>0, <2>2, AfterOne
  <2>4. After(code, state, from, to - 1) \in [regs -> Lattice]
    BY <1>2, <2>2
  <2>5. IsInstruction(code[to])
    BY <2>2 DEF IsCode
  <2> QED
    BY <2>3, <2>4, <2>5, TransferInLattice
<1>3. \A n \in Nat : n \in S
  BY <1>1, <1>2, Induction
<1> QED
  <2> TAKE to \in from - 1 .. Len(code)
  <2>1. to - (from - 1) \in Nat /\ to = from - 1 + (to - (from - 1)) /\ to \in Int /\ to <= Len(code)
    BY <1>0
  <2> QED
    BY <1>3, <2>1

-----------------------------------------------------------------------------
(* The worklist begins with every block.                                     *)
LEMMA InOrderHoldsAll ==
  ASSUME NEW blocks, blocks \subseteq Nat, IsFiniteSet(blocks)
  PROVE  /\ InOrder(blocks) \in Seq(blocks)
         /\ \A b \in blocks : \E k \in DOMAIN InOrder(blocks) : InOrder(blocks)[k] = b
<1> DEFINE upTo(b) == {c \in blocks : c <= b}
           n == Cardinality(blocks)
           rank == [b \in blocks |-> Cardinality(upTo(b))]
<1>1. n \in Nat
  BY FS_CardinalityType
<1>2. \A b \in blocks : IsFiniteSet(upTo(b)) /\ Cardinality(upTo(b)) \in 1 .. n
  <2> TAKE b \in blocks
  <2>1. upTo(b) \in SUBSET blocks /\ upTo(b) # {}
    OBVIOUS
  <2>2. IsFiniteSet(upTo(b)) /\ Cardinality(upTo(b)) <= n
    BY <2>1, FS_Subset
  <2>3. Cardinality(upTo(b)) # 0 /\ Cardinality(upTo(b)) \in Nat
    BY <2>1, <2>2, FS_EmptySet, FS_CardinalityType
  <2> QED
    BY <1>1, <2>2, <2>3
<1>3. ASSUME NEW b \in blocks, NEW c \in blocks, b < c
      PROVE  Cardinality(upTo(b)) # Cardinality(upTo(c))
  <2>0. b \in Nat /\ c \in Nat /\ ~ (c <= b) /\ \A x \in blocks : x <= b => x <= c
    BY <1>3
  <2>1. upTo(b) \in SUBSET upTo(c)
    BY <2>0
  <2>2. c \in upTo(c) /\ c \notin upTo(b)
    BY <2>0
  <2> HIDE DEF upTo
  <2> QED
    BY <1>2, <2>1, <2>2, FS_Subset
<1>4. rank \in Injection(blocks, 1 .. n)
  <2>1. \A b, c \in blocks : rank[b] = rank[c] => b = c
    <3> TAKE b, c \in blocks
    <3>1. b < c \/ c < b \/ b = c
      OBVIOUS
    <3> QED
      BY <1>3, <3>1
  <2>2. rank \in [blocks -> 1 .. n]
    BY <1>2
  <2> QED
    BY <2>1, <2>2 DEF Injection, IsInjective
<1>5. IsFiniteSet(1 .. n) /\ Cardinality(1 .. n) = n
  BY <1>1, FS_Interval
<1>6. rank \in Surjection(blocks, 1 .. n)
  BY <1>4, <1>5, FS_Injection
<1>7. \A k \in 1 .. n : \E b \in blocks : Cardinality(upTo(b)) = k
  BY <1>6 DEF Surjection
<1>8. InOrder(blocks) = [k \in 1 .. n |-> CHOOSE b \in blocks : Cardinality(upTo(b)) = k]
  BY DEF InOrder
<1>9. \A b, c \in blocks : Cardinality(upTo(b)) = Cardinality(upTo(c)) => b = c
  <2> TAKE b, c \in blocks
  <2>1. b < c \/ c < b \/ b = c
    OBVIOUS
  <2> QED
    BY <1>3, <2>1
<1> HIDE DEF upTo, n
<1>10. InOrder(blocks) \in [1 .. n -> blocks]
  BY <1>7, <1>8
<1>11. \A b \in blocks : InOrder(blocks)[Cardinality(upTo(b))] = b
  BY <1>2, <1>8, <1>9
<1> QED
  BY <1>1, <1>2, <1>10, <1>11, SeqDef

-----------------------------------------------------------------------------
(* The worklist algorithm.  Between two rounds every block that is not       *)
(* waiting ends in the state its predecessors' states give.                  *)
EndsIn(code, regs, s, b) == After(code, In(Graph(code), regs, s.out, b), b, Graph(code).ends[b])

FlowInv(code, regs, s) ==
  /\ s = [out |-> s.out, work |-> s.work]
  /\ s.out \in [Leaders(code) -> [regs -> Lattice]]
  /\ s.work \in Seq(Leaders(code))
  /\ \A b \in Leaders(code) :
        (\E k \in DOMAIN s.work : s.work[k] = b) \/ s.out[b] = EndsIn(code, regs, s, b)

FlowStart(code, regs) ==
  [out |-> [b \in Graph(code).blocks |-> [r \in regs |-> Top]], work |-> InOrder(Graph(code).blocks)]

LEMMA GraphOf ==
  ASSUME NEW code, IsCode(code)
  PROVE  /\ Graph(code).blocks = Leaders(code)
         /\ Graph(code).ends = [b \in Leaders(code) |-> BlockEnd(code, b)]
         /\ \A b \in Leaders(code) :
              /\ b \in DOMAIN code /\ Graph(code).ends[b] \in b .. Len(code)
              /\ Nexts(code, Graph(code).ends[b]) \subseteq Leaders(code)
              /\ Graph(code).preds[b] = {p \in Leaders(code) : b \in Nexts(code, Graph(code).ends[p])}
<1>1. /\ Graph(code).blocks = Leaders(code)
      /\ Graph(code).ends = [b \in Leaders(code) |-> BlockEnd(code, b)]
  BY DEF Graph
<1>2. SUFFICES ASSUME NEW b \in Leaders(code)
               PROVE  /\ b \in DOMAIN code /\ BlockEnd(code, b) \in b .. Len(code)
                      /\ Nexts(code, BlockEnd(code, b)) \subseteq Leaders(code)
                      /\ Graph(code).preds[b] = {p \in Leaders(code) : b \in Nexts(code, BlockEnd(code, p))}
  BY <1>1
<1>3. b \in DOMAIN code /\ DOMAIN code = 1 .. Len(code) /\ Len(code) \in Nat
  BY LeadersArePositions
<1>4. IsEndOf(code, b, BlockEnd(code, b))
  BY <1>3, BlockEndIs
<1>5. PICK e \in b .. Len(code) : e = BlockEnd(code, b) /\ (e = Len(code) \/ e + 1 \in Leaders(code))
  BY <1>4 DEF IsEndOf
<1>6. e \in DOMAIN code
  BY <1>3, <1>5
<1>7. Behind(code, e) \subseteq Leaders(code)
  BY <1>3, <1>5 DEF Behind
<1>8. Target(code, e) \subseteq Leaders(code)
  BY <1>6 DEF Target, Leaders
<1>9. Graph(code).preds[b] = {p \in Leaders(code) : b \in Nexts(code, BlockEnd(code, p))}
  BY DEF Graph, Nexts
<1> QED
  BY <1>3, <1>5, <1>7, <1>8, <1>9 DEF Nexts

LEMMA InInLattice ==
  ASSUME NEW code, IsCode(code), NEW regs, NEW out \in [Leaders(code) -> [regs -> Lattice]],
         NEW b \in Leaders(code)
  PROVE  In(Graph(code), regs, out, b) \in [regs -> Lattice]
<1>0. Graph(code).preds[b] = {p \in Leaders(code) : b \in Nexts(code, Graph(code).ends[p])}
  BY GraphOf, Zenon
<1>1. Graph(code).preds[b] \subseteq Leaders(code)
  BY <1>0
<1> DEFINE states == {out[p] : p \in Graph(code).preds[b]}
<1>2. \A r \in regs : {s[r] : s \in states} \subseteq Lattice
  BY <1>1
<1>3. \A r \in regs : Meet({s[r] : s \in states}) \in Lattice
  BY <1>2, MeetInLattice
<1> QED
  BY <1>3 DEF In, MeetStates

LEMMA EndsInLattice ==
  ASSUME NEW code, IsCode(code), NEW regs, NEW s, s.out \in [Leaders(code) -> [regs -> Lattice]],
         NEW b \in Leaders(code)
  PROVE  EndsIn(code, regs, s, b) \in [regs -> Lattice]
<1>1. In(Graph(code), regs, s.out, b) \in [regs -> Lattice]
  BY InInLattice
<1>0. b \in DOMAIN code /\ Graph(code).ends[b] \in b .. Len(code)
  BY GraphOf, Zenon
<1>2. b \in DOMAIN code /\ Graph(code).ends[b] \in b - 1 .. Len(code)
  BY <1>0, LeadersArePositions
<1> QED
  BY <1>1, <1>2, AfterInLattice DEF EndsIn

Extends(blocks, work, more, block) ==
  /\ more \in Seq(blocks)
  /\ \A b \in block : \E k \in DOMAIN more : more[k] = b
  /\ \A k \in DOMAIN work : k \in DOMAIN more /\ more[k] = work[k]

LEMMA PutBackHolds ==
  ASSUME NEW blocks, NEW work \in Seq(blocks), NEW block, block \subseteq blocks, NEW x, block \subseteq {x}
  PROVE  Extends(blocks, work, PutBack(work, block), block)
<1>1. CASE block \subseteq {work[k] : k \in DOMAIN work}
  BY <1>1 DEF PutBack, Extends
<1>2. CASE ~ (block \subseteq {work[k] : k \in DOMAIN work})
  <2>1. block = {x} /\ x \in blocks
    BY <1>2
  <2>2. PutBack(work, block) = Append(work, x)
    BY <1>2, <2>1 DEF PutBack
  <2>3. /\ Append(work, x) \in Seq(blocks) /\ Len(Append(work, x)) = Len(work) + 1
        /\ \A k \in 1 .. Len(work) : Append(work, x)[k] = work[k]
        /\ Append(work, x)[Len(work) + 1] = x
    BY <2>1, AppendProperties
  <2>4. DOMAIN work = 1 .. Len(work) /\ DOMAIN Append(work, x) = 1 .. Len(work) + 1 /\ Len(work) \in Nat
    BY <2>3, LenProperties
  <2>5. \A k \in DOMAIN work : k \in DOMAIN Append(work, x) /\ k \in 1 .. Len(work)
    BY <2>4
  <2>6. Len(work) + 1 \in DOMAIN Append(work, x)
    BY <2>4
  <2> QED
    BY <2>1, <2>2, <2>3, <2>5, <2>6 DEF Extends
<1> QED
  BY <1>1, <1>2

(* A round keeps the invariant: the block taken from the worklist is up to   *)
(* date, or puts back every block whose state depends on its own.            *)
LEMMA TakeKeeps ==
  ASSUME NEW code, IsCode(code), NEW regs, NEW s, FlowInv(code, regs, s), s.work # <<>>
  PROVE  FlowInv(code, regs, Take(code, Graph(code), regs, s))
<1> DEFINE blocks == Leaders(code)
           b == Head(s.work)
           e == Graph(code).ends[b]
           new == EndsIn(code, regs, s, b)
           rest == Tail(s.work)
           first == PutBack(rest, Target(code, e))
           work == PutBack(first, Behind(code, e))
           next == Take(code, Graph(code), regs, s)
<1>1. /\ b \in blocks /\ rest \in Seq(blocks)
      /\ \A k \in DOMAIN s.work : s.work[k] = b \/ \E j \in DOMAIN rest : rest[j] = s.work[k]
  <2>1. s.work \in Seq(blocks) /\ s.work # <<>>
    BY DEF FlowInv
  <2>2. rest \in Seq(blocks) /\ Len(rest) = Len(s.work) - 1 /\ \A k \in 1 .. Len(rest) : rest[k] = s.work[k + 1]
    BY <2>1, HeadTailProperties
  <2>3. b = s.work[1] /\ b \in blocks
    BY <2>1, HeadTailProperties
  <2>4. DOMAIN rest = 1 .. Len(rest) /\ DOMAIN s.work = 1 .. Len(s.work) /\ Len(s.work) \in Nat
    BY <2>1, <2>2, LenProperties
  <2>5. ASSUME NEW k \in DOMAIN s.work PROVE s.work[k] = b \/ \E j \in DOMAIN rest : rest[j] = s.work[k]
    <3>1. CASE k = 1
      BY <2>3, <3>1
    <3>2. CASE k # 1
      <4>1. k - 1 \in DOMAIN rest /\ rest[k - 1] = s.work[k]
        BY <2>2, <2>4, <3>2
      <4> QED
        BY <4>1
    <3> QED
      BY <3>1, <3>2
  <2> QED
    BY <2>2, <2>3, <2>5
<1>2. next = IF new = s.out[b] THEN [s EXCEPT !.work = rest]
             ELSE [out |-> [s.out EXCEPT ![b] = new], work |-> work]
  BY DEF Take, EndsIn
<1>3. new \in [regs -> Lattice] /\ s.out \in [blocks -> [regs -> Lattice]]
  BY <1>1, EndsInLattice DEF FlowInv
<1>4. CASE new = s.out[b]
  <2>1. next = [out |-> s.out, work |-> rest]
    BY <1>2, <1>4 DEF FlowInv
  <2> HIDE DEF next, rest
  <2>2. ASSUME NEW c \in blocks
        PROVE  (\E k \in DOMAIN rest : rest[k] = c) \/ s.out[c] = EndsIn(code, regs, next, c)
    <3>1. EndsIn(code, regs, next, c) = EndsIn(code, regs, s, c)
      BY <2>1 DEF EndsIn
    <3>2. CASE c = b
      BY <1>4, <3>1, <3>2
    <3>3. CASE c # b
      BY <1>1, <3>1, <3>3 DEF FlowInv
    <3> QED
      BY <3>2, <3>3
  <2>3. FlowInv(code, regs, next)
    BY <1>1, <1>3, <2>1, <2>2 DEF FlowInv
  <2> QED
    BY <2>3 DEF next
<1>5. CASE new # s.out[b]
  <2> DEFINE out == [s.out EXCEPT ![b] = new]
  <2>1. next = [out |-> out, work |-> work]
    BY <1>2, <1>5
  <2>2. Target(code, e) \subseteq blocks /\ Behind(code, e) \subseteq blocks
    <3>1. Nexts(code, e) \subseteq blocks
      BY <1>1, GraphOf, Zenon
    <3> QED
      BY <3>1 DEF Nexts
  <2>3. /\ first \in Seq(blocks)
        /\ \A c \in Target(code, e) : \E k \in DOMAIN first : first[k] = c
        /\ \A k \in DOMAIN rest : k \in DOMAIN first /\ first[k] = rest[k]
    <3>1. Target(code, e) \subseteq {code[e].imm}
      BY DEF Target
    <3>2. Extends(blocks, rest, first, Target(code, e))
      BY <1>1, <2>2, <3>1, PutBackHolds, Zenon
    <3> QED
      BY <3>2 DEF Extends
  <2>4. /\ work \in Seq(blocks)
        /\ \A c \in Behind(code, e) : \E k \in DOMAIN work : work[k] = c
        /\ \A k \in DOMAIN first : k \in DOMAIN work /\ work[k] = first[k]
    <3>1. Behind(code, e) \subseteq {e + 1}
      BY DEF Behind
    <3>2. Extends(blocks, first, work, Behind(code, e))
      BY <2>2, <2>3, <3>1, PutBackHolds, Zenon
    <3> QED
      BY <3>2 DEF Extends
  <2> HIDE DEF next, rest, first, work, new, b
  <2>5. out \in [blocks -> [regs -> Lattice]]
    BY <1>3
  <2>6. ASSUME NEW c \in blocks, ~ \E k \in DOMAIN work : work[k] = c
        PROVE  out[c] = EndsIn(code, regs, next, c)
    <3>1. c \notin Nexts(code, e)
      BY <2>3, <2>4, <2>6 DEF Nexts
    <3>2. Graph(code).preds[c] = {p \in Leaders(code) : c \in Nexts(code, Graph(code).ends[p])}
      BY GraphOf, Zenon
    <3>3. \A p \in Graph(code).preds[c] : p \in blocks /\ p # b
      BY <3>1, <3>2
    <3>4. {out[p] : p \in Graph(code).preds[c]} = {s.out[p] : p \in Graph(code).preds[c]}
      BY <1>3, <3>3
    <3>5. In(Graph(code), regs, out, c) = In(Graph(code), regs, s.out, c)
      BY <3>4 DEF In
    <3>6. EndsIn(code, regs, next, c) = EndsIn(code, regs, s, c)
      BY <2>1, <3>5 DEF EndsIn
    <3>7. CASE c = b
      BY <1>3, <3>6, <3>7 DEF new
    <3>8. CASE c # b
      <4>1. ~ \E k \in DOMAIN s.work : s.work[k] = c
        BY <1>1, <2>3, <2>4, <2>6, <3>8
      <4>2. s.out[c] = EndsIn(code, regs, s, c)
        BY <4>1 DEF FlowInv
      <4> QED
        BY <1>3, <3>6, <3>8, <4>2
    <3> QED
      BY <3>7, <3>8
  <2> HIDE DEF out
  <2>7. FlowInv(code, regs, next)
    BY <2>1, <2>4, <2>5, <2>6 DEF FlowInv
  <2> QED
    BY <2>7 DEF next
<1> QED
  BY <1>4, <1>5

FlowNext(code, regs, s) == IF s.work = <<>> THEN s ELSE Take(code, Graph(code), regs, s)

Flows(g, code, regs, n) ==
  g = [k \in 0 .. n |-> IF k = 0 THEN FlowStart(code, regs) ELSE FlowNext(code, regs, g[k - 1])]

LEMMA FlowExists ==
  ASSUME NEW code, NEW regs
  PROVE  \A n \in Nat : \E g : Flows(g, code, regs, n)
<1> DEFINE S == {n \in Nat : \E g : Flows(g, code, regs, n)}
<1>1. 0 \in S
  <2> DEFINE g == [k \in 0 .. 0 |-> FlowStart(code, regs)]
  <2>1. Flows(g, code, regs, 0)
    BY DEF Flows
  <2> QED
    BY <2>1
<1>2. ASSUME NEW n \in Nat, n \in S PROVE n + 1 \in S
  <2>1. PICK g : Flows(g, code, regs, n)
    BY <1>2
  <2> DEFINE h == [k \in 0 .. n + 1 |-> IF k = n + 1 THEN FlowNext(code, regs, g[k - 1]) ELSE g[k]]
  <2>2. \A k \in 0 .. n : g[k] = IF k = 0 THEN FlowStart(code, regs) ELSE FlowNext(code, regs, g[k - 1])
    BY <2>1 DEF Flows
  <2>3. ASSUME NEW k \in 0 .. n + 1
        PROVE  h[k] = IF k = 0 THEN FlowStart(code, regs) ELSE FlowNext(code, regs, h[k - 1])
    <3>1. CASE k = n + 1
      <4>1. k - 1 \in 0 .. n + 1 /\ k - 1 # n + 1 /\ k # 0
        BY <3>1
      <4> QED
        BY <3>1, <4>1
    <3>2. CASE k # n + 1
      <4>1. h[k] = g[k] /\ k \in 0 .. n
        BY <3>2
      <4>2. k # 0 => k - 1 \in 0 .. n + 1 /\ k - 1 # n + 1
        BY <3>2
      <4> QED
        BY <2>2, <4>1, <4>2
    <3> QED
      BY <3>1, <3>2
  <2>4. h = [k \in 0 .. n + 1 |-> IF k = 0 THEN FlowStart(code, regs) ELSE FlowNext(code, regs, h[k - 1])]
    BY <2>3
  <2>5. Flows(h, code, regs, n + 1)
    BY <2>4 DEF Flows
  <2> QED
    BY <2>5
<1>3. \A n \in Nat : n \in S
  BY <1>1, <1>2, Induction
<1> QED
  BY <1>3

LEMMA FlowKeeps ==
  ASSUME NEW code, IsCode(code), NEW regs, NEW n \in Nat, NEW g, Flows(g, code, regs, n)
  PROVE  FlowInv(code, regs, g[n])
<1> DEFINE S == {k \in Nat : k <= n => FlowInv(code, regs, g[k])}
<1>1. \A k \in 0 .. n : g[k] = IF k = 0 THEN FlowStart(code, regs) ELSE FlowNext(code, regs, g[k - 1])
  BY DEF Flows
<1>2. 0 \in S
  <2>1. g[0] = FlowStart(code, regs)
    BY <1>1
  <2> DEFINE s == FlowStart(code, regs)
  <2>2. Graph(code).blocks = Leaders(code)
    BY GraphOf, Zenon
  <2>3. s = [out |-> [b \in Leaders(code) |-> [r \in regs |-> Top]], work |-> InOrder(Leaders(code))]
    BY <2>2 DEF FlowStart
  <2>4. Leaders(code) \subseteq Nat /\ IsFiniteSet(Leaders(code))
    <3>1. Leaders(code) \in SUBSET (1 .. Len(code)) /\ Len(code) \in Nat
      BY LeadersArePositions
    <3>2. IsFiniteSet(1 .. Len(code))
      BY <3>1, FS_Interval
    <3> QED
      BY <3>1, <3>2, FS_Subset
  <2>5. /\ InOrder(Leaders(code)) \in Seq(Leaders(code))
        /\ \A b \in Leaders(code) : \E k \in DOMAIN InOrder(Leaders(code)) : InOrder(Leaders(code))[k] = b
    BY <2>4, InOrderHoldsAll
  <2> HIDE DEF s
  <2>6. Top \in Lattice
    BY DEF Lattice
  <2>7. FlowInv(code, regs, s)
    BY <2>3, <2>5, <2>6 DEF FlowInv
  <2> QED
    BY <2>1, <2>7 DEF s
<1>3. ASSUME NEW k \in Nat, k \in S PROVE k + 1 \in S
  <2>1. SUFFICES ASSUME k + 1 <= n PROVE FlowInv(code, regs, g[k + 1])
    OBVIOUS
  <2>2. FlowInv(code, regs, g[k])
    BY <1>3, <2>1
  <2>3. k + 1 \in 0 .. n /\ k + 1 # 0 /\ k + 1 - 1 = k
    BY <2>1
  <2>4. g[k + 1] = FlowNext(code, regs, g[k])
    BY <1>1, <2>3
  <2> QED
    BY <2>2, <2>4, TakeKeeps DEF FlowNext
<1>4. \A k \in Nat : k \in S
  BY <1>2, <1>3, Induction
<1> QED
  BY <1>4

EndsWith(code, regs, s) ==
  /\ FlowInv(code, regs, s)
  /\ RunDataflow(code, regs).settled => s.work = <<>>
  /\ RunDataflow(code, regs).at = [b \in Leaders(code) |-> In(Graph(code), regs, s.out, b)]

LEMMA FlowEnds ==
  ASSUME NEW code, IsCode(code), NEW regs
  PROVE  \E s : EndsWith(code, regs, s)
<1> DEFINE flow == CHOOSE g : g = [k \in 0 .. Rounds |->
                                     IF k = 0 THEN FlowStart(code, regs) ELSE FlowNext(code, regs, g[k - 1])]
<1>1. Rounds \in Nat
  BY DEF Rounds
<1>2. \E g : Flows(g, code, regs, Rounds)
  BY <1>1, FlowExists
<1>3. Flows(flow, code, regs, Rounds)
  BY <1>2 DEF Flows
<1>4. FlowInv(code, regs, flow[Rounds])
  BY <1>1, <1>3, FlowKeeps
<1>5. /\ RunDataflow(code, regs).settled => flow[Rounds].work = <<>>
      /\ RunDataflow(code, regs).at = [b \in Graph(code).blocks |-> In(Graph(code), regs, flow[Rounds].out, b)]
  BY DEF RunDataflow, FlowStart, FlowNext
<1>6. Graph(code).blocks = Leaders(code)
  BY GraphOf, Zenon
<1> HIDE DEF flow
<1>7. EndsWith(code, regs, flow[Rounds])
  BY <1>4, <1>5, <1>6 DEF EndsWith
<1> QED
  BY <1>7

-----------------------------------------------------------------------------
(* What the analysis arrives at, if its worklist empties, is a solution: the *)
(* facts before an instruction, carried through it, are the facts before     *)
(* whatever it leads to, or are lost there; they are lost where paths        *)
(* disagree, and not for paths that know nothing of the register.            *)
Facts(code) == [RegistersOf(code) \cup {0} -> Lattice]

THEOREM AnalysisIsSolved ==
  ASSUME NEW code, IsCode(code), Analysis(code).settled
  PROVE  \A i \in DOMAIN code :
           /\ Analysis(code).before[i] \in Facts(code)
           /\ \A j \in Nexts(code, i) :
                /\ j \in DOMAIN code
                /\ Carries(Transfer(code[i], Analysis(code).before[i]), Analysis(code).before[j],
                           RegistersOf(code) \cup {0})
<1> DEFINE regs == RegistersOf(code) \cup {0}
           before == Analysis(code).before
<1>0. PICK s : EndsWith(code, regs, s)
  BY FlowEnds
<1>1. /\ FlowInv(code, regs, s)
      /\ RunDataflow(code, regs).settled => s.work = <<>>
      /\ RunDataflow(code, regs).at = [b \in Leaders(code) |-> In(Graph(code), regs, s.out, b)]
  BY <1>0 DEF EndsWith
<1> DEFINE at == [b \in Leaders(code) |-> In(Graph(code), regs, s.out, b)]
<1>2. /\ s.work = <<>>
      /\ before = [i \in DOMAIN code |-> After(code, at[BlockOf(code, i)], BlockOf(code, i), i - 1)]
  <2> DEFINE flow == RunDataflow(code, regs)
  <2>1. flow.at = at /\ (flow.settled => s.work = <<>>)
    BY <1>1
  <2>2. Analysis(code) = [settled |-> flow.settled,
                          before |-> [i \in DOMAIN code |->
                                        After(code, flow.at[BlockOf(code, i)], BlockOf(code, i), i - 1)]]
    BY DEF Analysis
  <2> HIDE DEF flow, at
  <2>3. flow.settled /\ before = [i \in DOMAIN code |-> After(code, flow.at[BlockOf(code, i)], BlockOf(code, i), i - 1)]
    BY <2>2
  <2> QED
    BY <2>1, <2>3
<1> HIDE DEF regs, before
<1>3. \A b \in Leaders(code) : s.out[b] = EndsIn(code, regs, s, b)
  BY <1>1, <1>2 DEF FlowInv
<1>4. \A b \in Leaders(code) : at[b] \in [regs -> Lattice]
  BY <1>1, InInLattice DEF FlowInv
<1>5. DOMAIN code = 1 .. Len(code) /\ Len(code) \in Nat /\ Leaders(code) \subseteq DOMAIN code
  BY LeadersArePositions
<1>6. \A i \in DOMAIN code : BlockOf(code, i) \in Leaders(code) /\ BlockOf(code, i) \in 1 .. i
  BY BlockOfIs DEF IsBlockOf
<1> HIDE DEF at
<1> SUFFICES ASSUME NEW i \in DOMAIN code
             PROVE  /\ before[i] \in [regs -> Lattice]
                    /\ \A j \in Nexts(code, i) :
                         j \in DOMAIN code /\ Carries(Transfer(code[i], before[i]), before[j], regs)
  BY DEF Facts, before, regs
<1> DEFINE b == BlockOf(code, i)
<1>7. before[i] = After(code, at[b], b, i - 1)
  BY <1>2
<1>8. b \in Leaders(code) /\ b \in 1 .. i /\ b \in DOMAIN code /\ i \in 1 .. Len(code)
  BY <1>5, <1>6
<1> HIDE DEF b
<1>9. before[i] \in [regs -> Lattice]
  <2>1. i - 1 \in b - 1 .. Len(code)
    BY <1>5, <1>8
  <2> QED
    BY <1>4, <1>7, <1>8, <2>1, AfterInLattice
<1>10. After(code, at[b], b, i) = Transfer(code[i], before[i])
  <2>1. b \in Nat /\ i \in Int /\ i >= b
    BY <1>5, <1>8
  <2> QED
    BY <1>7, <2>1, AfterOne
<1>11. ASSUME NEW j \in Nexts(code, i)
       PROVE  j \in DOMAIN code /\ Carries(Transfer(code[i], before[i]), before[j], regs)
  <2>1. CASE j = i + 1 /\ j \in DOMAIN code /\ j \notin Leaders(code)
    <3>1. BlockOf(code, j) = b
      BY <2>1, SameBlock DEF b
    <3>2. before[j] = After(code, at[b], b, j - 1) /\ j - 1 = i
      BY <1>2, <1>5, <2>1, <3>1
    <3>3. before[j] = Transfer(code[i], before[i])
      BY <1>10, <3>2
    <3> QED
      BY <2>1, <3>3 DEF Carries
  <2>2. CASE j \in Leaders(code) /\ b \in Graph(code).preds[j] /\ BlockEnd(code, b) = i
    <3>1. BlockOf(code, j) = j /\ j \in DOMAIN code /\ j \in Nat
      BY <1>5, <2>2, LeaderBlock
    <3>2. before[j] = at[j]
      BY <1>2, <3>1, AfterNone
    <3>3. at[j] = [r \in regs |-> Meet({o[r] : o \in {s.out[p] : p \in Graph(code).preds[j]}})]
      BY <2>2 DEF at, In, MeetStates
    <3>4. s.out[b] = Transfer(code[i], before[i])
      <4>1. Graph(code).ends[b] = i
        <5>1. Graph(code).ends = [c \in Leaders(code) |-> BlockEnd(code, c)]
          BY GraphOf, Zenon
        <5> QED
          BY <1>8, <2>2, <5>1
      <4>2. EndsIn(code, regs, s, b) = After(code, at[b], b, i)
        BY <1>8, <4>1 DEF EndsIn, at
      <4> QED
        BY <1>3, <1>8, <1>10, <4>2
    <3>5. ASSUME NEW r \in regs, s.out[b][r] # Top
          PROVE  before[j][r] # Top /\ (before[j][r] \in Values => before[j][r] = s.out[b][r])
      <4> DEFINE values == {o[r] : o \in {s.out[p] : p \in Graph(code).preds[j]}}
      <4>1. s.out[b][r] \in values
        BY <2>2
      <4>2. before[j][r] = Meet(values)
        BY <3>2, <3>3
      <4> HIDE DEF values
      <4> QED
        BY <3>5, <4>1, <4>2, MeetCarries
    <3> QED
      BY <3>1, <3>4, <3>5 DEF Carries
  <2> QED
    BY <2>1, <2>2, NextsFollow DEF b
<1> QED
  BY <1>9, <1>11

-----------------------------------------------------------------------------
(* The states an execution goes through, from the first one on.              *)
IsRun(code, input, slots, states) ==
  /\ DOMAIN states = 1 .. Len(states) /\ Len(states) \in Nat
  /\ 1 \in DOMAIN states => states[1].pc = 1 /\ IsState(states[1], slots)
  /\ \A k \in DOMAIN states : k + 1 \in DOMAIN states =>
        states[k].status = "running" /\ states[k + 1] = Step(code, states[k], input)

(* What was written before state k, by the instructions executed so far.     *)
Written(code, states, k) ==
  {r \in RegistersOf(code) : \E j \in 1 .. k - 1 :
     states[j].pc \in DOMAIN code /\ r \in InstrDef(code[states[j].pc])}

Executes(code, m) == m.status = "running" /\ m.pc \in DOMAIN code

(* Two conditions on an execution.  A register that is read was written      *)
(* before, unless the pass knows no value of it there.                       *)
SetBeforeRead(code, states) ==
  \A k \in DOMAIN states : Executes(code, states[k]) =>
    \A r \in ReadBy(code[states[k].pc]) :
      \/ r \in Written(code, states, k)
      \/ Analysis(code).before[states[k].pc][r] \notin Values

(* And a variable a callee writes to through its address is none the pass    *)
(* knows the value of.  The code does not see to that: transfer forgets only *)
(* the register of the result.                                               *)
LentAreUnknown(code, states) ==
  \A k \in DOMAIN states : Executes(code, states[k]) /\ Writes(code[states[k].pc]) =>
    \A r \in RegistersOf(code) \cup {0} :
      r = Pointee(Given(states[k])[1]) => Analysis(code).before[states[k].pc][r] \notin Values

Disciplined(code, states) == SetBeforeRead(code, states) /\ LentAreUnknown(code, states)

LEMMA StepKeepsState ==
  ASSUME NEW code, NEW slots, NEW m, IsState(m, slots), NEW input
  PROVE  IsState(Step(code, m, input), slots)
<1> DEFINE i == code[m.pc]
<1>1. CASE m.pc \notin DOMAIN code
  BY <1>1 DEF Step, Halt, IsState
<1>2. CASE m.pc \in DOMAIN code
  <2>1. Step(code, m, input) = Execute(m, i, input)
    BY <1>2 DEF Step
  <2> HIDE DEF i
  <2>2. CASE i.op = "Call"
    <3>1. Execute(m, i, input) = CallStep(m, i, input)
      BY <2>2 DEF Execute, Jumps, Branches, FlagJumps, ZeroJumps
    <3> DEFINE given == Given(m)
               answer == Answer(input, Len(m.seen) + 1)
               seen == Append(m.seen, <<i.imm>> \o Report(i.imm, given, m.slot))
               sum == Sum(given[1], given[2])
    <3>2. CallStep(m, i, input) =
            IF i.imm = Small
            THEN [m EXCEPT !.pc = @ + 1, !.args = <<>>, !.slot[i.d] = sum]
            ELSE [m EXCEPT !.pc = @ + 1, !.args = <<>>, !.seen = seen,
                           !.slot = [IF i.imm = Change THEN [m.slot EXCEPT ![Pointee(given[1])] = answer]
                                     ELSE m.slot EXCEPT ![i.d] = answer]]
      BY DEF CallStep, Given
    <3> HIDE DEF given, answer, seen, sum
    <3>3. CASE i.imm = Small
      <4> DEFINE slot == [m.slot EXCEPT ![i.d] = sum]
      <4>1. slot = [s \in slots |-> slot[s]]
        BY DEF IsState
      <4>2. Step(code, m, input) = [m EXCEPT !.pc = @ + 1, !.args = <<>>, !.slot = slot]
        <5>1. [m EXCEPT !.pc = @ + 1, !.args = <<>>, !.slot[i.d] = sum] = [m EXCEPT !.pc = @ + 1, !.args = <<>>, !.slot = slot]
          BY DEF IsState
        <5> HIDE DEF slot
        <5> QED
          BY <2>1, <3>1, <3>2, <3>3, <5>1
      <4> HIDE DEF slot
      <4> QED
        BY <4>1, <4>2 DEF IsState
    <3>4. CASE i.imm # Small
      <4> DEFINE changed == IF i.imm = Change THEN [m.slot EXCEPT ![Pointee(given[1])] = answer] ELSE m.slot
                 slot == [changed EXCEPT ![i.d] = answer]
      <4>1. changed = [s \in slots |-> changed[s]]
        BY DEF IsState
      <4> HIDE DEF changed
      <4>2. slot = [s \in slots |-> slot[s]]
        BY <4>1
      <4>3. Step(code, m, input) = [m EXCEPT !.pc = @ + 1, !.args = <<>>, !.seen = seen, !.slot = slot]
        BY <2>1, <3>1, <3>2, <3>4 DEF changed
      <4> HIDE DEF slot
      <4> QED
        BY <4>2, <4>3 DEF IsState
    <3> QED
      BY <3>3, <3>4
  <2>3. CASE i.op # "Call"
    BY <2>1, <2>3 DEF Execute, Halt, IsState
  <2> QED
    BY <2>2, <2>3
<1> QED
  BY <1>1, <1>2

LEMMA StepLeads ==
  ASSUME NEW code, IsCode(code), NEW slots, NEW m, IsState(m, slots), Executes(code, m), NEW input,
         Executes(code, Step(code, m, input))
  PROVE  Step(code, m, input).pc \in Nexts(code, m.pc)
<1> DEFINE i == code[m.pc]
           next == Step(code, m, input)
<1>1. next = Execute(m, i, input) /\ m.pc \in DOMAIN code /\ next.pc \in DOMAIN code /\ next.status = "running"
  BY DEF Step, Executes
<1>2. IsInstruction(i)
  BY <1>1 DEF IsCode
<1> HIDE DEF i, next
<1>3. CASE i.op \in Jumps
  <2>1. next.pc = IF Taken(m, i) THEN i.imm ELSE m.pc + 1
    <3>1. Execute(m, i, input) = [m EXCEPT !.pc = IF Taken(m, i) THEN i.imm ELSE @ + 1]
      BY <1>3 DEF Execute, Jumps, Branches, FlagJumps, ZeroJumps
    <3> QED
      BY <1>1, <3>1 DEF IsState
  <2>2. i.op = "Jmp" => Taken(m, i)
    BY DEF Taken
  <2>3. i.op # "Ret"
    BY <1>3 DEF Jumps, Branches, FlagJumps, ZeroJumps
  <2> QED
    BY <1>1, <1>3, <2>1, <2>2, <2>3 DEF Nexts, Target, Behind, i, next
<1>4. CASE i.op \notin Jumps
  <2>1. i.op \notin {"Ret", "Trap", "Jmp"}
    BY <1>1, <1>4 DEF Execute, Halt, IsState, Jumps
  <2>2. next.pc = m.pc + 1
    <3>1. CASE i.op = "Call"
      BY <1>1, <1>4, <3>1 DEF Execute, CallStep, IsState
    <3>2. CASE i.op # "Call"
      BY <1>1, <1>4, <2>1, <3>2 DEF Execute, Halt, IsState
    <3> QED
      BY <3>1, <3>2
  <2> QED
    BY <1>1, <2>1, <2>2 DEF Nexts, Behind, i, next
<1> QED
  BY <1>3, <1>4

(* What is claimed of a state of an execution: whatever is known of a        *)
(* register the execution wrote is its value, and something is known or      *)
(* given up of each of those.                                                *)
FactsAt(code, slots, states, k) ==
  /\ IsState(states[k], slots)
  /\ Executes(code, states[k]) =>
       \A r \in Written(code, states, k) :
         /\ Analysis(code).before[states[k].pc][r] # Top
         /\ Holds(Analysis(code).before[states[k].pc], states[k].slot, r)

LEMMA FactsKept ==
  ASSUME NEW code, IsCode(code), Analysis(code).settled,
         \A k \in DOMAIN code : code[k].d \in RegistersOf(code) \cup {0},
         NEW slots, RegistersOf(code) \cup {0} \subseteq slots, NEW input, NEW states,
         IsRun(code, input, slots, states), Disciplined(code, states),
         NEW k \in DOMAIN states, k + 1 \in DOMAIN states, FactsAt(code, slots, states, k)
  PROVE  FactsAt(code, slots, states, k + 1)
<1> DEFINE m == states[k]
           next == states[k + 1]
           i == code[m.pc]
           regs == RegistersOf(code) \cup {0}
           known == Analysis(code).before[m.pc]
           written == Written(code, states, k)
           R == written \cup InstrUses(i)
<1>1. m.status = "running" /\ next = Step(code, m, input) /\ IsState(m, slots) /\ k \in Nat
  BY DEF IsRun, FactsAt
<1>2. IsState(next, slots)
  BY <1>1, StepKeepsState
<1>3. SUFFICES ASSUME Executes(code, next), NEW r \in Written(code, states, k + 1)
               PROVE  /\ Analysis(code).before[next.pc][r] # Top
                      /\ Holds(Analysis(code).before[next.pc], next.slot, r)
  BY <1>2 DEF FactsAt
<1>4. Executes(code, m)
  BY <1>1, <1>3 DEF Executes, Step, Halt, IsState
<1>5. m.pc \in DOMAIN code /\ IsInstruction(i) /\ next = Execute(m, i, input)
  BY <1>1, <1>4 DEF Executes, IsCode, Step
<1>6. next.pc \in Nexts(code, m.pc)
  BY <1>1, <1>3, <1>4, StepLeads
<1> DEFINE arrives == Transfer(i, known)
           there == Analysis(code).before[next.pc]
<1>7. known \in [regs -> Lattice] /\ Carries(arrives, there, regs)
  <2>1. known \in Facts(code) /\ Carries(arrives, there, RegistersOf(code) \cup {0})
    BY <1>5, <1>6, AnalysisIsSolved
  <2> QED
    BY <2>1 DEF Facts
<1>8. InstrUses(i) \subseteq regs /\ written \subseteq regs /\ R \subseteq regs /\ i.d \in regs
  <2>1. InstrUses(i) \subseteq RegistersOf(code)
    BY <1>5 DEF RegistersOf, InstructionRegisters
  <2>2. written \subseteq RegistersOf(code)
    BY DEF Written
  <2> QED
    BY <1>5, <2>1, <2>2
<1>9. \A q \in R : Holds(known, m.slot, q)
  <2>1. \A q \in written : Holds(known, m.slot, q)
    BY <1>4 DEF FactsAt
  <2>2. \A q \in ReadBy(i) : q \in written \/ known[q] \notin Values
    BY <1>4 DEF Disciplined, SetBeforeRead
  <2>3. \A q \in InstrUses(i) : q \in written \/ known[q] \notin Values
    BY <2>2 DEF ReadBy
  <2> QED
    BY <2>1, <2>3 DEF Holds
<1>10. Writes(i) => \A q \in R : q = Pointee(Given(m)[1]) => known[q] \notin Values
  BY <1>4, <1>8 DEF Disciplined, LentAreUnknown
<1>11. \A q \in R \cup InstrDef(i) : Holds(arrives, next.slot, q)
  <2> HIDE DEF i, known, R, regs, m, next
  <2>1. regs \subseteq slots
    BY DEF regs
  <2>2. \A q \in R \cup InstrDef(i) : Holds(Transfer(i, known), Execute(m, i, input).slot, q)
    BY <1>1, <1>5, <1>7, <1>8, <1>9, <1>10, <2>1, TransferKeepsFacts DEF R
  <2> QED
    BY <1>5, <2>2
<1>12. r \in written \cup InstrDef(i) /\ r \in regs
  <2>1. PICK j \in 1 .. k : states[j].pc \in DOMAIN code /\ r \in InstrDef(code[states[j].pc])
    BY <1>1, <1>3 DEF Written
  <2>2. r \in RegistersOf(code)
    BY <1>3 DEF Written
  <2>3. CASE j = k
    BY <2>1, <2>2, <2>3
  <2>4. CASE j # k
    <3>1. j \in 1 .. k - 1
      BY <1>1, <2>4
    <3> QED
      BY <2>1, <2>2, <3>1 DEF Written
  <2> QED
    BY <2>3, <2>4
<1>13. arrives[r] # Top
  <2>1. r \in InstrDef(i) \/ known[r] # Top
    BY <1>4, <1>12 DEF FactsAt
  <2> HIDE DEF i, known, regs
  <2> QED
    BY <1>5, <1>7, <1>12, <2>1, TransferInLattice
<1>14. there[r] # Top /\ (there[r] \in Values => there[r] = arrives[r])
  BY <1>7, <1>12, <1>13 DEF Carries
<1> QED
  BY <1>11, <1>12, <1>14 DEF Holds

LEMMA FactsThroughout ==
  ASSUME NEW code, IsCode(code), Analysis(code).settled,
         \A k \in DOMAIN code : code[k].d \in RegistersOf(code) \cup {0},
         NEW slots, RegistersOf(code) \cup {0} \subseteq slots, NEW input, NEW states,
         IsRun(code, input, slots, states), Disciplined(code, states)
  PROVE  \A k \in DOMAIN states : FactsAt(code, slots, states, k)
<1> DEFINE S == {n \in Nat : n + 1 \in DOMAIN states => FactsAt(code, slots, states, n + 1)}
<1>1. DOMAIN states = 1 .. Len(states) /\ Len(states) \in Nat
  BY DEF IsRun
<1>2. 0 \in S
  <2>1. SUFFICES ASSUME 1 \in DOMAIN states PROVE FactsAt(code, slots, states, 1)
    OBVIOUS
  <2>2. Written(code, states, 1) = {}
    BY DEF Written
  <2> QED
    BY <2>1, <2>2 DEF FactsAt, IsRun
<1>3. ASSUME NEW n \in Nat, n \in S PROVE n + 1 \in S
  <2>1. SUFFICES ASSUME n + 1 + 1 \in DOMAIN states PROVE FactsAt(code, slots, states, n + 1 + 1)
    OBVIOUS
  <2>2. PICK k \in DOMAIN states : k = n + 1 /\ k + 1 \in DOMAIN states
    BY <1>1, <2>1
  <2>3. FactsAt(code, slots, states, k)
    BY <1>3, <2>2
  <2>4. FactsAt(code, slots, states, k + 1)
    BY <2>2, <2>3, FactsKept
  <2> QED
    BY <2>2, <2>4
<1>4. \A n \in Nat : n \in S
  BY <1>2, <1>3, Induction
<1> QED
  <2> TAKE k \in DOMAIN states
  <2>1. k - 1 \in Nat /\ (k - 1) + 1 = k
    BY <1>1
  <2> QED
    BY <1>4, <2>1

(* In an execution that keeps both conditions, of a chunk whose worklist     *)
(* empties, what constant propagation takes for the value of a register is   *)
(* its value wherever an instruction reads it: what ConstantsHold says of    *)
(* the executions TLC runs, for executions of any length.                    *)
THEOREM ConstantsAreTrue ==
  ASSUME NEW code, IsCode(code), Analysis(code).settled,
         \A k \in DOMAIN code : code[k].d \in RegistersOf(code) \cup {0},
         NEW slots, RegistersOf(code) \cup {0} \subseteq slots, NEW input, NEW states,
         IsRun(code, input, slots, states), Disciplined(code, states)
  PROVE  \A k \in DOMAIN states : Executes(code, states[k]) =>
           \A r \in ReadBy(code[states[k].pc]) :
             Analysis(code).before[states[k].pc][r] \in {states[k].slot[r], Top, Bottom}
<1> SUFFICES ASSUME NEW k \in DOMAIN states, Executes(code, states[k]),
                    NEW r \in ReadBy(code[states[k].pc])
             PROVE  Analysis(code).before[states[k].pc][r] \in {states[k].slot[r], Top, Bottom}
  OBVIOUS
<1> DEFINE i == code[states[k].pc]
           known == Analysis(code).before[states[k].pc]
<1>1. states[k].pc \in DOMAIN code
  BY DEF Executes
<1>2. known \in Facts(code)
  BY <1>1, AnalysisIsSolved
<1>3. r \in RegistersOf(code) \cup {0}
  <2>1. InstrUses(i) \subseteq RegistersOf(code)
    BY <1>1 DEF RegistersOf, InstructionRegisters
  <2>2. i.op \in ZeroJumps => i.d \in {0} \cup InstrUses(i)
    <3> HIDE DEF i
    <3> QED
      BY DEF InstrUses, ZeroJumps, Moves, Binary
  <2> QED
    BY <2>1, <2>2 DEF ReadBy
<1>4. known[r] \in Lattice
  BY <1>2, <1>3 DEF Facts
<1>5. known[r] \in Values => known[r] = states[k].slot[r]
  <2>1. r \in Written(code, states, k) \/ known[r] \notin Values
    BY DEF Disciplined, SetBeforeRead
  <2>2. FactsAt(code, slots, states, k)
    BY FactsThroughout
  <2> QED
    BY <2>1, <2>2 DEF FactsAt, Holds
<1> QED
  BY <1>4, <1>5 DEF Lattice

(* Where the facts are true and no register Je and Jne are folded by has a   *)
(* known value, the folded chunk takes the same steps.                       *)
Foldable(code) ==
  /\ IsCode(code) /\ Analysis(code).settled
  /\ \A k \in DOMAIN code : code[k].d \in RegistersOf(code) \cup {0}

FlagsAlike(code, states) ==
  \A k \in DOMAIN states : Executes(code, states[k]) =>
    FlagsDecide(code[states[k].pc], Analysis(code).before[states[k].pc])

LEMMA FoldedStepAlike ==
  ASSUME NEW chunk, "code" \in DOMAIN chunk, Foldable(chunk.code),
         NEW slots, RegistersOf(chunk.code) \cup {0} \subseteq slots, NEW input, NEW states,
         IsRun(chunk.code, input, slots, states), Disciplined(chunk.code, states),
         FlagsAlike(chunk.code, states),
         NEW k \in DOMAIN states, states[k].status = "running"
  PROVE  Step(ConstPropFold(chunk).code, states[k], input) = Step(chunk.code, states[k], input)
<1> DEFINE code == chunk.code
           m == states[k]
<1>0. IsCode(code) /\ Analysis(code).settled /\ \A j \in DOMAIN code : code[j].d \in RegistersOf(code) \cup {0}
  BY DEF Foldable
<1>1. IsState(m, slots)
  BY <1>0, FactsThroughout DEF FactsAt
<1>2. m.pc \in DOMAIN code =>
        /\ FlagsDecide(code[m.pc], Analysis(code).before[m.pc])
        /\ \A r \in ReadBy(code[m.pc]) : Holds(Analysis(code).before[m.pc], m.slot, r)
  <2> SUFFICES ASSUME m.pc \in DOMAIN code
               PROVE  /\ FlagsDecide(code[m.pc], Analysis(code).before[m.pc])
                      /\ \A r \in ReadBy(code[m.pc]) : Holds(Analysis(code).before[m.pc], m.slot, r)
    OBVIOUS
  <2>1. Executes(code, m)
    BY DEF Executes
  <2>2. FlagsDecide(code[m.pc], Analysis(code).before[m.pc])
    BY <2>1 DEF FlagsAlike
  <2>3. ASSUME NEW r \in ReadBy(code[m.pc]) PROVE Holds(Analysis(code).before[m.pc], m.slot, r)
    <3>1. Analysis(code).before[m.pc][r] \in {m.slot[r], Top, Bottom}
      BY <1>0, <2>1, ConstantsAreTrue
    <3>2. Top \notin Values /\ Bottom \notin Values
      BY WidthAssumption DEF Top, Bottom, Values
    <3> QED
      BY <3>1, <3>2 DEF Holds
  <2> QED
    BY <2>2, <2>3
<1>3. \A j \in DOMAIN code : IsInstruction(code[j])
  BY <1>0 DEF IsCode
<1> QED
  BY <1>1, <1>2, <1>3, FoldedChunkStepsAlike

(* The execution of the folded chunk goes through the same states.           *)
THEOREM FoldedChunkRunsAlike ==
  ASSUME NEW chunk, "code" \in DOMAIN chunk, Foldable(chunk.code),
         NEW slots, RegistersOf(chunk.code) \cup {0} \subseteq slots, NEW input, NEW states,
         IsRun(chunk.code, input, slots, states), Disciplined(chunk.code, states),
         FlagsAlike(chunk.code, states)
  PROVE  IsRun(ConstPropFold(chunk).code, input, slots, states)
<1>1. \A k \in DOMAIN states : states[k].status = "running" =>
        Step(ConstPropFold(chunk).code, states[k], input) = Step(chunk.code, states[k], input)
  BY FoldedStepAlike
<1> QED
  BY <1>1 DEF IsRun

-----------------------------------------------------------------------------
(* Execution, as TLC computes it, goes through such states.                  *)
OneMore(code, input, e) ==
  LET m == Step(code, e.states[Len(e.states)], input)
  IN [status |-> m.status, states |-> Append(e.states, m)]

Steps(g, code, input, e, n) ==
  g = [k \in 0 .. n |-> IF k = 0 THEN e
                        ELSE IF g[k - 1].status = "running" THEN OneMore(code, input, g[k - 1]) ELSE g[k - 1]]

Bursts(g, code, input, e, n) ==
  g = [k \in 0 .. n |-> IF k = 0 THEN e
                        ELSE IF g[k - 1].status = "running"
                             THEN (CHOOSE h : Steps(h, code, input, g[k - 1], Burst))[Burst]
                             ELSE g[k - 1]]

LEMMA ExecutionIs ==
  ASSUME NEW chunk, NEW input, NEW fuel
  PROVE  LET e == [status |-> "running",
                   states |-> <<Start(chunk, input, RegistersOf(chunk.code) \cup 0 .. chunk.regs)>>]
         IN Execution(chunk, input, fuel) =
              (CHOOSE g : Bursts(g, chunk.code, input, e, fuel \div Burst))[fuel \div Burst].states
BY DEF Execution, Repeat, Advance, Bursts, Steps, OneMore

LEMMA StepsExist ==
  ASSUME NEW code, NEW input, NEW e
  PROVE  \A n \in Nat : \E g : Steps(g, code, input, e, n)
<1> DEFINE next(s) == IF s.status = "running" THEN OneMore(code, input, s) ELSE s
           S == {n \in Nat : \E g : Steps(g, code, input, e, n)}
<1>1. \A n, g : Steps(g, code, input, e, n) <=> g = [k \in 0 .. n |-> IF k = 0 THEN e ELSE next(g[k - 1])]
  BY DEF Steps
<1> HIDE DEF next
<1>2. 0 \in S
  <2> DEFINE g == [k \in 0 .. 0 |-> e]
  <2>1. g = [k \in 0 .. 0 |-> IF k = 0 THEN e ELSE next(g[k - 1])]
    OBVIOUS
  <2>2. Steps(g, code, input, e, 0)
    BY <1>1, <2>1
  <2> QED
    BY <2>2
<1>3. ASSUME NEW n \in Nat, n \in S PROVE n + 1 \in S
  <2>1. PICK g : Steps(g, code, input, e, n)
    BY <1>3
  <2> DEFINE h == [k \in 0 .. n + 1 |-> IF k = n + 1 THEN next(g[k - 1]) ELSE g[k]]
  <2>2. \A k \in 0 .. n : g[k] = IF k = 0 THEN e ELSE next(g[k - 1])
    BY <1>1, <2>1
  <2>3. ASSUME NEW k \in 0 .. n + 1 PROVE h[k] = IF k = 0 THEN e ELSE next(h[k - 1])
    <3>1. CASE k = n + 1
      <4>1. k - 1 \in 0 .. n + 1 /\ k - 1 # n + 1 /\ k # 0
        BY <3>1
      <4> QED
        BY <3>1, <4>1
    <3>2. CASE k # n + 1
      <4>1. h[k] = g[k] /\ k \in 0 .. n
        BY <3>2
      <4>2. k # 0 => k - 1 \in 0 .. n + 1 /\ k - 1 # n + 1
        BY <3>2
      <4> QED
        BY <2>2, <4>1, <4>2
    <3> QED
      BY <3>1, <3>2
  <2>4. h = [k \in 0 .. n + 1 |-> IF k = 0 THEN e ELSE next(h[k - 1])]
    BY <2>3
  <2>5. Steps(h, code, input, e, n + 1)
    BY <1>1, <2>4
  <2> QED
    BY <2>5
<1>4. \A n \in Nat : n \in S
  BY <1>2, <1>3, Induction
<1> QED
  BY <1>4

(* The executions of a chunk, from its start on input.                       *)
Slots(c) == RegistersOf(c.code) \cup 0 .. c.regs

IsExecution(c, input, states) ==
  /\ IsRun(c.code, input, Slots(c), states)
  /\ 1 \in DOMAIN states => states[1] = Start(c, input, Slots(c))

(* So far the execution is one of these, which ends in the last state.       *)
InRun(c, input, e) ==
  /\ \E states : e.states \in Seq(states)
  /\ e.states # <<>> /\ IsExecution(c, input, e.states)
  /\ e.status = e.states[Len(e.states)].status

LEMMA OneMoreRuns ==
  ASSUME NEW c, NEW input, NEW e, InRun(c, input, e), e.status = "running"
  PROVE  InRun(c, input, OneMore(c.code, input, e))
<1> DEFINE last == Len(e.states)
           m == Step(c.code, e.states[last], input)
           more == Append(e.states, m)
           U == {e.states[k] : k \in DOMAIN e.states} \cup {m}
<1>1. OneMore(c.code, input, e) = [status |-> m.status, states |-> more]
  BY DEF OneMore
<1>2. PICK states : e.states \in Seq(states)
  BY DEF InRun, IsExecution
<1>3. DOMAIN e.states = 1 .. last /\ last \in Nat /\ last # 0
  BY <1>2, LenProperties, EmptySeq DEF InRun, IsExecution
<1> HIDE DEF m
<1>4. /\ more \in Seq(states \cup {m}) /\ Len(more) = last + 1
      /\ \A k \in 1 .. last : more[k] = e.states[k]
      /\ more[last + 1] = m
  <2>1. e.states \in Seq(states \cup {m})
    BY <1>2, SeqMonotonic
  <2> QED
    BY <2>1, AppendProperties
<1>5. DOMAIN more = 1 .. last + 1
  BY <1>4, LenProperties
<1>6. more # <<>>
  BY <1>3, <1>4, EmptySeq
<1> HIDE DEF more, last
<1>7. IsExecution(c, input, more)
  <2>1. 1 \in DOMAIN e.states /\ more[1] = e.states[1]
    BY <1>3, <1>4
  <2>2. ASSUME NEW k \in DOMAIN more, k + 1 \in DOMAIN more
        PROVE  more[k].status = "running" /\ more[k + 1] = Step(c.code, more[k], input)
    <3>0. k \in 1 .. last /\ more[k] = e.states[k]
      BY <1>3, <1>4, <1>5, <2>2
    <3>1. CASE k = last
      BY <1>4, <3>0, <3>1 DEF InRun, IsExecution, m, last
    <3>2. CASE k # last
      <4>1. k \in DOMAIN e.states /\ k + 1 \in DOMAIN e.states /\ k + 1 \in 1 .. last
        BY <1>3, <3>0, <3>2
      <4>2. more[k + 1] = e.states[k + 1]
        BY <1>4, <4>1
      <4> QED
        BY <3>0, <4>1, <4>2 DEF InRun, IsExecution, IsRun
    <3> QED
      BY <3>1, <3>2
  <2>3. DOMAIN more = 1 .. Len(more) /\ Len(more) \in Nat
    BY <1>3, <1>4, <1>5
  <2> QED
    BY <2>1, <2>2, <2>3 DEF InRun, IsExecution, IsRun
<1> QED
  BY <1>1, <1>4, <1>6, <1>7 DEF InRun, IsExecution

LEMMA StepsRun ==
  ASSUME NEW c, NEW input, NEW e, InRun(c, input, e), NEW n \in Nat,
         NEW g, Steps(g, c.code, input, e, n)
  PROVE  \A k \in 0 .. n : InRun(c, input, g[k])
<1> DEFINE S == {k \in Nat : k <= n => InRun(c, input, g[k])}
<1>1. \A k \in 0 .. n : g[k] = IF k = 0 THEN e
                               ELSE IF g[k - 1].status = "running" THEN OneMore(c.code, input, g[k - 1])
                               ELSE g[k - 1]
  BY DEF Steps
<1>2. 0 \in S
  BY <1>1
<1>3. ASSUME NEW k \in Nat, k \in S PROVE k + 1 \in S
  <2>1. SUFFICES ASSUME k + 1 <= n PROVE InRun(c, input, g[k + 1])
    OBVIOUS
  <2>2. k + 1 \in 0 .. n /\ k + 1 # 0 /\ k + 1 - 1 = k /\ InRun(c, input, g[k])
    BY <1>3, <2>1
  <2>3. g[k + 1] = IF g[k].status = "running" THEN OneMore(c.code, input, g[k]) ELSE g[k]
    BY <1>1, <2>2
  <2> QED
    BY <2>2, <2>3, OneMoreRuns
<1>4. \A k \in Nat : k \in S
  BY <1>2, <1>3, Induction
<1> QED
  BY <1>4

LEMMA BurstsExist ==
  ASSUME NEW code, NEW input, NEW e
  PROVE  \A n \in Nat : \E g : Bursts(g, code, input, e, n)
<1> DEFINE next(s) == IF s.status = "running" THEN (CHOOSE h : Steps(h, code, input, s, Burst))[Burst] ELSE s
           S == {n \in Nat : \E g : Bursts(g, code, input, e, n)}
<1>1. \A n, g : Bursts(g, code, input, e, n) <=> g = [k \in 0 .. n |-> IF k = 0 THEN e ELSE next(g[k - 1])]
  BY DEF Bursts
<1> HIDE DEF next
<1>2. 0 \in S
  <2> DEFINE g == [k \in 0 .. 0 |-> e]
  <2>1. g = [k \in 0 .. 0 |-> IF k = 0 THEN e ELSE next(g[k - 1])]
    OBVIOUS
  <2>2. Bursts(g, code, input, e, 0)
    BY <1>1, <2>1
  <2> QED
    BY <2>2
<1>3. ASSUME NEW n \in Nat, n \in S PROVE n + 1 \in S
  <2>1. PICK g : Bursts(g, code, input, e, n)
    BY <1>3
  <2> DEFINE h == [k \in 0 .. n + 1 |-> IF k = n + 1 THEN next(g[k - 1]) ELSE g[k]]
  <2>2. \A k \in 0 .. n : g[k] = IF k = 0 THEN e ELSE next(g[k - 1])
    BY <1>1, <2>1
  <2>3. ASSUME NEW k \in 0 .. n + 1 PROVE h[k] = IF k = 0 THEN e ELSE next(h[k - 1])
    <3>1. CASE k = n + 1
      <4>1. k - 1 \in 0 .. n + 1 /\ k - 1 # n + 1 /\ k # 0
        BY <3>1
      <4> QED
        BY <3>1, <4>1
    <3>2. CASE k # n + 1
      <4>1. h[k] = g[k] /\ k \in 0 .. n
        BY <3>2
      <4>2. k # 0 => k - 1 \in 0 .. n + 1 /\ k - 1 # n + 1
        BY <3>2
      <4> QED
        BY <2>2, <4>1, <4>2
    <3> QED
      BY <3>1, <3>2
  <2>4. h = [k \in 0 .. n + 1 |-> IF k = 0 THEN e ELSE next(h[k - 1])]
    BY <2>3
  <2>5. Bursts(h, code, input, e, n + 1)
    BY <1>1, <2>4
  <2> QED
    BY <2>5
<1>4. \A n \in Nat : n \in S
  BY <1>2, <1>3, Induction
<1> QED
  BY <1>4

LEMMA StartRuns ==
  ASSUME NEW c, NEW input
  PROVE  InRun(c, input, [status |-> "running", states |-> <<Start(c, input, Slots(c))>>])
<1> DEFINE m == Start(c, input, Slots(c))
<1>1. IsState(m, Slots(c)) /\ m.pc = 1 /\ m.status = "running"
  BY DEF Start, IsState
<1> HIDE DEF m
<1>2. <<m>> \in Seq({m}) /\ <<m>> # <<>> /\ Len(<<m>>) = 1 /\ DOMAIN <<m>> = 1 .. 1 /\ <<m>>[1] = m
  OBVIOUS
<1>3. IsRun(c.code, input, Slots(c), <<m>>)
  BY <1>1, <1>2 DEF IsRun
<1>4. IsExecution(c, input, <<m>>)
  BY <1>2, <1>3 DEF IsExecution, m
<1> QED
  BY <1>1, <1>2, <1>4 DEF InRun, m

LEMMA ExecutionRuns ==
  ASSUME NEW c, NEW input, NEW fuel \in Nat
  PROVE  IsExecution(c, input, Execution(c, input, fuel))
<1> DEFINE code == c.code
           e == [status |-> "running", states |-> <<Start(c, input, Slots(c))>>]
           n == fuel \div Burst
           g == CHOOSE g : Bursts(g, code, input, e, n)
<1>1. n \in Nat /\ Burst \in Nat
  BY DEF Burst
<1>2. InRun(c, input, e)
  BY StartRuns
<1>3. \E h : Bursts(h, code, input, e, n)
  BY <1>1, BurstsExist
<1>4. Bursts(g, code, input, e, n)
  BY <1>3
<1>5. Execution(c, input, fuel) = g[n].states
  BY ExecutionIs DEF Slots
<1> HIDE DEF g, e, n
<1> DEFINE S == {k \in Nat : k <= n => InRun(c, input, g[k])}
<1>6. \A k \in 0 .. n : g[k] = IF k = 0 THEN e
                               ELSE IF g[k - 1].status = "running"
                                    THEN (CHOOSE h : Steps(h, code, input, g[k - 1], Burst))[Burst]
                                    ELSE g[k - 1]
  BY <1>4 DEF Bursts
<1>7. 0 \in S
  <2>1. 0 \in 0 .. n
    BY <1>1
  <2>2. g[0] = e
    BY <1>6, <2>1
  <2> QED
    BY <1>2, <2>2
<1>8. ASSUME NEW k \in Nat, k \in S PROVE k + 1 \in S
  <2>1. SUFFICES ASSUME k + 1 <= n PROVE InRun(c, input, g[k + 1])
    OBVIOUS
  <2>2. k + 1 \in 0 .. n /\ k + 1 # 0 /\ k + 1 - 1 = k /\ InRun(c, input, g[k])
    BY <1>1, <1>8, <2>1
  <2> DEFINE h == CHOOSE h : Steps(h, code, input, g[k], Burst)
  <2>3. Steps(h, code, input, g[k], Burst)
    BY <1>1, StepsExist
  <2>4. g[k + 1] = IF g[k].status = "running" THEN h[Burst] ELSE g[k]
    BY <1>6, <2>2
  <2> HIDE DEF h
  <2>5. InRun(c, input, h[Burst])
    BY <1>1, <2>2, <2>3, StepsRun
  <2> QED
    BY <2>2, <2>4, <2>5
<1>9. \A k \in Nat : k \in S
  BY <1>7, <1>8, Induction
<1>10. InRun(c, input, g[n])
  BY <1>1, <1>9
<1> QED
  BY <1>5, <1>10 DEF InRun

=============================================================================
