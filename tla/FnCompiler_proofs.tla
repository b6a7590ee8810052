------------------------- MODULE FnCompiler_proofs --------------------------
(* Theorems about the passes a chunk goes through: constant propagation, as  *)
(* far as the executions of the chunk keep its discipline; the elimination   *)
(* of dead registers, as far as they read what the pass thinks they read;    *)
(* and linear scan, as far as they read registers inside their intervals.    *)
EXTENDS FnCompiler, ConstProp_proofs

IsChunk(c) == c = [code |-> c.code, params |-> c.params, regs |-> c.regs] /\ c.regs \in Nat

(* ConstantsHold can fail in front of the pass only for one of these: the    *)
(* worklist was given up or the chunk is malformed (Foldable, IsChunk); an   *)
(* execution reads a register it has not written, of which the pass knows a  *)
(* value (the early return of the EarlyReturn run); or a callee writes       *)
(* through an address to a variable the pass knows the value of              *)
(* (codegen.rs:5619).  The last two the code does not exclude.               *)
THEOREM ConstantsHoldIfDisciplined ==
  ASSUME phase = "inlined" =>
           /\ IsChunk(chunk) /\ Foldable(chunk.code)
           /\ \A input \in Inputs :
                /\ SetBeforeRead(chunk.code, Execution(chunk, input, Fuel))
                /\ LentAreUnknown(chunk.code, Execution(chunk, input, Fuel))
  PROVE  ConstantsHold
<1> SUFFICES ASSUME phase = "inlined",
                    NEW input \in Inputs, NEW k \in DOMAIN Execution(chunk, input, Fuel),
                    Executes(chunk.code, Execution(chunk, input, Fuel)[k]),
                    NEW r \in ReadBy(chunk.code[Execution(chunk, input, Fuel)[k].pc])
             PROVE  /\ Analysis(chunk.code).settled
                    /\ Analysis(chunk.code).before[Execution(chunk, input, Fuel)[k].pc][r]
                         \in {Execution(chunk, input, Fuel)[k].slot[r], Top, Bottom}
  BY DEF ConstantsHold, Executes, Foldable
<1> DEFINE states == Execution(chunk, input, Fuel)
<1>1. IsRun(chunk.code, input, Slots(chunk), states)
  BY FuelAssumption, ExecutionRuns DEF IsExecution
<1>2. RegistersOf(chunk.code) \cup {0} \subseteq Slots(chunk)
  BY DEF IsChunk, Slots
<1>3. Disciplined(chunk.code, states)
  BY DEF Disciplined
<1> HIDE DEF states
<1> QED
  BY <1>1, <1>2, <1>3, ConstantsAreTrue DEF Foldable, states

-----------------------------------------------------------------------------
(* Two codes that take the same steps in every state of a run of the first   *)
(* execute alike.                                                            *)
Alike(c, other, input) ==
  \A e : InRun(c, input, e) /\ e.status = "running" =>
           OneMore(other, input, e) = OneMore(c.code, input, e)

LEMMA StepsAgree ==
  ASSUME NEW code, NEW input, NEW e, NEW n \in Nat,
         NEW g, Steps(g, code, input, e, n), NEW h, Steps(h, code, input, e, n)
  PROVE  h[n] = g[n]
<1> DEFINE S == {k \in Nat : k <= n => h[k] = g[k]}
           Then(s) == IF s.status = "running" THEN OneMore(code, input, s) ELSE s
<1>1. /\ \A k \in 0 .. n : g[k] = IF k = 0 THEN e ELSE Then(g[k - 1])
      /\ \A k \in 0 .. n : h[k] = IF k = 0 THEN e ELSE Then(h[k - 1])
  BY DEF Steps
<1> HIDE DEF Then
<1>2. 0 \in S
  BY <1>1
<1>3. ASSUME NEW k \in Nat, k \in S PROVE k + 1 \in S
  <2>1. SUFFICES ASSUME k + 1 <= n PROVE h[k + 1] = g[k + 1]
    OBVIOUS
  <2>2. k + 1 \in 0 .. n /\ k + 1 # 0 /\ k + 1 - 1 = k /\ h[k] = g[k]
    BY <1>3, <2>1
  <2> QED
    BY <1>1, <2>2
<1>4. \A k \in Nat : k \in S
  BY <1>2, <1>3, Induction
<1> QED
  BY <1>4

LEMMA StepsAlike ==
  ASSUME NEW c, NEW other, NEW input, Alike(c, other, input),
         NEW e, InRun(c, input, e), NEW n \in Nat,
         NEW g, Steps(g, c.code, input, e, n)
  PROVE  Steps(g, other, input, e, n)
<1>1. /\ g = [k \in 0 .. n |-> g[k]]
      /\ \A k \in 0 .. n : g[k] = IF k = 0 THEN e
                                  ELSE IF g[k - 1].status = "running" THEN OneMore(c.code, input, g[k - 1])
                                  ELSE g[k - 1]
  BY DEF Steps
<1>2. \A k \in 0 .. n : InRun(c, input, g[k])
  BY StepsRun
<1>3. ASSUME NEW k \in 0 .. n
      PROVE  g[k] = IF k = 0 THEN e
                    ELSE IF g[k - 1].status = "running" THEN OneMore(other, input, g[k - 1])
                    ELSE g[k - 1]
  <2>1. CASE k = 0
    BY <1>1, <2>1
  <2>2. CASE k # 0
    <3>1. k - 1 \in 0 .. n
      BY <2>2
    <3>2. g[k - 1].status = "running" => OneMore(other, input, g[k - 1]) = OneMore(c.code, input, g[k - 1])
      BY <1>2, <3>1 DEF Alike
    <3> QED
      BY <1>1, <2>2, <3>2
  <2> QED
    BY <2>1, <2>2
<1>4. g = [k \in 0 .. n |-> IF k = 0 THEN e
                            ELSE IF g[k - 1].status = "running" THEN OneMore(other, input, g[k - 1])
                            ELSE g[k - 1]]
  BY <1>1, <1>3
<1> QED
  BY <1>4 DEF Steps

(* A burst of steps, as an operator of the state it begins in.               *)
OneBurst(code, input, e) == (CHOOSE h : Steps(h, code, input, e, Burst))[Burst]

LEMMA BurstAlike ==
  ASSUME NEW c, NEW other, NEW input, Alike(c, other, input),
         NEW e, InRun(c, input, e)
  PROVE  /\ OneBurst(other, input, e) = OneBurst(c.code, input, e)
         /\ InRun(c, input, OneBurst(c.code, input, e))
<1> DEFINE g == CHOOSE h : Steps(h, c.code, input, e, Burst)
           o == CHOOSE h : Steps(h, other, input, e, Burst)
<1>1. Burst \in Nat
  BY DEF Burst
<1>2. Steps(g, c.code, input, e, Burst) /\ Steps(o, other, input, e, Burst)
  BY <1>1, StepsExist
<1>3. OneBurst(c.code, input, e) = g[Burst] /\ OneBurst(other, input, e) = o[Burst]
  BY DEF OneBurst
<1> HIDE DEF g, o
<1>4. Steps(g, other, input, e, Burst)
  BY <1>1, <1>2, StepsAlike
<1>5. o[Burst] = g[Burst]
  BY <1>1, <1>2, <1>4, StepsAgree
<1>6. InRun(c, input, g[Burst])
  BY <1>1, <1>2, StepsRun
<1> QED
  BY <1>3, <1>5, <1>6

LEMMA BurstsAlike ==
  ASSUME NEW c, NEW other, NEW input, Alike(c, other, input),
         NEW e, InRun(c, input, e), NEW n \in Nat,
         NEW g, Bursts(g, c.code, input, e, n), NEW h, Bursts(h, other, input, e, n)
  PROVE  h[n] = g[n]
<1> DEFINE S == {k \in Nat : k <= n => h[k] = g[k] /\ InRun(c, input, g[k])}
<1>1. \A k \in 0 .. n : g[k] = IF k = 0 THEN e
                               ELSE IF g[k - 1].status = "running" THEN OneBurst(c.code, input, g[k - 1])
                               ELSE g[k - 1]
  BY DEF Bursts, OneBurst
<1>2. \A k \in 0 .. n : h[k] = IF k = 0 THEN e
                               ELSE IF h[k - 1].status = "running" THEN OneBurst(other, input, h[k - 1])
                               ELSE h[k - 1]
  BY DEF Bursts, OneBurst
<1>3. 0 \in S
  BY <1>1, <1>2
<1>4. ASSUME NEW k \in Nat, k \in S PROVE k + 1 \in S
  <2>1. SUFFICES ASSUME k + 1 <= n PROVE h[k + 1] = g[k + 1] /\ InRun(c, input, g[k + 1])
    OBVIOUS
  <2>2. k + 1 \in 0 .. n /\ k + 1 # 0 /\ k + 1 - 1 = k /\ h[k] = g[k] /\ InRun(c, input, g[k])
    BY <1>4, <2>1
  <2>3. /\ OneBurst(other, input, g[k]) = OneBurst(c.code, input, g[k])
        /\ InRun(c, input, OneBurst(c.code, input, g[k]))
    BY <2>2, BurstAlike
  <2>4. g[k + 1] = IF g[k].status = "running" THEN OneBurst(c.code, input, g[k]) ELSE g[k]
    BY <1>1, <2>2
  <2>5. h[k + 1] = IF h[k].status = "running" THEN OneBurst(other, input, h[k]) ELSE h[k]
    BY <1>2, <2>2
  <2> QED
    BY <2>2, <2>3, <2>4, <2>5
<1>5. \A k \in Nat : k \in S
  BY <1>3, <1>4, Induction
<1> QED
  BY <1>5

-----------------------------------------------------------------------------
LEMMA FoldedInstr ==
  ASSUME NEW ii, NEW known
  PROVE  /\ InstructionRegisters(FoldInstr(ii, known)) \subseteq InstructionRegisters(ii)
         /\ ii.op \in Ops => FoldInstr(ii, known).op \in Ops
         /\ FoldInstr(ii, known).op \in Jumps => ii.op \in Jumps /\ FoldInstr(ii, known).imm = ii.imm
<1>1. CASE FoldInstr(ii, known) = ii
  BY <1>1
<1>2. CASE ii.op \in Branches /\ FoldInstr(ii, known) = Ri16("Jmp", 0, ii.imm)
  BY <1>2 DEF Ri16, InstructionRegisters, InstrDef, InstrUses, Block, Jumps, Branches, FlagJumps, ZeroJumps,
              Moves, Binary, Ops
<1>3. CASE FoldInstr(ii, known) = Nop
  BY <1>3 DEF Nop, Rrr, InstructionRegisters, InstrDef, InstrUses, Block, Jumps, Branches, FlagJumps, ZeroJumps,
              Moves, Binary, Ops
<1>4. CASE ii.op \in Computable /\ FoldInstr(ii, known) = Ri16("MovI", ii.d, ComputeResult(ii, known))
  <2> DEFINE v == ComputeResult(ii, known)
  <2> HIDE DEF v
  <2>1. ii.d \in InstrDef(ii)
    BY <1>4 DEF InstrDef, Computable, Jumps, Branches, FlagJumps, ZeroJumps, Moves, Binary
  <2>2. InstructionRegisters(Ri16("MovI", ii.d, v)) = {ii.d} /\ Ri16("MovI", ii.d, v).op = "MovI"
    BY DEF Ri16, InstructionRegisters, InstrDef, InstrUses, Block, Jumps, Branches, FlagJumps, ZeroJumps, Moves, Binary
  <2> QED
    BY <1>4, <2>1, <2>2 DEF v, InstructionRegisters, Jumps, Branches, FlagJumps, ZeroJumps, Ops
<1> QED
  BY <1>1, <1>2, <1>3, <1>4 DEF FoldInstr, FoldBranch

(* Every execution of the chunk on this input reads what it has written,     *)
(* has no known variable overwritten by a callee, and finds nothing known of *)
(* the register a Je or Jne is folded by.                                    *)
Keeps(c, input) ==
  \A states : IsExecution(c, input, states) =>
                Disciplined(c.code, states) /\ FlagsAlike(c.code, states)

LEMMA FoldedAlike ==
  ASSUME NEW c, IsChunk(c), Foldable(c.code), NEW input, Keeps(c, input)
  PROVE  Alike(c, ConstPropFold(c).code, input)
<1> SUFFICES ASSUME NEW e, InRun(c, input, e), e.status = "running"
             PROVE  OneMore(ConstPropFold(c).code, input, e) = OneMore(c.code, input, e)
  BY DEF Alike
<1>1. RegistersOf(c.code) \cup {0} \subseteq Slots(c) /\ "code" \in DOMAIN c
  BY DEF IsChunk, Slots
<1>2. /\ IsExecution(c, input, e.states) /\ IsRun(c.code, input, Slots(c), e.states)
      /\ e.states[Len(e.states)].status = "running"
  BY DEF InRun, IsExecution
<1>3. Len(e.states) \in DOMAIN e.states
  BY EmptySeq, LenProperties DEF InRun, IsExecution, IsRun
<1>4. Disciplined(c.code, e.states) /\ FlagsAlike(c.code, e.states)
  BY <1>2 DEF Keeps
<1>5. Step(ConstPropFold(c).code, e.states[Len(e.states)], input) = Step(c.code, e.states[Len(e.states)], input)
  BY <1>1, <1>2, <1>3, <1>4, FoldedStepAlike
<1> QED
  BY <1>5 DEF OneMore

LEMMA FoldedExecution ==
  ASSUME NEW c, IsChunk(c), Foldable(c.code), RegistersOf(c.code) \subseteq 0 .. c.regs,
         NEW input, Keeps(c, input), NEW fuel \in Nat
  PROVE  Execution(ConstPropFold(c), input, fuel) = Execution(c, input, fuel)
<1> DEFINE f == ConstPropFold(c)
           e == [status |-> "running", states |-> <<Start(c, input, 0 .. c.regs)>>]
           n == fuel \div Burst
           g == CHOOSE g : Bursts(g, c.code, input, e, n)
           h == CHOOSE h : Bursts(h, f.code, input, e, n)
<1>1. f = [c EXCEPT !.code = [k \in DOMAIN c.code |-> FoldInstr(c.code[k], Analysis(c.code).before[k])]]
  BY DEF ConstPropFold
<1>2. /\ f.regs = c.regs /\ f.params = c.params
      /\ f.code = [k \in DOMAIN c.code |-> FoldInstr(c.code[k], Analysis(c.code).before[k])]
  BY <1>1 DEF IsChunk
<1> HIDE DEF f
<1>3. RegistersOf(f.code) \subseteq RegistersOf(c.code)
  BY <1>2, FoldedInstr DEF RegistersOf
<1>4. Slots(c) = 0 .. c.regs /\ RegistersOf(f.code) \cup 0 .. f.regs = 0 .. c.regs
  BY <1>2, <1>3 DEF Slots
<1>5. Start(f, input, 0 .. c.regs) = Start(c, input, 0 .. c.regs)
  BY <1>2 DEF Start
<1>6. Execution(f, input, fuel) = h[n].states
  <2>1. Execution(f, input, fuel) =
          (CHOOSE x : Bursts(x, f.code, input,
                             [status |-> "running", states |-> <<Start(f, input, RegistersOf(f.code) \cup 0 .. f.regs)>>],
                             n))[n].states
    BY ExecutionIs
  <2> QED
    BY <1>4, <1>5, <2>1
<1>7. Execution(c, input, fuel) = g[n].states
  <2>1. Execution(c, input, fuel) =
          (CHOOSE x : Bursts(x, c.code, input,
                             [status |-> "running", states |-> <<Start(c, input, RegistersOf(c.code) \cup 0 .. c.regs)>>],
                             n))[n].states
    BY ExecutionIs
  <2>2. RegistersOf(c.code) \cup 0 .. c.regs = 0 .. c.regs
    OBVIOUS
  <2> QED
    BY <2>1, <2>2
<1>8. n \in Nat
  BY DEF Burst
<1>9. Bursts(g, c.code, input, e, n) /\ Bursts(h, f.code, input, e, n)
  BY <1>8, BurstsExist
<1>10. InRun(c, input, e)
  BY <1>4, StartRuns
<1>11. Alike(c, f.code, input)
  BY FoldedAlike DEF f
<1> HIDE DEF g, h, e, n
<1>12. h[n] = g[n]
  BY <1>8, <1>9, <1>10, <1>11, BurstsAlike
<1> QED
  BY <1>6, <1>7, <1>12 DEF f

(* The pass preserves behaviour: if the chunk it is given is valid and its   *)
(* executions, however long, keep both conditions and FlagsAlike, the folded *)
(* chunk is valid and does, on every input, what the function did before any *)
(* pass.                                                                     *)
THEOREM FoldingPreservesBehaviour ==
  ASSUME PassesPreserveBehaviour, FoldConstants,
         IsChunk(chunk), Foldable(chunk.code), \A input \in Inputs : Keeps(chunk, input)
  PROVE  PassesPreserveBehaviour'
<1> DEFINE f == ConstPropFold(chunk)
<1>1. phase = "inlined" /\ phase' = "folded" /\ chunk' = f /\ UNCHANGED expected
  BY DEF FoldConstants, Pass
<1>2. /\ f.regs = chunk.regs /\ f.params = chunk.params
      /\ f.code = [k \in DOMAIN chunk.code |-> FoldInstr(chunk.code[k], Analysis(chunk.code).before[k])]
  BY DEF ConstPropFold, IsChunk
<1>3. /\ chunk.params <= chunk.regs
      /\ RegistersOf(chunk.code) \subseteq 0 .. chunk.regs - 1
      /\ \A k \in DOMAIN chunk.code :
           /\ chunk.code[k].op \in Ops
           /\ chunk.code[k].op \in Jumps => chunk.code[k].imm \in 1 .. Len(chunk.code) + 1
  BY <1>1 DEF PassesPreserveBehaviour, ChunkIsValid, Passes
<1> HIDE DEF f
<1>4. Len(f.code) = Len(chunk.code)
  <2>1. DOMAIN chunk.code = 1 .. Len(chunk.code) /\ Len(chunk.code) \in Nat
    BY LeadersArePositions DEF Foldable
  <2> QED
    BY <1>2, <2>1
<1>5. ChunkIsValid'
  <2>1. RegistersOf(f.code) \subseteq RegistersOf(chunk.code)
    BY <1>2, FoldedInstr DEF RegistersOf
  <2>2. \A k \in DOMAIN f.code : f.code[k].op \in Ops /\ (f.code[k].op \in Jumps => f.code[k].imm \in 1 .. Len(f.code) + 1)
    BY <1>2, <1>3, <1>4, FoldedInstr
  <2> QED
    BY <1>1, <1>2, <1>3, <2>1, <2>2 DEF ChunkIsValid
<1>6. ASSUME NEW input \in Inputs PROVE Outcome(f, input, 2 * Fuel) = Outcome(chunk, input, 2 * Fuel)
  <2>1. 2 * Fuel \in Nat /\ RegistersOf(chunk.code) \subseteq 0 .. chunk.regs
    BY <1>3, FuelAssumption DEF IsChunk
  <2>2. Execution(f, input, 2 * Fuel) = Execution(chunk, input, 2 * Fuel)
    BY <2>1, FoldedExecution DEF f
  <2> QED
    BY <2>2 DEF Outcome
<1>7. \A input \in Inputs : Agree(expected[input], Outcome(chunk, input, 2 * Fuel))
  BY <1>1 DEF PassesPreserveBehaviour, Passes
<1> QED
  BY <1>1, <1>5, <1>6, <1>7 DEF PassesPreserveBehaviour

-----------------------------------------------------------------------------
(* Linear scan.  The least and the greatest number of a set are there.       *)
LEMMA MinOfIs ==
  ASSUME NEW S, S \subseteq Nat, S # {}
  PROVE  MinOf(S) \in S /\ \A k \in S : MinOf(S) <= k
<1> DEFINE T == {n \in Nat : \A k \in S : n <= k}
<1>1. SUFFICES ASSUME ~ \E m \in S : \A k \in S : m <= k PROVE FALSE
  BY DEF MinOf
<1>2. 0 \in T
  OBVIOUS
<1>3. ASSUME NEW n \in Nat, n \in T PROVE n + 1 \in T
  <2>1. n \notin S
    BY <1>1, <1>3
  <2>2. ASSUME NEW k \in S PROVE n + 1 <= k
    <3>1. n <= k /\ n # k /\ k \in Nat
      BY <1>3, <2>1
    <3> QED
      BY <3>1
  <2> QED
    BY <2>2
<1>4. \A n \in Nat : n \in T
  <2> HIDE DEF T
  <2> QED
    BY <1>2, <1>3, Induction
<1>5. PICK k \in S : TRUE
  OBVIOUS
<1> QED
  <2>1. k + 1 \in T
    BY <1>4
  <2> QED
    BY <2>1

LEMMA MaxOfIs ==
  ASSUME NEW S, S \subseteq Nat, S # {}, IsFiniteSet(S)
  PROVE  MaxOf(S) \in S /\ \A k \in S : k <= MaxOf(S)
<1> DEFINE B == {b \in Nat : \A k \in S : k <= b}
           b == MinOf(B)
<1>1. B # {}
  <2> DEFINE N == {n \in Nat : \A T \in SUBSET S : Cardinality(T) = n => \E m \in Nat : \A k \in T : k <= m}
  <2>1. 0 \in N
    <3>1. \A T \in SUBSET S : Cardinality(T) = 0 => T = {}
      BY FS_Subset, FS_EmptySet
    <3> QED
      BY <3>1
  <2>2. ASSUME NEW n \in Nat, n \in N PROVE n + 1 \in N
    <3>1. ASSUME NEW T \in SUBSET S, Cardinality(T) = n + 1
          PROVE  \E m \in Nat : \A k \in T : k <= m
      <4>1. IsFiniteSet(T)
        BY FS_Subset
      <4>2. Cardinality({}) = 0
        BY FS_EmptySet
      <4>3. PICK x \in T : TRUE
        <5>1. Cardinality(T) # 0
          BY <3>1
        <5>2. T # {}
          BY <4>2, <5>1
        <5> QED
          BY <5>2
      <4>4. Cardinality(T \ {x}) = Cardinality(T) - 1
        BY <4>1, <4>3, FS_RemoveElement
      <4>5. Cardinality(T \ {x}) = n /\ T \ {x} \in SUBSET S
        BY <3>1, <4>4
      <4>6. PICK m \in Nat : \A k \in T \ {x} : k <= m
        BY <2>2, <4>5
      <4>7. x \in Nat /\ T \subseteq Nat
        OBVIOUS
      <4>8. \A k \in T : k <= m + x
        BY <4>6, <4>7
      <4> QED
        BY <4>7, <4>8
    <3>2. n + 1 \in Nat
      OBVIOUS
    <3> QED
      BY <3>1, <3>2, Zenon
  <2>3. Cardinality(S) \in Nat
    BY FS_CardinalityType
  <2> HIDE DEF N
  <2>4. Cardinality(S) \in N
    BY <2>1, <2>2, <2>3, Induction
  <2> QED
    BY <2>4 DEF N
<1>2. b \in B /\ \A c \in B : b <= c
  <2> HIDE DEF B
  <2>1. B \subseteq Nat
    BY DEF B
  <2> QED
    BY <1>1, <2>1, MinOfIs
<1> HIDE DEF b
<1>3. b \in S
  <2> SUFFICES ASSUME b \notin S PROVE FALSE
    OBVIOUS
  <2>1. PICK k \in S : TRUE
    OBVIOUS
  <2>2. b \in Nat /\ \A c \in S : c <= b /\ c # b
    BY <1>2
  <2>3. b - 1 \in Nat /\ \A c \in S : c <= b - 1
    BY <2>1, <2>2
  <2>4. b - 1 \in B
    BY <2>3
  <2> QED
    BY <1>2, <2>4
<1> QED
  BY <1>2, <1>3 DEF MaxOf

LEMMA NextFreeIs ==
  ASSUME NEW n \in Nat, NEW taken, IsFiniteSet(taken)
  PROVE  NextFree(n, taken) \in Nat /\ n <= NextFree(n, taken) /\ NextFree(n, taken) \notin taken
<1> DEFINE c == Cardinality(taken)
           S == {k \in n .. n + c : k \notin taken}
<1>1. c \in Nat
  BY FS_CardinalityType
<1>2. S # {}
  <2> SUFFICES ASSUME n .. n + c \subseteq taken PROVE FALSE
    OBVIOUS
  <2>1. Cardinality(n .. n + c) = c + 1
    <3> HIDE DEF c
    <3>1. n + c \in Int /\ n \in Int /\ n <= n + c
      BY <1>1
    <3>2. Cardinality(n .. n + c) = IF n > n + c THEN 0 ELSE (n + c) - n + 1
      BY <3>1, FS_Interval
    <3> QED
      BY <1>1, <3>2
  <2>2. Cardinality(n .. n + c) <= c
    BY FS_Subset
  <2> QED
    BY <1>1, <2>1, <2>2
<1> HIDE DEF c
<1>3. S \subseteq Nat
  BY <1>1
<1>4. MinOf(S) \in S
  BY <1>2, <1>3, MinOfIs
<1> QED
  BY <1>1, <1>4 DEF NextFree, c

-----------------------------------------------------------------------------
AreIntervals(intervals) ==
  /\ IsFiniteSet(DOMAIN intervals) /\ DOMAIN intervals \subseteq Nat
  /\ \A r \in DOMAIN intervals : intervals[r].start \in Nat /\ intervals[r].end \in Nat

Overlap(intervals, q, r) ==
  intervals[q].start <= intervals[r].end /\ intervals[r].start <= intervals[q].end

LEMMA NextIntervalIs ==
  ASSUME NEW intervals, AreIntervals(intervals),
         NEW left, left \subseteq DOMAIN intervals, left # {}
  PROVE  /\ NextInterval(intervals, left) \in left
         /\ \A q \in left : intervals[NextInterval(intervals, left)].start <= intervals[q].start
<1> DEFINE starts == {intervals[q].start : q \in left}
           a == MinOf(starts)
           first == {q \in left : intervals[q].start = a}
           ends == {intervals[q].end : q \in first}
           b == MinOf(ends)
           second == {q \in first : intervals[q].end = b}
           r == MinOf(second)
<1>0. left \subseteq Nat /\ \A q \in left : intervals[q].start \in Nat /\ intervals[q].end \in Nat
  BY DEF AreIntervals
<1>1. a \in starts /\ \A k \in starts : a <= k
  <2>1. starts \subseteq Nat /\ starts # {}
    BY <1>0
  <2> HIDE DEF starts
  <2> QED
    BY <2>1, MinOfIs
<1> HIDE DEF a
<1>2. b \in ends /\ \A k \in ends : b <= k
  <2>1. ends \subseteq Nat /\ ends # {}
    BY <1>0, <1>1
  <2> HIDE DEF ends
  <2> QED
    BY <2>1, MinOfIs
<1> HIDE DEF b
<1>3. r \in second /\ \A k \in second : r <= k
  <2>1. second \subseteq Nat /\ second # {}
    BY <1>0, <1>2
  <2> HIDE DEF second
  <2> QED
    BY <2>1, MinOfIs
<1> HIDE DEF r
<1>4. ASSUME NEW q \in left \ {r} PROVE Precedes(intervals, r, q)
  <2>0. r \in left /\ intervals[r].start = a /\ intervals[r].end = b /\ r \in Nat /\ q \in Nat
    BY <1>0, <1>3
  <2>1. CASE q \notin first
    <3>1. a <= intervals[q].start /\ a # intervals[q].start /\ a \in Nat /\ intervals[q].start \in Nat
      BY <1>0, <1>1, <2>1
    <3> QED
      BY <2>0, <3>1 DEF Precedes
  <2>2. CASE q \in first /\ q \notin second
    <3>1. b <= intervals[q].end /\ b # intervals[q].end /\ b \in Nat /\ intervals[q].end \in Nat
      BY <1>0, <1>2, <2>2
    <3> QED
      BY <2>0, <2>2, <3>1 DEF Precedes
  <2>3. CASE q \in second
    <3>1. r < q /\ intervals[q].start = a /\ intervals[q].end = b
      BY <1>3, <2>0, <2>3
    <3> QED
      BY <2>0, <3>1 DEF Precedes
  <2> QED
    BY <2>1, <2>2, <2>3
<1>5. r \in left
  BY <1>3
<1> DEFINE n == NextInterval(intervals, left)
<1>6. n \in left /\ \A q \in left \ {n} : Precedes(intervals, n, q)
  BY <1>4, <1>5 DEF NextInterval
<1> HIDE DEF n
<1>7. ASSUME NEW q \in left PROVE intervals[n].start <= intervals[q].start
  <2>1. intervals[q].start \in Nat /\ intervals[n].start \in Nat
    BY <1>0, <1>6
  <2>2. CASE q = n
    BY <2>1, <2>2
  <2>3. CASE q # n
    BY <1>6, <2>1, <2>3 DEF Precedes
  <2> QED
    BY <2>2, <2>3
<1> QED
  BY <1>6, <1>7 DEF n

(* In the middle of the scan: the registers done have slots, the others      *)
(* start later; slots of active intervals are distinct and not free; what is *)
(* not active ended before anything left starts.                             *)
SlotsInv(pinned, s) ==
  \A q \in DOMAIN s.slot :
    /\ s.slot[q] \in Nat
    /\ q \in pinned => s.slot[q] = q
    /\ q \notin pinned => s.slot[q] \notin pinned /\ s.slot[q] < s.fresh

ActiveInv(intervals, pinned, s) ==
  /\ s.active \subseteq DOMAIN s.slot \ pinned
  /\ \A p, q \in s.active : s.slot[p] = s.slot[q] => p = q
  /\ \A q \in s.active : s.slot[q] \notin s.free
  /\ \A q \in DOMAIN s.slot \ (pinned \cup s.active) :
       \A r \in s.left : intervals[q].end < intervals[r].start

ApartInv(intervals, pinned, s) ==
  \A p, q \in DOMAIN s.slot \ pinned :
    s.slot[p] = s.slot[q] => p = q \/ ~ Overlap(intervals, p, q)

ScanInv(intervals, pinned, s) ==
  /\ DOMAIN s.slot \cup s.left = DOMAIN intervals
  /\ DOMAIN s.slot \cap s.left = {}
  /\ s.fresh \in Nat /\ \A v \in s.free : v \in Nat /\ v < s.fresh
  /\ \A q \in DOMAIN s.slot : \A r \in s.left : intervals[q].start <= intervals[r].start
  /\ SlotsInv(pinned, s)
  /\ ActiveInv(intervals, pinned, s)
  /\ ApartInv(intervals, pinned, s)

LEMMA AssignKeeps ==
  ASSUME NEW intervals, AreIntervals(intervals), NEW pinned, IsFiniteSet(pinned),
         NEW s, ScanInv(intervals, pinned, s), s.left # {}
  PROVE  LET t == Assign(s, intervals, pinned)
             r == NextInterval(intervals, s.left)
         IN ScanInv(intervals, pinned, t) /\ r \in s.left /\ t.left = s.left \ {r}
<1> DEFINE t == Assign(s, intervals, pinned)
           r == NextInterval(intervals, s.left)
           expired == {q \in s.active : intervals[q].end < intervals[r].start}
           free == s.free \cup {s.slot[q] : q \in expired}
           usable == free \ pinned
           fresh == NextFree(s.fresh, pinned)
           active == s.active \ expired
           v == t.slot[r]
<1>1. r \in s.left /\ \A q \in s.left : intervals[r].start <= intervals[q].start
  BY NextIntervalIs DEF ScanInv
<1> HIDE DEF r
<1>2. /\ r \in DOMAIN intervals /\ r \notin DOMAIN s.slot
      /\ \A q \in DOMAIN intervals : q \in Nat /\ intervals[q].start \in Nat /\ intervals[q].end \in Nat
      /\ DOMAIN s.slot \subseteq DOMAIN intervals /\ s.left \subseteq DOMAIN intervals
  BY <1>1 DEF ScanInv, AreIntervals
<1>3. /\ s.active \subseteq DOMAIN s.slot \ pinned
      /\ \A q \in DOMAIN s.slot : s.slot[q] \in Nat
      /\ \A q \in DOMAIN s.slot \ pinned : s.slot[q] \notin pinned /\ s.slot[q] < s.fresh
      /\ s.fresh \in Nat
  BY DEF ScanInv, SlotsInv, ActiveInv
<1>4. \A f \in free : f \in Nat /\ f < s.fresh
  BY <1>3 DEF ScanInv
<1>5. \A q \in active : s.slot[q] \notin free
  BY <1>3 DEF ScanInv, ActiveInv
<1>6. fresh \in Nat /\ s.fresh <= fresh /\ fresh \notin pinned
  BY <1>3, NextFreeIs
<1>7. \A q \in DOMAIN s.slot \ (pinned \cup active) :
        \A p \in s.left : intervals[q].end < intervals[p].start
  <2> SUFFICES ASSUME NEW q \in DOMAIN s.slot \ (pinned \cup active), NEW p \in s.left
               PROVE  intervals[q].end < intervals[p].start
    OBVIOUS
  <2>1. CASE q \in s.active
    <3>1. intervals[q].end < intervals[r].start /\ intervals[r].start <= intervals[p].start
      BY <1>1, <2>1
    <3> QED
      BY <1>2, <3>1
  <2>2. CASE q \notin s.active
    BY <2>2 DEF ScanInv, ActiveInv
  <2> QED
    BY <2>1, <2>2
<1> DEFINE low == MinOf(usable)
<1>8. usable # {} => low \in usable
  <2>1. usable \subseteq Nat
    BY <1>4
  <2> HIDE DEF usable
  <2> QED
    BY <2>1, MinOfIs
<1> HIDE DEF low, fresh
<1>9. /\ t.left = s.left \ {r}
      /\ \/ /\ r \in pinned /\ t.slot = SlotGiven(s.slot, r, r)
            /\ t.active = active /\ t.free = free /\ t.fresh = s.fresh
         \/ /\ r \notin pinned /\ usable # {} /\ t.slot = SlotGiven(s.slot, r, low)
            /\ t.active = active \cup {r} /\ t.free = free \ {low} /\ t.fresh = s.fresh
         \/ /\ r \notin pinned /\ t.slot = SlotGiven(s.slot, r, fresh)
            /\ t.active = active \cup {r} /\ t.free = free /\ t.fresh = fresh + 1
  BY DEF Assign, r, low, fresh
<1> HIDE DEF t
<1>10. /\ DOMAIN t.slot = DOMAIN s.slot \cup {r}
       /\ \A q \in DOMAIN s.slot : t.slot[q] = s.slot[q]
  <2>1. PICK w : t.slot = SlotGiven(s.slot, r, w)
    BY <1>9
  <2>2. DOMAIN t.slot = DOMAIN s.slot \cup {r} /\ \A q \in DOMAIN s.slot \ {r} : t.slot[q] = s.slot[q]
    BY <2>1 DEF SlotGiven
  <2> QED
    BY <1>2, <2>2
<1>11. \/ /\ r \in pinned /\ v = r
          /\ t.active = active /\ t.free = free /\ t.fresh = s.fresh
       \/ /\ r \notin pinned /\ v \in usable
          /\ t.active = active \cup {r} /\ t.free = free \ {v} /\ t.fresh = s.fresh
       \/ /\ r \notin pinned /\ v = fresh
          /\ t.active = active \cup {r} /\ t.free = free /\ t.fresh = fresh + 1
  <2>1. \A w : t.slot = SlotGiven(s.slot, r, w) => v = w
    BY DEF SlotGiven
  <2> QED
    BY <1>8, <1>9, <2>1
<1> HIDE DEF v, free, usable, active, expired
<1>12. v \in Nat /\ (r \notin pinned => v \notin pinned /\ v < t.fresh /\ v \notin t.free)
       /\ t.fresh \in Nat /\ s.fresh <= t.fresh
  BY <1>2, <1>3, <1>4, <1>6, <1>11 DEF usable
<1>13. \A q \in active : r \notin pinned => s.slot[q] # v
  <2> SUFFICES ASSUME NEW q \in active, r \notin pinned PROVE s.slot[q] # v
    OBVIOUS
  <2>1. s.slot[q] \notin free /\ s.slot[q] \in Nat /\ s.slot[q] < s.fresh
    BY <1>3, <1>5 DEF active
  <2> QED
    BY <1>3, <1>6, <1>11, <2>1 DEF usable
<1>14. active \subseteq DOMAIN s.slot \ pinned /\ active \subseteq s.active
  BY <1>3 DEF active
<1>15. SlotsInv(pinned, t)
  <2> SUFFICES ASSUME NEW q \in DOMAIN t.slot
               PROVE  /\ t.slot[q] \in Nat
                      /\ q \in pinned => t.slot[q] = q
                      /\ q \notin pinned => t.slot[q] \notin pinned /\ t.slot[q] < t.fresh
    BY DEF SlotsInv
  <2>1. CASE q = r
    BY <1>11, <1>12, <2>1 DEF v
  <2>2. CASE q \in DOMAIN s.slot
    <3>1. t.slot[q] = s.slot[q]
      BY <1>10, <2>2
    <3> QED
      BY <1>3, <1>12, <2>2, <3>1 DEF ScanInv, SlotsInv
  <2> QED
    BY <1>10, <2>1, <2>2
<1>16. ActiveInv(intervals, pinned, t)
  <2>1. t.active \subseteq DOMAIN t.slot \ pinned
    BY <1>10, <1>11, <1>14
  <2>2. \A q \in active : t.slot[q] = s.slot[q] /\ s.slot[q] \notin free
    BY <1>5, <1>10, <1>14
  <2>3. \A p, q \in active : s.slot[p] = s.slot[q] => p = q
    BY <1>14 DEF ScanInv, ActiveInv
  <2>4. \A p, q \in t.active : t.slot[p] = t.slot[q] => p = q
    BY <1>11, <1>13, <2>2, <2>3 DEF v
  <2>5. \A q \in t.active : t.slot[q] \notin t.free
    BY <1>11, <1>12, <2>2 DEF v
  <2>6. ASSUME NEW q \in DOMAIN t.slot \ (pinned \cup t.active), NEW p \in t.left
        PROVE  intervals[q].end < intervals[p].start
    <3>1. q \in DOMAIN s.slot \ (pinned \cup active) /\ p \in s.left
      BY <1>9, <1>10, <1>11, <2>6
    <3> QED
      BY <1>7, <3>1
  <2> QED
    BY <2>1, <2>4, <2>5, <2>6 DEF ActiveInv
<1>17. ApartInv(intervals, pinned, t)
  <2>1. ASSUME NEW q \in DOMAIN s.slot \ pinned, r \notin pinned, s.slot[q] = v
        PROVE  ~ Overlap(intervals, q, r) /\ ~ Overlap(intervals, r, q)
    <3>1. q \notin active
      BY <1>13, <2>1
    <3>2. intervals[q].end < intervals[r].start
      BY <1>1, <1>7, <3>1
    <3>3. intervals[q].end \in Nat /\ intervals[r].start \in Nat
      BY <1>2
    <3> QED
      BY <3>2, <3>3 DEF Overlap
  <2>2. \A p, q \in DOMAIN s.slot \ pinned :
          s.slot[p] = s.slot[q] => p = q \/ ~ Overlap(intervals, p, q)
    BY DEF ScanInv, ApartInv
  <2> SUFFICES ASSUME NEW p \in DOMAIN t.slot \ pinned, NEW q \in DOMAIN t.slot \ pinned,
                      t.slot[p] = t.slot[q], p # q
               PROVE  ~ Overlap(intervals, p, q)
    BY DEF ApartInv
  <2>3. CASE p = r
    <3>1. q \in DOMAIN s.slot \ pinned /\ s.slot[q] = v
      BY <1>10, <2>3 DEF v
    <3> QED
      BY <2>1, <2>3, <3>1
  <2>4. CASE q = r
    <3>1. p \in DOMAIN s.slot \ pinned /\ s.slot[p] = v
      BY <1>10, <2>4 DEF v
    <3> QED
      BY <2>1, <2>4, <3>1
  <2>5. CASE p # r /\ q # r
    <3>1. p \in DOMAIN s.slot \ pinned /\ q \in DOMAIN s.slot \ pinned /\ s.slot[p] = s.slot[q]
      BY <1>10, <2>5
    <3> QED
      BY <2>2, <3>1
  <2> QED
    BY <2>3, <2>4, <2>5
<1>18. \A q \in DOMAIN t.slot : \A p \in t.left : intervals[q].start <= intervals[p].start
  BY <1>1, <1>9, <1>10 DEF ScanInv
<1>19. \A f \in t.free : f \in Nat /\ f < t.fresh
  <2>1. t.free \subseteq free
    BY <1>11
  <2> QED
    BY <1>3, <1>4, <1>12, <2>1
<1>20. DOMAIN t.slot \cup t.left = DOMAIN intervals /\ DOMAIN t.slot \cap t.left = {}
  BY <1>1, <1>9, <1>10 DEF ScanInv
<1>21. ScanInv(intervals, pinned, t)
  BY <1>12, <1>15, <1>16, <1>17, <1>18, <1>19, <1>20 DEF ScanInv
<1> QED
  BY <1>1, <1>9, <1>21 DEF r, t
(* The scan, interval by interval.                                           *)
ScanStart(intervals) ==
  [slot |-> <<>>, active |-> {}, free |-> {}, fresh |-> 0, left |-> DOMAIN intervals]

Scans(g, intervals, pinned, n) ==
  g = [k \in 0 .. n |-> IF k = 0 THEN ScanStart(intervals) ELSE Assign(g[k - 1], intervals, pinned)]

LEMMA ScansExist ==
  ASSUME NEW intervals, NEW pinned
  PROVE  \A n \in Nat : \E g : Scans(g, intervals, pinned, n)
<1> DEFINE first == ScanStart(intervals)
           onward(s) == Assign(s, intervals, pinned)
           S == {n \in Nat : \E g : Scans(g, intervals, pinned, n)}
<1>1. \A n, g : Scans(g, intervals, pinned, n) <=> g = [k \in 0 .. n |-> IF k = 0 THEN first ELSE onward(g[k - 1])]
  BY DEF Scans
<1> HIDE DEF onward, first
<1>2. 0 \in S
  <2> DEFINE g == [k \in 0 .. 0 |-> first]
  <2>1. g = [k \in 0 .. 0 |-> IF k = 0 THEN first ELSE onward(g[k - 1])]
    OBVIOUS
  <2>2. Scans(g, intervals, pinned, 0)
    BY <1>1, <2>1
  <2> QED
    BY <2>2
<1>3. ASSUME NEW n \in Nat, n \in S PROVE n + 1 \in S
  <2>1. PICK g : Scans(g, intervals, pinned, n)
    BY <1>3
  <2> DEFINE h == [k \in 0 .. n + 1 |-> IF k = n + 1 THEN onward(g[k - 1]) ELSE g[k]]
  <2>2. \A k \in 0 .. n : g[k] = IF k = 0 THEN first ELSE onward(g[k - 1])
    BY <1>1, <2>1
  <2>3. ASSUME NEW k \in 0 .. n + 1 PROVE h[k] = IF k = 0 THEN first ELSE onward(h[k - 1])
    <3>1. CASE k = n + 1
      <4>1. k - 1 \in 0 .. n + 1 /\ k - 1 # n + 1 /\ k # 0
        BY <3>1
      <4> QED
        BY <3>1, <4>1
    <3>2. CASE k # n + 1
      <4>1. h[k] = g[k] /\ k \in 0 .. n
        BY <3>2
      <4>2. k # 0 => k - 1 \in 0 .. n + 1 /\ k - 1 # n + 1
        BY <3>2
      <4> QED
        BY <2>2, <4>1, <4>2
    <3> QED
      BY <3>1, <3>2
  <2>4. h = [k \in 0 .. n + 1 |-> IF k = 0 THEN first ELSE onward(h[k - 1])]
    BY <2>3
  <2>5. Scans(h, intervals, pinned, n + 1)
    BY <1>1, <2>4
  <2> QED
    BY <2>5
<1>4. \A n \in Nat : n \in S
  BY <1>2, <1>3, Induction
<1> QED
  BY <1>4

(* Linear scan gives every register a slot, a pinned one its own and no      *)
(* other that one, and registers whose intervals overlap never share one.    *)
IsAllocation(slot, intervals, pinned) ==
  /\ DOMAIN slot = DOMAIN intervals
  /\ \A r \in DOMAIN slot : slot[r] \in Nat /\ (r \in pinned => slot[r] = r)
  /\ \A q, r \in DOMAIN slot : slot[q] = slot[r] => q = r \/ ~ Overlap(intervals, q, r)
  /\ \A r \in DOMAIN slot : slot[r] \in pinned => r \in pinned

THEOREM OverlapsAreApart ==
  ASSUME NEW intervals, AreIntervals(intervals), NEW pinned, IsFiniteSet(pinned)
  PROVE  IsAllocation(LinearScan(intervals, pinned), intervals, pinned)
<1> DEFINE n == Cardinality(DOMAIN intervals)
           g == CHOOSE g : Scans(g, intervals, pinned, n)
<1>1. n \in Nat
  BY FS_CardinalityType DEF AreIntervals
<1>2. Scans(g, intervals, pinned, n)
  BY <1>1, ScansExist
<1>3. LinearScan(intervals, pinned) = g[n].slot
  BY DEF LinearScan, Scans, ScanStart
<1> HIDE DEF g, n
<1> DEFINE Done(s, k) == /\ ScanInv(intervals, pinned, s) /\ IsFiniteSet(s.left)
                         /\ Cardinality(s.left) = n - k
           S == {k \in Nat : k <= n => Done(g[k], k)}
<1>4. /\ g[0] = ScanStart(intervals)
      /\ \A k \in 0 .. n : k # 0 => g[k] = Assign(g[k - 1], intervals, pinned)
  <2>1. g = [k \in 0 .. n |-> IF k = 0 THEN ScanStart(intervals) ELSE Assign(g[k - 1], intervals, pinned)]
    BY <1>2 DEF Scans
  <2>2. \A k \in 0 .. n : g[k] = IF k = 0 THEN ScanStart(intervals) ELSE Assign(g[k - 1], intervals, pinned)
    BY <2>1
  <2>3. 0 \in 0 .. n
    BY <1>1
  <2> QED
    BY <2>2, <2>3
<1>5. 0 \in S
  <2>1. DOMAIN ScanStart(intervals).slot = {} /\ ScanStart(intervals).left = DOMAIN intervals
        /\ ScanStart(intervals).fresh = 0 /\ ScanStart(intervals).free = {} /\ ScanStart(intervals).active = {}
    BY DEF ScanStart
  <2>2. ScanInv(intervals, pinned, ScanStart(intervals))
    BY <2>1 DEF ScanInv, SlotsInv, ActiveInv, ApartInv
  <2>3. IsFiniteSet(DOMAIN intervals) /\ Cardinality(DOMAIN intervals) = n - 0
    BY <1>1 DEF AreIntervals, n
  <2>4. Done(g[0], 0)
    BY <1>4, <2>1, <2>2, <2>3
  <2> QED
    BY <2>4
<1>6. ASSUME NEW k \in Nat, k \in S PROVE k + 1 \in S
  <2> SUFFICES ASSUME k + 1 <= n PROVE Done(g[k + 1], k + 1)
    OBVIOUS
  <2>1. k + 1 \in 0 .. n /\ k + 1 # 0 /\ k + 1 - 1 = k /\ k <= n
    BY <1>1
  <2>2. Done(g[k], k)
    BY <1>6, <2>1
  <2>3. g[k + 1] = Assign(g[k], intervals, pinned)
    BY <1>4, <2>1
  <2>4. Cardinality(g[k].left) # 0
    BY <1>1, <2>1, <2>2
  <2>5. g[k].left # {}
    BY <2>4, FS_EmptySet
  <2> DEFINE r == NextInterval(intervals, g[k].left)
  <2>6. ScanInv(intervals, pinned, g[k + 1]) /\ r \in g[k].left /\ g[k + 1].left = g[k].left \ {r}
    BY <2>2, <2>3, <2>5, AssignKeeps
  <2> HIDE DEF r
  <2>7. IsFiniteSet(g[k + 1].left) /\ Cardinality(g[k + 1].left) = Cardinality(g[k].left) - 1
    BY <2>2, <2>6, FS_RemoveElement, ZenonT(60)
  <2>8. Cardinality(g[k + 1].left) = n - (k + 1)
    BY <1>1, <2>2, <2>7
  <2> QED
    BY <2>6, <2>7, <2>8
<1>7. \A k \in Nat : k \in S
  <2> HIDE DEF S
  <2> QED
    BY <1>5, <1>6, Induction
<1>8. Done(g[n], n)
  BY <1>1, <1>7
<1>9. g[n].left = {}
  <2>1. Cardinality(g[n].left) = 0
    BY <1>1, <1>8
  <2> QED
    BY <1>8, <2>1, FS_EmptySet
<1> DEFINE slot == g[n].slot
<1>10. DOMAIN slot = DOMAIN intervals
  BY <1>8, <1>9 DEF ScanInv
<1>11. /\ \A r \in DOMAIN slot : slot[r] \in Nat /\ (r \in pinned => slot[r] = r)
       /\ \A r \in DOMAIN slot : r \notin pinned => slot[r] \notin pinned
  BY <1>8 DEF ScanInv, SlotsInv
<1>12. \A p, q \in DOMAIN slot \ pinned : slot[p] = slot[q] => p = q \/ ~ Overlap(intervals, p, q)
  BY <1>8 DEF ScanInv, ApartInv
<1> HIDE DEF slot
<1>13. \A q, r \in DOMAIN slot : slot[q] = slot[r] => q = r \/ ~ Overlap(intervals, q, r)
  <2> SUFFICES ASSUME NEW q \in DOMAIN slot, NEW r \in DOMAIN slot, slot[q] = slot[r]
               PROVE  q = r \/ ~ Overlap(intervals, q, r)
    OBVIOUS
  <2>1. CASE q \in pinned \/ r \in pinned
    BY <1>11, <2>1
  <2>2. CASE q \notin pinned /\ r \notin pinned
    BY <1>12, <2>2
  <2> QED
    BY <2>1, <2>2
<1>14. IsAllocation(slot, intervals, pinned)
  BY <1>10, <1>11, <1>13 DEF IsAllocation
<1> QED
  BY <1>3, <1>14 DEF slot
-----------------------------------------------------------------------------
(* What register allocation asks of a chunk: code generation, inlining and   *)
(* the passes before it return no other.                                     *)
Allocatable(c) ==
  /\ IsChunk(c) /\ c.params \in Nat /\ c.params <= c.regs
  /\ RegistersOf(c.code) \subseteq 0 .. c.regs - 1
  /\ IsCode(c.code)
  /\ \A k \in DOMAIN c.code :
       LET i == c.code[k]
       IN /\ {i.d, i.x, i.y} \subseteq RegistersOf(c.code) \cup {0}
          /\ i.op = "Lea" => i.n # 0

(* An interval covers every mention of its register.                         *)
Covers(c, intervals) ==
  /\ DOMAIN intervals = RegistersOf(c.code) \cup 0 .. c.params - 1
  /\ \A r \in DOMAIN intervals :
       /\ intervals[r].start \in Nat /\ intervals[r].end \in Nat
       /\ \A k \in Mentions(c, r) : k \in Nat /\ intervals[r].start <= k /\ k <= intervals[r].end

LEMMA ExtendCovers ==
  ASSUME NEW c, NEW intervals, Covers(c, intervals), NEW j \in Nat
  PROVE  Covers(c, ExtendOver(intervals, c.code, j))
<1> DEFINE t == c.code[j].imm
           more == [r \in DOMAIN intervals |->
                      IF intervals[r].start < t /\ intervals[r].end \in t .. j - 1
                      THEN [intervals[r] EXCEPT !.end = j]
                      ELSE intervals[r]]
<1>1. CASE ExtendOver(intervals, c.code, j) = intervals
  BY <1>1
<1>2. CASE ExtendOver(intervals, c.code, j) = more
  <2> SUFFICES ASSUME NEW r \in DOMAIN intervals
               PROVE  /\ more[r].start \in Nat /\ more[r].end \in Nat
                      /\ \A k \in Mentions(c, r) : k \in Nat /\ more[r].start <= k /\ k <= more[r].end
    BY <1>2 DEF Covers
  <2>1. /\ intervals[r].start \in Nat /\ intervals[r].end \in Nat
        /\ \A k \in Mentions(c, r) : k \in Nat /\ intervals[r].start <= k /\ k <= intervals[r].end
    BY DEF Covers
  <2>2. CASE more[r] = intervals[r]
    BY <2>1, <2>2
  <2>3. CASE more[r] # intervals[r]
    <3>1. more[r] = [intervals[r] EXCEPT !.end = j] /\ intervals[r].end \in t .. j - 1
      BY <2>3
    <3>2. intervals[r].end < j
      BY <2>1, <3>1
    <3>3. more[r].start = intervals[r].start /\ (more[r].end = j \/ more[r].end = intervals[r].end)
      BY <3>1
    <3> HIDE DEF more
    <3> QED
      BY <2>1, <3>2, <3>3
  <2> QED
    BY <2>2, <2>3
<1> QED
  BY <1>1, <1>2 DEF ExtendOver

Extensions(g, c, n) ==
  g = [j \in 0 .. n |->
         IF j = 0
         THEN [r \in RegistersOf(c.code) \cup 0 .. c.params - 1 |->
                 [start |-> MinOf(Mentions(c, r)), end |-> MaxOf(Mentions(c, r))]]
         ELSE ExtendOver(g[j - 1], c.code, j)]
LEMMA ExtensionsExist ==
  ASSUME NEW c
  PROVE  \A n \in Nat : \E g : Extensions(g, c, n)
<1> DEFINE first == [r \in RegistersOf(c.code) \cup 0 .. c.params - 1 |->
                       [start |-> MinOf(Mentions(c, r)), end |-> MaxOf(Mentions(c, r))]]
           onward(s, j) == ExtendOver(s, c.code, j)
           S == {n \in Nat : \E g : Extensions(g, c, n)}
<1>1. \A n, g : Extensions(g, c, n) <=> g = [k \in 0 .. n |-> IF k = 0 THEN first ELSE onward(g[k - 1], k)]
  BY DEF Extensions
<1> HIDE DEF onward, first
<1>2. 0 \in S
  <2> DEFINE g == [k \in 0 .. 0 |-> first]
  <2>1. g = [k \in 0 .. 0 |-> IF k = 0 THEN first ELSE onward(g[k - 1], k)]
    OBVIOUS
  <2>2. Extensions(g, c, 0)
    BY <1>1, <2>1
  <2> QED
    BY <2>2
<1>3. ASSUME NEW n \in Nat, n \in S PROVE n + 1 \in S
  <2>1. PICK g : Extensions(g, c, n)
    BY <1>3
  <2> DEFINE h == [k \in 0 .. n + 1 |-> IF k = n + 1 THEN onward(g[k - 1], k) ELSE g[k]]
  <2>2. \A k \in 0 .. n : g[k] = IF k = 0 THEN first ELSE onward(g[k - 1], k)
    BY <1>1, <2>1
  <2>3. ASSUME NEW k \in 0 .. n + 1 PROVE h[k] = IF k = 0 THEN first ELSE onward(h[k - 1], k)
    <3>1. CASE k = n + 1
      <4>1. k - 1 \in 0 .. n + 1 /\ k - 1 # n + 1 /\ k # 0
        BY <3>1
      <4> QED
        BY <3>1, <4>1
    <3>2. CASE k # n + 1
      <4>1. h[k] = g[k] /\ k \in 0 .. n
        BY <3>2
      <4>2. k # 0 => k - 1 \in 0 .. n + 1 /\ k - 1 # n + 1
        BY <3>2
      <4> QED
        BY <2>2, <4>1, <4>2
    <3> QED
      BY <3>1, <3>2
  <2>4. h = [k \in 0 .. n + 1 |-> IF k = 0 THEN first ELSE onward(h[k - 1], k)]
    BY <2>3
  <2>5. Extensions(h, c, n + 1)
    BY <1>1, <2>4
  <2> QED
    BY <2>5
<1>4. \A n \in Nat : n \in S
  BY <1>2, <1>3, Induction
<1> QED
  BY <1>4

LEMMA IntervalsCover ==
  ASSUME NEW c, Allocatable(c)
  PROVE  Covers(c, Intervals(c)) /\ AreIntervals(Intervals(c))
<1> DEFINE regs == RegistersOf(c.code) \cup 0 .. c.params - 1
           n == Len(c.code)
           g == CHOOSE g : Extensions(g, c, n)
<1>0. n \in Nat /\ DOMAIN c.code = 1 .. n
  BY LeadersArePositions DEF Allocatable
<1>1. Extensions(g, c, n)
  BY <1>0, ExtensionsExist
<1>2. Intervals(c) = g[n]
  BY DEF Intervals, Extensions
<1>3. regs \subseteq Nat /\ IsFiniteSet(regs)
  <2>1. c.regs - 1 \in Int /\ regs \subseteq 0 .. c.regs - 1
    BY DEF Allocatable, IsChunk
  <2>2. IsFiniteSet(0 .. c.regs - 1)
    BY <2>1, FS_Interval
  <2>3. 0 .. c.regs - 1 \subseteq Nat
    BY <2>1
  <2> HIDE DEF regs
  <2>4. regs \in SUBSET (0 .. c.regs - 1) /\ regs \subseteq Nat
    BY <2>1, <2>3
  <2>5. IsFiniteSet(regs)
    BY <2>2, <2>4, FS_Subset
  <2> QED
    BY <2>4, <2>5
<1> HIDE DEF g, n
<1>4. ASSUME NEW r \in regs
      PROVE  /\ Mentions(c, r) # {} /\ Mentions(c, r) \subseteq Nat /\ IsFiniteSet(Mentions(c, r))
  <2>1. Mentions(c, r) \subseteq 0 .. n + 1
    BY <1>0 DEF Mentions
  <2>2. IsFiniteSet(0 .. n + 1) /\ 0 .. n + 1 \subseteq Nat
    BY <1>0, FS_Interval
  <2>3. Mentions(c, r) # {}
    <3>1. CASE r \in RegistersOf(c.code)
      BY <3>1 DEF RegistersOf, Mentions
    <3>2. CASE r \in 0 .. c.params - 1
      <4>1. r < c.params
        BY <3>2 DEF Allocatable
      <4> QED
        BY <4>1 DEF Mentions
    <3> QED
      BY <3>1, <3>2
  <2> QED
    BY <2>1, <2>2, <2>3, FS_Subset
<1> DEFINE S == {k \in Nat : k <= n => Covers(c, g[k])}
<1>5. /\ g[0] = [r \in regs |-> [start |-> MinOf(Mentions(c, r)), end |-> MaxOf(Mentions(c, r))]]
      /\ \A k \in 0 .. n : k # 0 => g[k] = ExtendOver(g[k - 1], c.code, k)
  <2> DEFINE first == [r \in regs |-> [start |-> MinOf(Mentions(c, r)), end |-> MaxOf(Mentions(c, r))]]
  <2>1. g = [k \in 0 .. n |-> IF k = 0 THEN first ELSE ExtendOver(g[k - 1], c.code, k)]
    BY <1>1 DEF Extensions
  <2> HIDE DEF first
  <2>2. \A k \in 0 .. n : g[k] = IF k = 0 THEN first ELSE ExtendOver(g[k - 1], c.code, k)
    BY <2>1
  <2>3. 0 \in 0 .. n
    BY <1>0
  <2> QED
    BY <2>2, <2>3 DEF first
<1>6. 0 \in S
  <2>1. ASSUME NEW r \in regs
        PROVE  /\ g[0][r].start \in Nat /\ g[0][r].end \in Nat
               /\ \A k \in Mentions(c, r) : k \in Nat /\ g[0][r].start <= k /\ k <= g[0][r].end
    <3>1. g[0][r].start = MinOf(Mentions(c, r)) /\ g[0][r].end = MaxOf(Mentions(c, r))
      BY <1>5
    <3>2. /\ MinOf(Mentions(c, r)) \in Mentions(c, r) /\ MaxOf(Mentions(c, r)) \in Mentions(c, r)
          /\ \A k \in Mentions(c, r) : MinOf(Mentions(c, r)) <= k /\ k <= MaxOf(Mentions(c, r))
      BY <1>4, MinOfIs, MaxOfIs
    <3> QED
      BY <1>4, <3>1, <3>2
  <2>2. DOMAIN g[0] = regs
    BY <1>5
  <2> QED
    BY <2>1, <2>2 DEF Covers
<1>7. ASSUME NEW k \in Nat, k \in S PROVE k + 1 \in S
  <2> SUFFICES ASSUME k + 1 <= n PROVE Covers(c, g[k + 1])
    OBVIOUS
  <2>1. k + 1 \in 0 .. n /\ k + 1 # 0 /\ k + 1 - 1 = k /\ k <= n
    BY <1>0
  <2>2. Covers(c, g[k]) /\ g[k + 1] = ExtendOver(g[k], c.code, k + 1)
    BY <1>5, <1>7, <2>1
  <2> QED
    BY <2>2, ExtendCovers
<1>8. \A k \in Nat : k \in S
  <2> HIDE DEF S
  <2> QED
    BY <1>6, <1>7, Induction
<1>9. Covers(c, Intervals(c))
  BY <1>0, <1>2, <1>8
<1>10. DOMAIN Intervals(c) = regs
  BY <1>9 DEF Covers
<1> QED
  BY <1>3, <1>9, <1>10 DEF AreIntervals, Covers
-----------------------------------------------------------------------------
(* A chunk and its renamed copy: where each register of the chunk goes.  Both *)
(* compaction and linear scan rename in this way.                            *)
IsRenaming(c, slot, copy) ==
  /\ IsAllocation(slot, Intervals(c), Pinned(c)) /\ DOMAIN slot # {}
  /\ copy = [c EXCEPT !.code = Renamed(c.code, slot), !.regs = FrameSize(slot)]

LEMMA RenamingIs ==
  ASSUME NEW c, Allocatable(c), NEW slot, NEW copy, IsRenaming(c, slot, copy)
  PROVE  /\ IsAllocation(slot, Intervals(c), Pinned(c))
         /\ DOMAIN slot = RegistersOf(c.code) \cup 0 .. c.params - 1
         /\ Pinned(c) \subseteq DOMAIN slot /\ IsFiniteSet(DOMAIN slot)
<1>1. DOMAIN Intervals(c) = RegistersOf(c.code) \cup 0 .. c.params - 1
  BY IntervalsCover DEF Covers
<1>2. IsFiniteSet(DOMAIN Intervals(c))
  BY IntervalsCover DEF AreIntervals
<1>3. Pinned(c) \subseteq DOMAIN Intervals(c)
  BY <1>1 DEF Pinned, RegistersOf, InstructionRegisters
<1> QED
  BY <1>1, <1>2, <1>3 DEF IsRenaming, IsAllocation

Renaming(c, slot) ==
  [r \in RegistersOf(c.code) \cup {0} |-> IF r \in DOMAIN slot THEN slot[r] ELSE r]

(* An instruction is renamed where it reads and writes.                      *)
LEMMA RemapIs ==
  ASSUME NEW c, Allocatable(c), NEW slot, NEW copy, IsRenaming(c, slot, copy), NEW k \in DOMAIN c.code
  PROVE  LET ii == c.code[k]
             to == RemapInstr(ii, Renaming(c, slot))
         IN /\ to.op = ii.op /\ to.imm = ii.imm /\ to.n = ii.n
            /\ ii.d \in InstructionRegisters(ii) => to.d = slot[ii.d]
            /\ ii.op \in ZeroJumps /\ 0 \in Pinned(c) => to.d = slot[ii.d]
            /\ ii.op \in Moves \cup Binary \cup {"Cmp", "Lea"} => to.x = slot[ii.x]
            /\ ii.op \in Binary \cup {"Cmp"} => to.y = slot[ii.y]
            /\ ii.op = "Lea" => to.x = ii.x
            /\ ii.op \in FlagJumps \cup {"Jmp", "Nop", "Trap"} => to = ii
<1> DEFINE ii == c.code[k]
           to == RemapInstr(ii, Renaming(c, slot))
           names == Renaming(c, slot)
<1>1. /\ ii \in [op : Ops, d : Nat, x : Nat, y : Nat, imm : Nat, n : Nat]
      /\ ii.op = "Lea" => ii.n # 0
      /\ ii.op = "Inc" => ii.d = ii.x
  BY DEF Allocatable, IsCode, IsInstruction
<1>2. /\ \A r \in InstructionRegisters(ii) : r \in DOMAIN slot /\ names[r] = slot[r]
      /\ \A r \in Pinned(c) : slot[r] = r
  <2>1. InstructionRegisters(ii) \subseteq RegistersOf(c.code)
    BY DEF RegistersOf
  <2> QED
    BY <2>1, RenamingIs, ZenonT(60) DEF IsAllocation, Renaming
<1>3. ii.op = "Lea" => ii.x \in Block(ii) /\ ii.x \in Pinned(c)
  BY <1>1 DEF Block, Pinned
<1>4. 0 \in Pinned(c) => slot[0] = 0
  BY <1>2
<1> HIDE DEF names, ii
<1>5. CASE ii.op \in FlagJumps \cup {"Jmp", "Nop", "Trap"}
  <2>1. to = ii
    BY <1>5 DEF RemapInstr, FlagJumps, ZeroJumps
  <2>2. ii.d \notin InstructionRegisters(ii)
    BY <1>5 DEF InstructionRegisters, InstrDef, InstrUses, Block, FlagJumps, ZeroJumps, Branches, Jumps, Moves, Binary
  <2> QED
    BY <1>5, <2>1, <2>2 DEF ii, FlagJumps, ZeroJumps, Moves, Binary
<1>6. CASE ii.op \in ZeroJumps
  <2>1. to = IF ii.d = 0 THEN ii ELSE [ii EXCEPT !.d = names[@]]
    BY <1>6 DEF RemapInstr, FlagJumps, ZeroJumps, names
  <2>2. ii.d # 0 => ii.d \in InstructionRegisters(ii)
    BY <1>6 DEF InstructionRegisters, InstrUses, ZeroJumps, Moves, Binary
  <2>3. ii.d = 0 => ii.d \notin InstructionRegisters(ii)
    BY <1>6 DEF InstructionRegisters, InstrDef, InstrUses, Block, FlagJumps, ZeroJumps, Branches, Jumps, Moves, Binary
  <2>4. to.op = ii.op /\ to.imm = ii.imm /\ to.n = ii.n /\ (ii.d # 0 => to.d = names[ii.d]) /\ (ii.d = 0 => to.d = 0)
    BY <1>1, <2>1
  <2> QED
    BY <1>2, <1>4, <1>6, <2>2, <2>3, <2>4 DEF ii, FlagJumps, ZeroJumps, Moves, Binary
<1>7. CASE ii.op \in {"MovI", "Call", "Ret", "Arg"}
  <2>1. to = [ii EXCEPT !.d = names[@]]
    BY <1>7 DEF RemapInstr, FlagJumps, ZeroJumps, names
  <2>2. ii.d \in InstructionRegisters(ii)
    BY <1>7 DEF InstructionRegisters, InstrDef, InstrUses, FlagJumps, ZeroJumps, Branches, Jumps, Moves, Binary
  <2>3. to.op = ii.op /\ to.imm = ii.imm /\ to.n = ii.n /\ to.d = names[ii.d]
    BY <1>1, <2>1
  <2> QED
    BY <1>2, <1>7, <2>2, <2>3 DEF ii, FlagJumps, ZeroJumps, Moves, Binary
<1>8. CASE ii.op = "Lea"
  <2>1. to = [ii EXCEPT !.d = names[@], !.x = names[@]]
    BY <1>8 DEF RemapInstr, FlagJumps, ZeroJumps, names
  <2>2. ii.d \in InstructionRegisters(ii) /\ ii.x \in InstructionRegisters(ii)
    BY <1>8 DEF InstructionRegisters, InstrDef, InstrUses, FlagJumps, ZeroJumps, Branches, Jumps, Moves, Binary
  <2>3. to.op = ii.op /\ to.imm = ii.imm /\ to.n = ii.n /\ to.d = names[ii.d] /\ to.x = names[ii.x]
    BY <1>1, <2>1
  <2> QED
    BY <1>2, <1>3, <1>8, <2>2, <2>3 DEF ii, FlagJumps, ZeroJumps, Moves, Binary
<1>9. CASE ii.op \in Moves \cup Binary \cup {"Cmp"}
  <2>1. to = [ii EXCEPT !.d = names[@], !.x = names[@], !.y = names[@]]
    BY <1>9 DEF RemapInstr, FlagJumps, ZeroJumps, Moves, Binary, names
  <2>2. /\ ii.x \in InstructionRegisters(ii)
        /\ ii.op \in Binary \cup {"Cmp"} => ii.y \in InstructionRegisters(ii)
    BY <1>9 DEF InstructionRegisters, InstrUses, ZeroJumps, Moves, Binary
  <2>3. to.op = ii.op /\ to.imm = ii.imm /\ to.n = ii.n /\ to.d = names[ii.d] /\ to.x = names[ii.x] /\ to.y = names[ii.y]
    BY <1>1, <2>1
  <2> QED
    BY <1>2, <1>9, <2>2, <2>3 DEF ii, FlagJumps, ZeroJumps, Moves, Binary
<1> QED
  BY <1>1, <1>5, <1>6, <1>7, <1>8, <1>9 DEF Ops, Jumps, Branches

-----------------------------------------------------------------------------
LEMMA CopyIs ==
  ASSUME NEW c, Allocatable(c), NEW slot, NEW copy, IsRenaming(c, slot, copy)
  PROVE  /\ copy = [code |-> copy.code, params |-> c.params, regs |-> copy.regs] /\ copy.regs \in Nat
         /\ copy.code = [k \in DOMAIN c.code |-> RemapInstr(c.code[k], Renaming(c, slot))]
         /\ \A r \in DOMAIN slot : slot[r] \in 0 .. copy.regs - 1
<1> DEFINE range == {slot[r] : r \in DOMAIN slot}
<1>1. copy = [c EXCEPT !.code = Renamed(c.code, slot), !.regs = FrameSize(slot)]
  BY DEF IsRenaming
<1>2. Renamed(c.code, slot) = [k \in DOMAIN c.code |-> RemapInstr(c.code[k], Renaming(c, slot))]
  BY DEF Renamed, Renaming
<1>3. copy.code = Renamed(c.code, slot) /\ copy.regs = FrameSize(slot) /\ copy = [code |-> copy.code, params |-> c.params, regs |-> copy.regs]
  BY <1>1 DEF Allocatable, IsChunk
<1>4. IsFiniteSet(DOMAIN slot) /\ DOMAIN slot # {} /\ \A r \in DOMAIN slot : slot[r] \in Nat
  BY RenamingIs DEF IsAllocation, IsRenaming
<1>5. range \subseteq Nat /\ range # {} /\ IsFiniteSet(range)
  <2> DEFINE f == [r \in DOMAIN slot |-> slot[r]]
  <2>1. f \in Surjection(DOMAIN slot, range)
    BY DEF Surjection
  <2>2. IsFiniteSet(range)
    BY <1>4, <2>1, FS_Surjection
  <2> QED
    BY <1>4, <2>2
<1> HIDE DEF range
<1>6. MaxOf(range) \in range /\ \A v \in range : v <= MaxOf(range)
  BY <1>5, MaxOfIs
<1>7. copy.regs = 1 + MaxOf(range)
  BY <1>3, <1>4 DEF FrameSize, range
<1>8. \A r \in DOMAIN slot : slot[r] \in Nat /\ slot[r] <= MaxOf(range)
  BY <1>4, <1>6 DEF range
<1>9. MaxOf(range) \in Nat
  BY <1>5, <1>6
<1>10. copy.regs \in Nat /\ \A r \in DOMAIN slot : slot[r] \in 0 .. copy.regs - 1
  BY <1>7, <1>8, <1>9
<1> QED
  BY <1>2, <1>3, <1>10
-----------------------------------------------------------------------------
(* A state of the chunk and one of the renamed chunk: the same but for the   *)
(* slots, where they agree on what the next call is given and, until the     *)
(* function ends, on the registers in K.                                     *)
Same(slot, K, s, t) == \A r \in K : t[slot[r]] = s[r]

Mirrors(c, slot, copy, K, m, o) ==
  /\ IsState(m, Slots(c)) /\ IsState(o, Slots(copy))
  /\ o.pc = m.pc /\ o.flags = m.flags /\ o.seen = m.seen /\ o.status = m.status
  /\ m.args \in Seq(Nat) /\ o.args \in Seq(Nat) /\ Given(o) = Given(m)
  /\ m.status = "running" => Same(slot, K, m.slot, o.slot)

(* The next instruction reads only registers in K, also to decide a jump on  *)
(* register 0 (which InstrUses leaves out); nothing is written between the   *)
(* arguments of a call and the call; and addresses lead to pinned slots.     *)
Fits(c, K, m) ==
  LET i == c.code[m.pc]
  IN /\ ReadBy(i) \subseteq K
     /\ i.op \in ZeroJumps /\ i.d = 0 => 0 \in Pinned(c)
     /\ m.args # <<>> /\ InstrDef(i) # {} => i.op = "Call"
     /\ i.op = "Call" /\ i.imm \in {Look, Change} => Pointee(Given(m)[1]) \in Pinned(c)
     /\ i.op = "Call" /\ i.imm = Spread =>
          \A a \in 1 .. Given(m)[2] : Pointee(Given(m)[1]) + a - 1 \in Pinned(c)

(* What an instruction leaves in place: what it writes, and the registers in *)
(* K whose slots are not that of what it writes.                             *)
Leaves(slot, K, more, i) ==
  /\ more \subseteq DOMAIN slot
  /\ \A r \in more : \/ r \in InstrDef(i)
                     \/ r \in K /\ \A d \in InstrDef(i) : slot[d] # slot[r]

LEMMA SlotsAreThere ==
  ASSUME NEW c, Allocatable(c), NEW slot, NEW copy, IsRenaming(c, slot, copy)
  PROVE  /\ DOMAIN slot \subseteq Slots(c)
         /\ \A r \in DOMAIN slot : slot[r] \in Slots(copy)
         /\ \A r \in Pinned(c) : r \in DOMAIN slot /\ slot[r] = r
         /\ \A r \in DOMAIN slot : slot[r] \in Pinned(c) => r \in Pinned(c)
<1>1. DOMAIN slot = RegistersOf(c.code) \cup 0 .. c.params - 1
  BY RenamingIs
<1>2. 0 .. c.params - 1 \subseteq 0 .. c.regs
  BY DEF Allocatable, IsChunk
<1>3. \A r \in DOMAIN slot : slot[r] \in 0 .. copy.regs
  <2>1. \A r \in DOMAIN slot : slot[r] \in 0 .. copy.regs - 1
    BY CopyIs
  <2>2. copy.regs \in Nat
    BY CopyIs
  <2> QED
    BY <2>1, <2>2
<1> QED
  BY <1>1, <1>2, <1>3, RenamingIs DEF Slots, IsAllocation

LEMMA WriteMirrors ==
  ASSUME NEW slot, NEW A, DOMAIN slot \subseteq A, NEW B, \A r \in DOMAIN slot : slot[r] \in B,
         NEW s, s = [x \in A |-> s[x]], NEW t, t = [x \in B |-> t[x]],
         NEW K, Same(slot, K, s, t), NEW i, NEW d \in DOMAIN slot, InstrDef(i) = {d},
         NEW more, Leaves(slot, K, more, i), NEW v
  PROVE  Same(slot, more, [s EXCEPT ![d] = v], [t EXCEPT ![slot[d]] = v])
<1> SUFFICES ASSUME NEW r \in more
             PROVE  [t EXCEPT ![slot[d]] = v][slot[r]] = [s EXCEPT ![d] = v][r]
  BY DEF Same
<1>1. CASE r = d
  BY <1>1
<1>2. CASE r # d
  <2>1. r \in K /\ slot[d] # slot[r] /\ r \in DOMAIN slot
    BY <1>2 DEF Leaves
  <2>2. t[slot[r]] = s[r]
    BY <2>1 DEF Same
  <2> QED
    BY <1>2, <2>1, <2>2
<1> QED
  BY <1>1, <1>2

(* A callee writes through an address to a pinned slot.                      *)
LEMMA PinnedMirrors ==
  ASSUME NEW c, Allocatable(c), NEW slot, NEW copy, IsRenaming(c, slot, copy),
         NEW s, s = [x \in Slots(c) |-> s[x]],
         NEW t, t = [x \in Slots(copy) |-> t[x]],
         NEW K, K \subseteq DOMAIN slot, Same(slot, K, s, t), NEW p \in Pinned(c), NEW v
  PROVE  Same(slot, K, [s EXCEPT ![p] = v], [t EXCEPT ![p] = v])
<1> SUFFICES ASSUME NEW r \in K
             PROVE  [t EXCEPT ![p] = v][slot[r]] = [s EXCEPT ![p] = v][r]
  BY DEF Same
<1>1. p \in DOMAIN slot /\ slot[p] = p /\ p \in Slots(c) /\ p \in Slots(copy)
  BY SlotsAreThere
<1>2. r \in Slots(c) /\ slot[r] \in Slots(copy) /\ t[slot[r]] = s[r]
  BY SlotsAreThere DEF Same
<1>3. CASE r = p
  BY <1>1, <1>2, <1>3
<1>4. CASE r # p
  <2>1. slot[r] # p
    BY <1>4, SlotsAreThere
  <2> QED
    BY <1>1, <1>2, <1>4, <2>1
<1> QED
  BY <1>3, <1>4
(* What the call reports is what the other call does.                        *)
LEMMA ReportMirrors ==
  ASSUME NEW c, Allocatable(c), NEW slot, NEW copy, IsRenaming(c, slot, copy), NEW K, Pinned(c) \subseteq K,
         NEW s, NEW t, Same(slot, K, s, t), NEW f, NEW args,
         f \in {Look, Change} => Pointee(args[1]) \in Pinned(c),
         f = Spread => \A a \in 1 .. args[2] : Pointee(args[1]) + a - 1 \in Pinned(c)
  PROVE  Report(f, args, t) = Report(f, args, s)
<1>1. \A p \in Pinned(c) : t[p] = s[p]
  BY SlotsAreThere DEF Same
<1>2. CASE f = Look
  <2>1. t[Pointee(args[1])] = s[Pointee(args[1])]
    BY <1>1, <1>2
  <2> QED
    BY <1>2, <2>1 DEF Report, Look, Use
<1>3. CASE f = Spread
  <2>1. \A a \in 1 .. args[2] : t[Pointee(args[1]) + a - 1] = s[Pointee(args[1]) + a - 1]
    BY <1>1, <1>3
  <2>2. [a \in 1 .. args[2] |-> t[Pointee(args[1]) + a - 1]] = [a \in 1 .. args[2] |-> s[Pointee(args[1]) + a - 1]]
    BY <2>1
  <2> QED
    BY <1>3, <2>2 DEF Report, Look, Use, Spread
<1>4. CASE f # Look /\ f # Spread
  BY <1>4 DEF Report, Use, Look, Spread
<1> QED
  BY <1>2, <1>3, <1>4

LEMMA CallMirrors ==
  ASSUME NEW c, Allocatable(c), NEW slot, NEW copy, IsRenaming(c, slot, copy), NEW K, Pinned(c) \subseteq K,
         K \subseteq DOMAIN slot, NEW m, NEW o, Mirrors(c, slot, copy, K, m, o), m.status = "running",
         m.pc \in DOMAIN c.code, Fits(c, K, m), c.code[m.pc].op = "Call", NEW more, Leaves(slot, K, more, c.code[m.pc]),
         NEW input, NEW j, j.imm = c.code[m.pc].imm, j.d = slot[c.code[m.pc].d]
  PROVE  LET m2 == CallStep(m, c.code[m.pc], input)
             o2 == CallStep(o, j, input)
         IN /\ o2.pc = m2.pc /\ o2.flags = m2.flags /\ o2.seen = m2.seen /\ o2.status = m2.status
            /\ m2.args = <<>> /\ o2.args = <<>> /\ Same(slot, more, m2.slot, o2.slot)
<1> DEFINE i == c.code[m.pc]
           given == Given(m)
           answer == Answer(input, Len(m.seen) + 1)
           p == Pointee(given[1])
           changed == IF i.imm = Change THEN [m.slot EXCEPT ![p] = answer] ELSE m.slot
           other == IF i.imm = Change THEN [o.slot EXCEPT ![p] = answer] ELSE o.slot
           sum == Sum(given[1], given[2])
           report == Report(i.imm, given, m.slot)
<1>0. DOMAIN slot \subseteq Slots(c) /\ \A r \in DOMAIN slot : slot[r] \in Slots(copy)
  BY SlotsAreThere
<1>1. /\ m = [pc |-> m.pc, slot |-> m.slot, flags |-> m.flags, args |-> m.args, seen |-> m.seen, status |-> m.status]
      /\ o = [pc |-> o.pc, slot |-> o.slot, flags |-> o.flags, args |-> o.args, seen |-> o.seen, status |-> o.status]
      /\ m.slot = [x \in Slots(c) |-> m.slot[x]] /\ o.slot = [x \in Slots(copy) |-> o.slot[x]]
  BY DEF Mirrors, IsState
<1>2. /\ o.pc = m.pc /\ o.flags = m.flags /\ o.seen = m.seen /\ o.status = m.status
      /\ Given(o) = given /\ Same(slot, K, m.slot, o.slot)
  BY DEF Mirrors
<1>3. InstrDef(i) = {i.d} /\ i.d \in DOMAIN slot
  <2>1. InstrDef(i) = {i.d}
    BY DEF InstrDef, Jumps, Branches, FlagJumps, ZeroJumps
  <2>2. InstrDef(i) \subseteq RegistersOf(c.code)
    BY DEF RegistersOf, InstructionRegisters
  <2> QED
    BY <2>1, <2>2, RenamingIs
<1>4. i.imm \in {Look, Change} => p \in Pinned(c)
  BY DEF Fits
<1>5. Report(i.imm, given, o.slot) = report
  <2>1. i.imm = Spread => \A a \in 1 .. given[2] : p + a - 1 \in Pinned(c)
    BY DEF Fits
  <2> HIDE DEF given, i
  <2> QED
    BY <1>2, <1>4, <2>1, ReportMirrors DEF report
<1>6. Same(slot, K, changed, other) /\ changed = [x \in Slots(c) |-> changed[x]]
      /\ other = [x \in Slots(copy) |-> other[x]]
  <2> HIDE DEF answer, p
  <2>1. CASE i.imm = Change
    <3>1. Same(slot, K, [m.slot EXCEPT ![p] = answer], [o.slot EXCEPT ![p] = answer])
      BY <1>1, <1>2, <1>4, <2>1, PinnedMirrors
    <3> QED
      BY <1>1, <2>1, <3>1
  <2>2. CASE i.imm # Change
    BY <1>1, <1>2, <2>2
  <2> QED
    BY <2>1, <2>2
<1>7. CallStep(m, i, input) =
        IF i.imm = Small
        THEN [m EXCEPT !.pc = @ + 1, !.args = <<>>, !.slot[i.d] = sum]
        ELSE [m EXCEPT !.pc = @ + 1, !.args = <<>>, !.seen = Append(@, <<i.imm>> \o report),
                       !.slot = [changed EXCEPT ![i.d] = answer]]
  BY DEF CallStep, Given
<1>8. CallStep(o, j, input) =
        IF i.imm = Small
        THEN [o EXCEPT !.pc = @ + 1, !.args = <<>>, !.slot[j.d] = sum]
        ELSE [o EXCEPT !.pc = @ + 1, !.args = <<>>, !.seen = Append(@, <<i.imm>> \o report),
                       !.slot = [other EXCEPT ![j.d] = answer]]
  <2>1. CallStep(o, j, input) =
          IF j.imm = Small
          THEN [o EXCEPT !.pc = @ + 1, !.args = <<>>, !.slot[j.d] = Sum(Given(o)[1], Given(o)[2])]
          ELSE [o EXCEPT !.pc = @ + 1, !.args = <<>>,
                         !.seen = Append(@, <<j.imm>> \o Report(j.imm, Given(o), o.slot)),
                         !.slot = [IF j.imm = Change
                                   THEN [o.slot EXCEPT ![Pointee(Given(o)[1])] = Answer(input, Len(o.seen) + 1)]
                                   ELSE o.slot
                                   EXCEPT ![j.d] = Answer(input, Len(o.seen) + 1)]]
    BY DEF CallStep, Given
  <2>2. j.imm = i.imm
    OBVIOUS
  <2> QED
    BY <1>2, <1>5, <2>1, <2>2, ZenonT(60)
<1>9. j.d = slot[i.d]
  OBVIOUS
<1>10. Leaves(slot, K, more, i)
  OBVIOUS
<1> HIDE DEF given, answer, p, changed, other, sum, report, i
<1>11. CASE i.imm = Small
  <2>1. /\ CallStep(m, i, input) = [m EXCEPT !.pc = m.pc + 1, !.args = <<>>, !.slot = [m.slot EXCEPT ![i.d] = sum]]
        /\ CallStep(o, j, input) = [o EXCEPT !.pc = o.pc + 1, !.args = <<>>, !.slot = [o.slot EXCEPT ![j.d] = sum]]
    BY <1>1, <1>7, <1>8, <1>11
  <2>2. Same(slot, more, [m.slot EXCEPT ![i.d] = sum], [o.slot EXCEPT ![j.d] = sum])
    <3> DEFINE d == i.d
               s == m.slot
               t == o.slot
    <3>1. /\ InstrDef(i) = {d} /\ d \in DOMAIN slot /\ j.d = slot[d] /\ Same(slot, K, s, t)
          /\ s = [x \in Slots(c) |-> s[x]] /\ t = [x \in Slots(copy) |-> t[x]]
      BY <1>1, <1>2, <1>3, <1>9
    <3> HIDE DEF d, s, t
    <3>2. Same(slot, more, [s EXCEPT ![d] = sum], [t EXCEPT ![slot[d]] = sum])
      BY <1>0, <1>10, <3>1, WriteMirrors, SMTT(20), ZenonT(60)
    <3> QED
      BY <3>1, <3>2 DEF d, s, t
  <2> DEFINE a == [m.slot EXCEPT ![i.d] = sum]
             b == [o.slot EXCEPT ![j.d] = sum]
  <2> HIDE DEF a, b
  <2>3. /\ CallStep(m, i, input) = [m EXCEPT !.pc = m.pc + 1, !.args = <<>>, !.slot = a]
        /\ CallStep(o, j, input) = [o EXCEPT !.pc = o.pc + 1, !.args = <<>>, !.slot = b]
        /\ Same(slot, more, a, b)
    BY <2>1, <2>2 DEF a, b
  <2> QED
    BY <1>1, <1>2, <2>3 DEF i
<1>12. CASE i.imm # Small
  <2> DEFINE a == [changed EXCEPT ![i.d] = answer]
             b == [other EXCEPT ![j.d] = answer]
             told == Append(m.seen, <<i.imm>> \o report)
  <2>1. Same(slot, more, a, b)
    <3> DEFINE d == i.d
    <3>1. InstrDef(i) = {d} /\ d \in DOMAIN slot /\ j.d = slot[d]
      BY <1>3, <1>9
    <3> HIDE DEF d
    <3>2. Same(slot, more, [changed EXCEPT ![d] = answer], [other EXCEPT ![slot[d]] = answer])
      BY <1>0, <1>6, <1>10, <3>1, WriteMirrors, SMTT(20), ZenonT(60)
    <3> QED
      BY <3>1, <3>2 DEF d
  <2>2. /\ CallStep(m, i, input) = [m EXCEPT !.pc = m.pc + 1, !.args = <<>>, !.seen = told, !.slot = a]
        /\ CallStep(o, j, input) = [o EXCEPT !.pc = o.pc + 1, !.args = <<>>, !.seen = told, !.slot = b]
    BY <1>2, <1>7, <1>8, <1>12
  <2> HIDE DEF a, b, told
  <2> QED
    BY <1>1, <1>2, <2>1, <2>2 DEF i
<1> QED
  BY <1>11, <1>12
(* What an instruction computes is the same in both.                         *)
ComputesAlike(slot, m, o, i, j) ==
  /\ i.op \in Moves \cup Binary \cup {"MovI", "Lea"} =>
       Compute(o, j) = Compute(m, i) /\ InstrDef(i) = {i.d} /\ j.d = slot[i.d]
  /\ i.op \in Binary \cup {"Cmp"} => o.slot[j.y] = m.slot[i.y]
  /\ i.op = "Cmp" => o.slot[j.x] = m.slot[i.x]
  /\ i.op \in ZeroJumps \cup {"Ret", "Arg"} => o.slot[j.d] = m.slot[i.d]

LEMMA ComputeMirrors ==
  ASSUME NEW c, Allocatable(c), NEW slot, NEW copy, IsRenaming(c, slot, copy), NEW K,
         NEW m, NEW o, Mirrors(c, slot, copy, K, m, o), m.status = "running", m.pc \in DOMAIN c.code, Fits(c, K, m)
  PROVE  ComputesAlike(slot, m, o, c.code[m.pc], RemapInstr(c.code[m.pc], Renaming(c, slot)))
<1> DEFINE i == c.code[m.pc]
           j == RemapInstr(i, Renaming(c, slot))
<1>1. \A r \in ReadBy(i) : o.slot[slot[r]] = m.slot[r]
  BY DEF Mirrors, Same, Fits
<1>2. /\ i.d \in InstructionRegisters(i) => j.d = slot[i.d]
      /\ i.op \in ZeroJumps /\ 0 \in Pinned(c) => j.d = slot[i.d]
      /\ i.op \in Moves \cup Binary \cup {"Cmp", "Lea"} => j.x = slot[i.x]
      /\ i.op \in Binary \cup {"Cmp"} => j.y = slot[i.y]
      /\ i.op = "Lea" => j.x = i.x
      /\ j.op = i.op /\ j.imm = i.imm
  BY RemapIs
<1>3. i.op \in ZeroJumps /\ i.d = 0 => 0 \in Pinned(c)
  BY DEF Fits
<1>4. i.op = "Inc" => i.d = i.x
  BY DEF Allocatable, IsCode, IsInstruction
<1> HIDE DEF i, j
<1>5. ASSUME i.op \in Moves \cup Binary \cup {"MovI", "Lea"}
      PROVE  Compute(o, j) = Compute(m, i) /\ InstrDef(i) = {i.d} /\ j.d = slot[i.d]
  <2>1. InstrDef(i) = {i.d}
    BY <1>5 DEF InstrDef, Moves, Binary, Jumps, Branches, FlagJumps, ZeroJumps
  <2>2. j.d = slot[i.d]
    BY <1>2, <2>1 DEF InstructionRegisters
  <2>3. CASE i.op = "Mov"
    <3>1. i.x \in ReadBy(i)
      BY <2>3 DEF ReadBy, InstrUses, Moves, ZeroJumps
    <3> QED
      BY <1>1, <1>2, <2>1, <2>2, <2>3, <3>1 DEF Compute, Moves
  <2>4. CASE i.op = "Inc"
    <3>1. i.x \in ReadBy(i) /\ i.d = i.x
      BY <1>4, <2>4 DEF ReadBy, InstrUses, Moves, ZeroJumps
    <3>2. o.slot[j.d] = m.slot[i.d]
      BY <1>1, <2>2, <3>1
    <3> QED
      BY <1>2, <2>1, <2>2, <2>4, <3>2 DEF Compute
  <2>5. CASE i.op \in Binary
    <3>1. i.x \in ReadBy(i) /\ i.y \in ReadBy(i)
      BY <2>5 DEF ReadBy, InstrUses, Moves, ZeroJumps, Binary
    <3>2. o.slot[j.x] = m.slot[i.x] /\ o.slot[j.y] = m.slot[i.y]
      BY <1>1, <1>2, <2>5, <3>1
    <3> QED
      BY <1>2, <2>1, <2>2, <2>5, <3>2 DEF Compute, Binary
  <2>6. CASE i.op = "MovI"
    BY <1>2, <2>1, <2>2, <2>6 DEF Compute
  <2>7. CASE i.op = "Lea"
    BY <1>2, <2>1, <2>2, <2>7 DEF Compute
  <2> QED
    BY <1>5, <2>3, <2>4, <2>5, <2>6, <2>7 DEF Moves
<1>6. ASSUME i.op \in Binary \cup {"Cmp"} PROVE o.slot[j.y] = m.slot[i.y]
  <2>1. i.y \in ReadBy(i)
    BY <1>6 DEF ReadBy, InstrUses, Moves, ZeroJumps, Binary
  <2> QED
    BY <1>1, <1>2, <1>6, <2>1
<1>7. ASSUME i.op = "Cmp" PROVE o.slot[j.x] = m.slot[i.x]
  <2>1. i.x \in ReadBy(i)
    BY <1>7 DEF ReadBy, InstrUses, Moves, ZeroJumps, Binary
  <2> QED
    BY <1>1, <1>2, <1>7, <2>1
<1>8. ASSUME i.op \in ZeroJumps \cup {"Ret", "Arg"} PROVE o.slot[j.d] = m.slot[i.d]
  <2>1. i.d \in ReadBy(i)
    BY <1>8 DEF ReadBy, InstrUses, ZeroJumps, Moves, Binary
  <2>2. CASE i.d \in InstructionRegisters(i)
    BY <1>1, <1>2, <2>1, <2>2
  <2>3. CASE i.d \notin InstructionRegisters(i)
    <3>1. i.op \in ZeroJumps /\ i.d = 0
      BY <1>8, <2>3 DEF InstructionRegisters, InstrUses, ZeroJumps, Moves, Binary
    <3> QED
      BY <1>1, <1>2, <1>3, <2>1, <3>1
  <2> QED
    BY <2>2, <2>3
<1> QED
  BY <1>5, <1>6, <1>7, <1>8 DEF i, j, ComputesAlike

LEMMA StepMirrors ==
  ASSUME NEW c, Allocatable(c), NEW slot, NEW copy, IsRenaming(c, slot, copy), NEW K, Pinned(c) \subseteq K,
         K \subseteq DOMAIN slot, NEW m, NEW o, Mirrors(c, slot, copy, K, m, o), m.status = "running",
         NEW more, NEW input,
         m.pc \in DOMAIN c.code => Fits(c, K, m) /\ Leaves(slot, K, more, c.code[m.pc])
  PROVE  Mirrors(c, slot, copy, more, Step(c.code, m, input), Step(copy.code, o, input))
<1> DEFINE i == c.code[m.pc]
           j == RemapInstr(i, Renaming(c, slot))
           m2 == Step(c.code, m, input)
           o2 == Step(copy.code, o, input)
<1>0. DOMAIN slot \subseteq Slots(c) /\ \A r \in DOMAIN slot : slot[r] \in Slots(copy)
  BY SlotsAreThere
<1>1. /\ m = [pc |-> m.pc, slot |-> m.slot, flags |-> m.flags, args |-> m.args, seen |-> m.seen, status |-> m.status]
      /\ o = [pc |-> o.pc, slot |-> o.slot, flags |-> o.flags, args |-> o.args, seen |-> o.seen, status |-> o.status]
      /\ m.slot = [x \in Slots(c) |-> m.slot[x]] /\ o.slot = [x \in Slots(copy) |-> o.slot[x]]
  BY DEF Mirrors, IsState
<1>2. /\ o.pc = m.pc /\ o.flags = m.flags /\ o.seen = m.seen /\ o.status = m.status
      /\ Given(o) = Given(m) /\ Same(slot, K, m.slot, o.slot)
      /\ m.args \in Seq(Nat) /\ o.args \in Seq(Nat)
  BY DEF Mirrors
<1>3. DOMAIN copy.code = DOMAIN c.code
      /\ \A k \in DOMAIN c.code : copy.code[k] = RemapInstr(c.code[k], Renaming(c, slot))
  <2>1. copy.code = [k \in DOMAIN c.code |-> RemapInstr(c.code[k], Renaming(c, slot))]
    BY CopyIs
  <2> QED
    BY <2>1
<1>4. IsState(m2, Slots(c)) /\ IsState(o2, Slots(copy))
  BY StepKeepsState DEF Mirrors
<1>5. SUFFICES /\ o2.pc = m2.pc /\ o2.flags = m2.flags /\ o2.seen = m2.seen /\ o2.status = m2.status
               /\ m2.args \in Seq(Nat) /\ o2.args \in Seq(Nat) /\ Given(o2) = Given(m2)
               /\ m2.status = "running" => Same(slot, more, m2.slot, o2.slot)
  BY <1>4 DEF Mirrors
<1>6. CASE m.pc \notin DOMAIN c.code
  <2>2. /\ m2 = Halt([m EXCEPT !.seen = Append(@, <<0>>)], "returned")
        /\ o2 = Halt([o EXCEPT !.seen = Append(@, <<0>>)], "returned")
    BY <1>2, <1>3, <1>6 DEF Step
  <2> DEFINE told == Append(m.seen, <<0>>)
  <2>3. /\ m2 = [m EXCEPT !.seen = told, !.status = "returned"]
        /\ o2 = [o EXCEPT !.seen = told, !.status = "returned"]
    BY <1>2, <2>2 DEF Halt
  <2> HIDE DEF told, m2, o2
  <2>4. /\ m2.slot = m.slot /\ o2.slot = o.slot /\ m2.args = m.args /\ o2.args = o.args
        /\ o2.pc = m2.pc /\ o2.flags = m2.flags /\ o2.seen = m2.seen /\ o2.status = m2.status /\ m2.status = "returned"
    BY <1>1, <1>2, <2>3
  <2> QED
    BY <1>2, <2>4 DEF Given
<1> SUFFICES ASSUME m.pc \in DOMAIN c.code
             PROVE  /\ o2.pc = m2.pc /\ o2.flags = m2.flags /\ o2.seen = m2.seen /\ o2.status = m2.status
                    /\ m2.args \in Seq(Nat) /\ o2.args \in Seq(Nat) /\ Given(o2) = Given(m2)
                    /\ m2.status = "running" => Same(slot, more, m2.slot, o2.slot)
  BY <1>6
<1>7. Fits(c, K, m) /\ Leaves(slot, K, more, i)
  OBVIOUS
<1>8. m2 = Execute(m, i, input) /\ o2 = Execute(o, j, input)
  BY <1>2, <1>3 DEF Step
<1>9. j.op = i.op /\ j.imm = i.imm /\ (i.d \in InstructionRegisters(i) => j.d = slot[i.d])
  BY RemapIs
<1>10. i.op \in Ops
  BY DEF Allocatable, IsCode, IsInstruction
<1>11. /\ i.op \in Moves \cup Binary \cup {"MovI", "Lea"} =>
            Compute(o, j) = Compute(m, i) /\ InstrDef(i) = {i.d} /\ j.d = slot[i.d]
       /\ i.op \in Binary \cup {"Cmp"} => o.slot[j.y] = m.slot[i.y]
       /\ i.op = "Cmp" => o.slot[j.x] = m.slot[i.x]
       /\ i.op \in ZeroJumps \cup {"Ret", "Arg"} => o.slot[j.d] = m.slot[i.d]
  <2>1. ComputesAlike(slot, m, o, i, j)
    BY <1>7, ComputeMirrors
  <2> HIDE DEF i, j
  <2> QED
    BY <2>1 DEF ComputesAlike
<1>12. i.op = "Call" => InstrDef(i) = {i.d} /\ j.d = slot[i.d]
  <2>1. i.op = "Call" => InstrDef(i) = {i.d}
    BY DEF InstrDef, Jumps, Branches, FlagJumps, ZeroJumps
  <2> QED
    BY <1>9, <2>1 DEF InstructionRegisters
<1>13. i.op \notin Moves \cup Binary \cup {"MovI", "Lea", "Call"} =>
         InstrDef(i) = {} /\ Same(slot, more, m.slot, o.slot)
  <2>1. i.op \notin Moves \cup Binary \cup {"MovI", "Lea", "Call"} => InstrDef(i) = {}
    BY <1>10 DEF InstrDef, Ops
  <2>2. InstrDef(i) = {} => more \subseteq K
    BY <1>7 DEF Leaves
  <2> QED
    BY <1>2, <2>1, <2>2 DEF Same
<1>14. i.op = "Call" =>
         LET a == CallStep(m, i, input)
             b == CallStep(o, j, input)
         IN /\ b.pc = a.pc /\ b.flags = a.flags /\ b.seen = a.seen /\ b.status = a.status
            /\ a.args = <<>> /\ b.args = <<>> /\ Same(slot, more, a.slot, b.slot)
  BY <1>7, <1>9, <1>12, CallMirrors
<1>15. i.op \in FlagJumps \cup {"Jmp", "Nop", "Trap"} => j = i
  BY RemapIs
<1>16. m.args # <<>> /\ InstrDef(i) # {} => i.op = "Call"
  BY DEF Fits
<1> HIDE DEF m2, o2, i, j
<1>17. CASE i.op = "Call"
  <2>1. m2 = CallStep(m, i, input) /\ o2 = CallStep(o, j, input)
    BY <1>8, <1>9, <1>17 DEF Execute, Jumps, Branches, FlagJumps, ZeroJumps
  <2>2. /\ o2.pc = m2.pc /\ o2.flags = m2.flags /\ o2.seen = m2.seen /\ o2.status = m2.status
        /\ m2.args = <<>> /\ o2.args = <<>> /\ Same(slot, more, m2.slot, o2.slot)
    BY <1>14, <1>17, <2>1
  <2>3. Given(m2) = Given(o2)
    BY <2>2 DEF Given
  <2> QED
    BY <2>2, <2>3
<1>18. CASE i.op \in Jumps
  <2> DEFINE taken == Taken(m, i)
             to == IF taken THEN i.imm ELSE m.pc + 1
  <2>1. Taken(o, j) = taken
    BY <1>2, <1>9, <1>11, <1>18 DEF Taken, Jumps, Branches, FlagJumps, ZeroJumps
  <2>2. m2 = [m EXCEPT !.pc = to] /\ o2 = [o EXCEPT !.pc = to]
    <3>1. /\ Taken(m, i) = taken
          /\ i.op \notin {"Cmp", "Arg", "Call", "Trap", "Ret", "Nop", "Div"}
      BY <1>18 DEF Jumps, Branches, FlagJumps, ZeroJumps
    <3> HIDE DEF taken
    <3>2. m2 = [m EXCEPT !.pc = IF taken THEN i.imm ELSE @ + 1]
      BY <1>8, <1>18, <3>1 DEF Execute
    <3>3. o2 = [o EXCEPT !.pc = IF taken THEN i.imm ELSE @ + 1]
      BY <1>8, <1>9, <1>18, <2>1, <3>1 DEF Execute
    <3> QED
      BY <1>1, <1>2, <3>2, <3>3
  <2> HIDE DEF to
  <2>3. /\ m2.slot = m.slot /\ o2.slot = o.slot /\ m2.args = m.args /\ o2.args = o.args
        /\ o2.pc = m2.pc /\ o2.flags = m2.flags /\ o2.seen = m2.seen /\ o2.status = m2.status
    BY <1>1, <1>2, <2>2
  <2>4. Same(slot, more, m.slot, o.slot)
    BY <1>13, <1>18 DEF Jumps, Branches, FlagJumps, ZeroJumps, Moves, Binary
  <2> QED
    BY <1>2, <2>3, <2>4 DEF Given
<1>19. CASE i.op \in {"Cmp", "Nop", "Trap", "Ret"}
  <2>1. i.op = "Cmp" => /\ m2 = [m EXCEPT !.pc = m.pc + 1, !.flags = <<m.slot[i.x], m.slot[i.y]>>]
                        /\ o2 = [o EXCEPT !.pc = m.pc + 1, !.flags = <<m.slot[i.x], m.slot[i.y]>>]
    BY <1>2, <1>8, <1>9, <1>11 DEF Execute, Jumps, Branches, FlagJumps, ZeroJumps
  <2>2. i.op = "Nop" => m2 = [m EXCEPT !.pc = m.pc + 1] /\ o2 = [o EXCEPT !.pc = m.pc + 1]
    BY <1>2, <1>8, <1>9 DEF Execute, Jumps, Branches, FlagJumps, ZeroJumps
  <2>3. i.op = "Trap" => m2 = [m EXCEPT !.status = "panicked"] /\ o2 = [o EXCEPT !.status = "panicked"]
    BY <1>8, <1>9 DEF Execute, Halt, Jumps, Branches, FlagJumps, ZeroJumps
  <2> DEFINE told == Append(m.seen, <<m.slot[i.d]>>)
  <2>4. i.op = "Ret" => /\ m2 = [[m EXCEPT !.seen = told] EXCEPT !.status = "returned"]
                        /\ o2 = [[o EXCEPT !.seen = told] EXCEPT !.status = "returned"]
    BY <1>2, <1>8, <1>9, <1>11 DEF Execute, Halt, Jumps, Branches, FlagJumps, ZeroJumps
  <2> HIDE DEF told
  <2> DEFINE like == /\ m2.slot = m.slot /\ o2.slot = o.slot /\ m2.args = m.args /\ o2.args = o.args
                     /\ o2.pc = m2.pc /\ o2.flags = m2.flags /\ o2.seen = m2.seen /\ o2.status = m2.status
  <2>5. like
    <3>1. i.op = "Cmp" => like
      BY <1>1, <1>2, <2>1, ZenonT(60)
    <3>2. i.op = "Nop" => like
      BY <1>1, <1>2, <2>2
    <3>3. i.op = "Trap" => like
      BY <1>1, <1>2, <2>3
    <3>4. i.op = "Ret" => like
      BY <1>1, <1>2, <2>4, ZenonT(60)
    <3> QED
      BY <1>19, <3>1, <3>2, <3>3, <3>4
  <2>6. Same(slot, more, m.slot, o.slot)
    BY <1>13, <1>19 DEF Moves, Binary
  <2> QED
    BY <1>2, <2>5, <2>6 DEF Given
<1>20. CASE i.op = "Arg"
  <2>1. /\ m2 = [m EXCEPT !.pc = m.pc + 1, !.args = Append(m.args, i.d)]
        /\ o2 = [o EXCEPT !.pc = m.pc + 1, !.args = Append(o.args, j.d)]
    BY <1>2, <1>8, <1>9, <1>20 DEF Execute, Jumps, Branches, FlagJumps, ZeroJumps
  <2>2. /\ m2.slot = m.slot /\ o2.slot = o.slot /\ m2.args = Append(m.args, i.d) /\ o2.args = Append(o.args, j.d)
        /\ o2.pc = m2.pc /\ o2.flags = m2.flags /\ o2.seen = m2.seen /\ o2.status = m2.status
    BY <1>1, <1>2, <2>1
  <2>3. i.d \in Nat /\ j.d \in Nat
    <3>1. i.d \in InstructionRegisters(i)
      BY <1>20 DEF InstructionRegisters, InstrUses, ZeroJumps, Moves, Binary
    <3>2. i.d \in RegistersOf(c.code)
      BY <3>1 DEF RegistersOf, i
    <3>3. i.d \in Nat
      BY DEF Allocatable, IsCode, IsInstruction, i
    <3> QED
      BY <1>9, <3>1, <3>2, <3>3, RenamingIs DEF IsAllocation
  <2>4. m2.args \in Seq(Nat) /\ o2.args \in Seq(Nat)
    BY <1>2, <2>2, <2>3, AppendProperties
  <2>5. Given(o2) = Given(m2)
    <3>1. DOMAIN m.args = 1 .. Len(m.args) /\ DOMAIN o.args = 1 .. Len(o.args) /\ Len(m.args) \in Nat /\ Len(o.args) \in Nat
      BY <1>2, LenProperties
    <3>2. DOMAIN o.args = DOMAIN m.args
      BY <1>2 DEF Given
    <3>3. Len(o.args) = Len(m.args)
      BY <3>1, <3>2
    <3>4. /\ Len(m2.args) = Len(m.args) + 1 /\ Len(o2.args) = Len(m.args) + 1
          /\ \A k \in 1 .. Len(m.args) : m2.args[k] = m.args[k] /\ o2.args[k] = o.args[k]
          /\ m2.args[Len(m.args) + 1] = i.d /\ o2.args[Len(m.args) + 1] = j.d
      BY <1>2, <2>2, <2>3, <3>3, AppendProperties, SMTT(30)
    <3>5. DOMAIN m2.args = 1 .. Len(m.args) + 1 /\ DOMAIN o2.args = 1 .. Len(m.args) + 1
      BY <2>4, <3>4, LenProperties
    <3>6. ASSUME NEW k \in 1 .. Len(m.args) + 1 PROVE o2.slot[o2.args[k]] = m2.slot[m2.args[k]]
      <4>1. CASE k = Len(m.args) + 1
        BY <1>11, <1>20, <2>2, <3>4, <4>1
      <4>2. CASE k # Len(m.args) + 1
        <5>1. k \in 1 .. Len(m.args) /\ k \in DOMAIN m.args /\ k \in DOMAIN o.args
          BY <3>1, <3>2, <4>2
        <5>2. Given(m)[k] = m.slot[m.args[k]] /\ Given(o)[k] = o.slot[o.args[k]]
          BY <5>1 DEF Given
        <5> QED
          BY <1>2, <2>2, <3>4, <5>1, <5>2
      <4> QED
        BY <4>1, <4>2
    <3> QED
      BY <3>5, <3>6 DEF Given
  <2>6. Same(slot, more, m.slot, o.slot)
    BY <1>13, <1>20 DEF Moves, Binary
  <2> QED
    BY <2>2, <2>4, <2>5, <2>6
<1>21. CASE i.op \in Moves \cup Binary \cup {"MovI", "Lea"}
  <2>1. m.args = <<>> /\ o.args = <<>>
    <3>1. i.op # "Call"
      BY <1>21 DEF Moves, Binary
    <3>2. m.args = <<>>
      BY <1>11, <1>16, <1>21, <3>1
    <3>3. DOMAIN o.args = DOMAIN m.args
      BY <1>2 DEF Given
    <3>4. Len(m.args) = 0 /\ DOMAIN m.args = {}
      BY <3>2, EmptySeq
    <3>5. DOMAIN o.args = 1 .. Len(o.args) /\ Len(o.args) \in Nat
      BY <1>2, LenProperties
    <3>6. Len(o.args) = 0
      <4> DEFINE len == Len(o.args)
      <4>1. 1 .. len = {} /\ len \in Nat
        BY <3>3, <3>4, <3>5
      <4> HIDE DEF len
      <4>2. len = 0
        BY <4>1
      <4> QED
        BY <4>2 DEF len
    <3> QED
      BY <1>2, <3>2, <3>6, EmptySeq
  <2> DEFINE v == Compute(m, i)
             faults == i.op = "Div" /\ m.slot[i.y] = 0
             a == [m.slot EXCEPT ![i.d] = v]
             b == [o.slot EXCEPT ![j.d] = v]
  <2>2. /\ m2 = IF faults THEN [m EXCEPT !.status = "faulted"] ELSE [m EXCEPT !.pc = m.pc + 1, !.slot = a]
        /\ o2 = IF faults THEN [o EXCEPT !.status = "faulted"] ELSE [o EXCEPT !.pc = m.pc + 1, !.slot = b]
    <3>1. i.op = "Div" => o.slot[j.y] = m.slot[i.y]
      BY <1>11 DEF Binary
    <3>2. Compute(o, j) = v
      BY <1>11, <1>21
    <3> HIDE DEF v
    <3>3. m2 = IF faults THEN [m EXCEPT !.status = "faulted"] ELSE [m EXCEPT !.pc = @ + 1, !.slot[i.d] = Compute(m, i)]
      BY <1>8, <1>21 DEF Execute, Halt, Moves, Binary, Jumps, Branches, FlagJumps, ZeroJumps
    <3>4. o2 = IF faults THEN [o EXCEPT !.status = "faulted"] ELSE [o EXCEPT !.pc = @ + 1, !.slot[j.d] = Compute(o, j)]
      BY <1>8, <1>9, <1>21, <3>1 DEF Execute, Halt, Moves, Binary, Jumps, Branches, FlagJumps, ZeroJumps
    <3>5. Compute(m, i) = v
      BY DEF v
    <3> HIDE DEF faults
    <3> QED
      BY <1>1, <1>2, <3>2, <3>3, <3>4, <3>5
  <2>3. Same(slot, more, a, b)
    <3> DEFINE d == i.d
               s == m.slot
               t == o.slot
    <3>1. /\ InstrDef(i) = {d} /\ j.d = slot[d] /\ Same(slot, K, s, t)
          /\ s = [x \in Slots(c) |-> s[x]] /\ t = [x \in Slots(copy) |-> t[x]]
      BY <1>1, <1>2, <1>11, <1>21
    <3>2. d \in DOMAIN slot
      <4>1. InstrDef(i) \subseteq RegistersOf(c.code)
        BY DEF RegistersOf, InstructionRegisters, i
      <4> QED
        BY <3>1, <4>1, RenamingIs
    <3> HIDE DEF d, s, t, v
    <3>3. Same(slot, more, [s EXCEPT ![d] = v], [t EXCEPT ![slot[d]] = v])
      BY <1>0, <1>7, <3>1, <3>2, WriteMirrors
    <3> QED
      BY <3>1, <3>3 DEF d, s, t
  <2> HIDE DEF v, a, b
  <2>4. CASE ~ faults
    <3> HIDE DEF faults
    <3>1. /\ m2.slot = a /\ o2.slot = b /\ m2.args = <<>> /\ o2.args = <<>>
          /\ o2.pc = m2.pc /\ o2.flags = m2.flags /\ o2.seen = m2.seen /\ o2.status = m2.status
      BY <1>1, <1>2, <2>1, <2>2, <2>4
    <3>2. Given(m2) = Given(o2)
      BY <3>1 DEF Given
    <3> QED
      BY <2>3, <3>1, <3>2
  <2>5. CASE faults
    <3> HIDE DEF faults
    <3>1. /\ m2.slot = m.slot /\ o2.slot = o.slot /\ m2.args = <<>> /\ o2.args = <<>>
          /\ o2.pc = m2.pc /\ o2.flags = m2.flags /\ o2.seen = m2.seen /\ o2.status = m2.status /\ m2.status = "faulted"
      BY <1>1, <1>2, <2>1, <2>2, <2>5
    <3>2. Given(m2) = Given(o2)
      BY <3>1 DEF Given
    <3> QED
      BY <3>1, <3>2
  <2> QED
    BY <2>4, <2>5
<1> QED
  BY <1>10, <1>17, <1>18, <1>19, <1>20, <1>21 DEF Ops

-----------------------------------------------------------------------------
(* The registers that keep what they hold, up to state k: those that share   *)
(* their slot with no other, and those written so far whose intervals the    *)
(* execution has not left since.                                             *)
Alone(slot) == {r \in DOMAIN slot : \A q \in DOMAIN slot : slot[q] = slot[r] => q = r}

Alive(c, states, k) ==
  {r \in DOMAIN Intervals(c) : \E j \in 1 .. k - 1 :
     /\ states[j].pc \in DOMAIN c.code /\ r \in InstrDef(c.code[states[j].pc])
     /\ \A l \in j + 1 .. k : /\ Intervals(c)[r].start <= states[l].pc
                              /\ states[l].pc <= Intervals(c)[r].end}

Kept(c, slot, states, k) == Pinned(c) \cup Alone(slot) \cup Alive(c, states, k)

(* Every execution of the chunk on this input reads what is kept.            *)
StaysCovered(c, slot, input) ==
  \A states : IsExecution(c, input, states) =>
    \A k \in DOMAIN states : Executes(c.code, states[k]) => Fits(c, Kept(c, slot, states, k), states[k])

LEMMA KeptLeaves ==
  ASSUME NEW c, Allocatable(c), NEW slot, NEW copy, IsRenaming(c, slot, copy), NEW states, NEW more, NEW k \in Nat \ {0},
         \A l \in 1 .. k : more[l] = states[l], states[k].pc \in DOMAIN c.code
  PROVE  Leaves(slot, Kept(c, slot, states, k), Kept(c, slot, more, k + 1), c.code[states[k].pc])
<1> DEFINE pc == states[k].pc
           i == c.code[pc]
           ints == Intervals(c)
<1>1. /\ IsAllocation(slot, ints, Pinned(c)) /\ DOMAIN slot = RegistersOf(c.code) \cup 0 .. c.params - 1
      /\ Pinned(c) \subseteq DOMAIN slot
  BY RenamingIs
<1>2. Covers(c, ints)
  BY IntervalsCover
<1>3. Kept(c, slot, more, k + 1) \subseteq DOMAIN slot
  BY <1>1 DEF Kept, Alone, Alive, IsAllocation
<1>4. SUFFICES ASSUME NEW r \in Kept(c, slot, more, k + 1), r \notin InstrDef(i), NEW d \in InstrDef(i)
               PROVE  slot[d] # slot[r]
  <2>1. SUFFICES ASSUME NEW r \in Kept(c, slot, more, k + 1), r \notin InstrDef(i) PROVE r \in Kept(c, slot, states, k)
    BY <1>3, <1>4 DEF Leaves
  <2>2. CASE r \in Pinned(c)
    BY <2>2 DEF Kept
  <2>4. CASE r \in Alone(slot)
    BY <2>4 DEF Kept
  <2>3. CASE r \in Alive(c, more, k + 1)
    <3>1. PICK j \in 1 .. k : /\ more[j].pc \in DOMAIN c.code /\ r \in InstrDef(c.code[more[j].pc])
                              /\ \A l \in j + 1 .. k + 1 : /\ ints[r].start <= more[l].pc
                                                           /\ more[l].pc <= ints[r].end
      BY <2>3 DEF Alive
    <3>2. j # k
      BY <2>1, <3>1
    <3>3. j \in 1 .. k - 1 /\ \A l \in j + 1 .. k : l \in j + 1 .. k + 1 /\ more[l] = states[l]
      BY <3>2
    <3>4. r \in DOMAIN ints /\ more[j] = states[j]
      BY <2>3 DEF Alive
    <3> QED
      BY <3>1, <3>3, <3>4 DEF Kept, Alive
  <2> QED
    BY <2>1, <2>2, <2>3, <2>4 DEF Kept
<1>5. d \in DOMAIN slot /\ pc \in Mentions(c, d)
  BY <1>1 DEF Mentions, RegistersOf, InstructionRegisters
<1>6. d # r /\ r \in DOMAIN slot
  BY <1>3, <1>4
<1>7. CASE r \in Pinned(c)
  BY <1>1, <1>5, <1>6, <1>7 DEF IsAllocation
<1>8. CASE r \in Alive(c, more, k + 1)
  <2>1. PICK j \in 1 .. k : /\ more[j].pc \in DOMAIN c.code /\ r \in InstrDef(c.code[more[j].pc])
                            /\ \A l \in j + 1 .. k + 1 : /\ ints[r].start <= more[l].pc
                                                         /\ more[l].pc <= ints[r].end
    BY <1>8 DEF Alive
  <2>2. j # k
    BY <1>4, <2>1
  <2>3. k \in j + 1 .. k + 1 /\ more[k].pc = pc
    BY <2>2
  <2>4. ints[r].start <= pc /\ pc <= ints[r].end
    BY <2>1, <2>3
  <2>5. ints[d].start <= pc /\ pc <= ints[d].end /\ pc \in Nat
    BY <1>1, <1>2, <1>5 DEF Covers, IsAllocation
  <2>6. /\ ints[d].start \in Nat /\ ints[d].end \in Nat /\ ints[r].start \in Nat /\ ints[r].end \in Nat
    BY <1>1, <1>2, <1>5, <1>6 DEF Covers, IsAllocation
  <2> HIDE DEF ints, pc
  <2>7. Overlap(ints, d, r)
    BY <2>4, <2>5, <2>6 DEF Overlap
  <2> QED
    BY <1>1, <1>5, <1>6, <2>7 DEF IsAllocation
<1>9. CASE r \in Alone(slot)
  BY <1>5, <1>6, <1>9 DEF Alone
<1> QED
  BY <1>7, <1>8, <1>9 DEF Kept

(* An execution of the chunk and one of the renamed chunk, side by side.     *)
Pair(c, slot, copy, input, e, o) ==
  /\ InRun(c, input, e)
  /\ o.status = e.status /\ o.states # <<>> /\ \E S : o.states \in Seq(S)
  /\ Mirrors(c, slot, copy, Kept(c, slot, e.states, Len(e.states)), e.states[Len(e.states)], o.states[Len(o.states)])

LEMMA PairSteps ==
  ASSUME NEW c, Allocatable(c), NEW slot, NEW copy, IsRenaming(c, slot, copy), NEW input, StaysCovered(c, slot, input),
         NEW e, NEW o, Pair(c, slot, copy, input, e, o), e.status = "running"
  PROVE  Pair(c, slot, copy, input, OneMore(c.code, input, e), OneMore(copy.code, input, o))
<1> DEFINE n == copy
           len == Len(e.states)
           m == e.states[len]
           t == o.states[Len(o.states)]
           m2 == Step(c.code, m, input)
           t2 == Step(n.code, t, input)
           K == Kept(c, slot, e.states, len)
           e2 == OneMore(c.code, input, e)
           o2 == OneMore(n.code, input, o)
<1>1. InRun(c, input, e2)
  BY OneMoreRuns DEF Pair
<1>2. PICK S : e.states \in Seq(S)
  BY DEF Pair, InRun
<1>3. PICK T : o.states \in Seq(T)
  BY DEF Pair
<1>4. e.states # <<>> /\ IsExecution(c, input, e.states) /\ m.status = "running" /\ Mirrors(c, slot, copy, K, m, t)
  BY DEF Pair, InRun
<1>5. len \in Nat \ {0} /\ DOMAIN e.states = 1 .. len
  BY <1>2, <1>4, LenProperties, EmptySeq
<1>6. e2 = [status |-> m2.status, states |-> Append(e.states, m2)]
      /\ o2 = [status |-> t2.status, states |-> Append(o.states, t2)]
  BY DEF OneMore
<1> HIDE DEF m2, t2, e2, o2, n
<1>7. /\ e.states \in Seq(S \cup {m2}) /\ o.states \in Seq(T \cup {t2})
  BY <1>2, <1>3
<1>8. /\ Len(e2.states) = len + 1 /\ e2.states[len + 1] = m2
      /\ \A l \in 1 .. len : e2.states[l] = e.states[l]
      /\ o2.states \in Seq(T \cup {t2}) /\ Len(o2.states) = Len(o.states) + 1
      /\ o2.states[Len(o.states) + 1] = t2
  BY <1>6, <1>7, AppendProperties
<1>9. K \subseteq DOMAIN slot /\ Pinned(c) \subseteq K
  BY RenamingIs DEF Kept, Alone, Alive, IsAllocation
<1>10. m.pc \in DOMAIN c.code => Fits(c, K, m)
  BY <1>4, <1>5 DEF StaysCovered, Executes
<1>11. m.pc \in DOMAIN c.code => Leaves(slot, K, Kept(c, slot, e2.states, len + 1), c.code[m.pc])
  <2> DEFINE a == e.states
             b == e2.states
  <2>1. \A l \in 1 .. len : b[l] = a[l]
    BY <1>8
  <2> HIDE DEF a, b, len
  <2>2. a[len].pc \in DOMAIN c.code => Leaves(slot, Kept(c, slot, a, len), Kept(c, slot, b, len + 1), c.code[a[len].pc])
    BY <1>5, <2>1, KeptLeaves
  <2> QED
    BY <2>2 DEF a, b
<1>12. Mirrors(c, slot, copy, Kept(c, slot, e2.states, len + 1), m2, t2)
  <2> DEFINE more == Kept(c, slot, e2.states, len + 1)
  <2>1. m.pc \in DOMAIN c.code => Fits(c, K, m) /\ Leaves(slot, K, more, c.code[m.pc])
    BY <1>10, <1>11
  <2> HIDE DEF more, K, m, t
  <2>2. Mirrors(c, slot, copy, more, Step(c.code, m, input), Step(copy.code, t, input))
    BY <1>4, <1>9, <2>1, StepMirrors
  <2> QED
    BY <2>2 DEF more, m2, t2, n
<1>13. o2.status = e2.status
  BY <1>6, <1>12 DEF Mirrors
<1>14. o2.states # <<>>
  <2>1. Len(o.states) \in Nat
    BY <1>3, LenProperties
  <2> QED
    BY <1>8, <2>1, EmptySeq
<1> HIDE DEF len
<1>15. Pair(c, slot, copy, input, e2, o2)
  BY <1>1, <1>8, <1>12, <1>13, <1>14 DEF Pair
<1> QED
  BY <1>15 DEF e2, o2, n

LEMMA PairStepsOn ==
  ASSUME NEW c, Allocatable(c), NEW slot, NEW copy, IsRenaming(c, slot, copy), NEW input, StaysCovered(c, slot, input),
         NEW e, NEW o, Pair(c, slot, copy, input, e, o), NEW n \in Nat,
         NEW g, Steps(g, c.code, input, e, n),
         NEW h, Steps(h, copy.code, input, o, n)
  PROVE  Pair(c, slot, copy, input, g[n], h[n])
<1> DEFINE S == {k \in Nat : k <= n => Pair(c, slot, copy, input, g[k], h[k])}
           Further(code, s) == IF s.status = "running" THEN OneMore(code, input, s) ELSE s
<1>1. /\ \A k \in 0 .. n : g[k] = IF k = 0 THEN e ELSE Further(c.code, g[k - 1])
      /\ \A k \in 0 .. n : h[k] = IF k = 0 THEN o ELSE Further(copy.code, h[k - 1])
  BY DEF Steps
<1>2. \A a, b : Pair(c, slot, copy, input, a, b) =>
        Pair(c, slot, copy, input, Further(c.code, a), Further(copy.code, b))
  <2> SUFFICES ASSUME NEW a, NEW b, Pair(c, slot, copy, input, a, b)
               PROVE  Pair(c, slot, copy, input, Further(c.code, a), Further(copy.code, b))
    OBVIOUS
  <2>1. a.status = b.status
    BY DEF Pair
  <2>2. CASE a.status = "running"
    BY <2>1, <2>2, PairSteps
  <2>3. CASE a.status # "running"
    BY <2>1, <2>3
  <2> QED
    BY <2>2, <2>3
<1> HIDE DEF Further
<1>3. 0 \in S
  BY <1>1
<1>4. ASSUME NEW k \in Nat, k \in S PROVE k + 1 \in S
  <2>1. SUFFICES ASSUME k + 1 <= n PROVE Pair(c, slot, copy, input, g[k + 1], h[k + 1])
    OBVIOUS
  <2>2. k + 1 \in 0 .. n /\ k + 1 # 0 /\ k + 1 - 1 = k /\ Pair(c, slot, copy, input, g[k], h[k])
    BY <1>4, <2>1
  <2>3. g[k + 1] = Further(c.code, g[k]) /\ h[k + 1] = Further(copy.code, h[k])
    BY <1>1, <2>2
  <2> QED
    BY <1>2, <2>2, <2>3
<1>5. \A k \in Nat : k \in S
  BY <1>3, <1>4, Induction
<1> QED
  BY <1>5

LEMMA PairBurst ==
  ASSUME NEW c, Allocatable(c), NEW slot, NEW copy, IsRenaming(c, slot, copy), NEW input, StaysCovered(c, slot, input),
         NEW e, NEW o, Pair(c, slot, copy, input, e, o)
  PROVE  Pair(c, slot, copy, input, OneBurst(c.code, input, e), OneBurst(copy.code, input, o))
<1> DEFINE g == CHOOSE x : Steps(x, c.code, input, e, Burst)
           h == CHOOSE x : Steps(x, copy.code, input, o, Burst)
<1>1. Burst \in Nat
  BY DEF Burst
<1>2. Steps(g, c.code, input, e, Burst) /\ Steps(h, copy.code, input, o, Burst)
  BY <1>1, StepsExist
<1>3. OneBurst(c.code, input, e) = g[Burst] /\ OneBurst(copy.code, input, o) = h[Burst]
  BY DEF OneBurst
<1> HIDE DEF g, h
<1> QED
  BY <1>1, <1>2, <1>3, PairStepsOn

LEMMA PairBursts ==
  ASSUME NEW c, Allocatable(c), NEW slot, NEW copy, IsRenaming(c, slot, copy), NEW input, StaysCovered(c, slot, input),
         NEW e, NEW o, Pair(c, slot, copy, input, e, o), NEW n \in Nat,
         NEW g, Bursts(g, c.code, input, e, n),
         NEW h, Bursts(h, copy.code, input, o, n)
  PROVE  Pair(c, slot, copy, input, g[n], h[n])
<1> DEFINE S == {k \in Nat : k <= n => Pair(c, slot, copy, input, g[k], h[k])}
           Further(code, s) == IF s.status = "running" THEN OneBurst(code, input, s) ELSE s
<1>1. /\ \A k \in 0 .. n : g[k] = IF k = 0 THEN e ELSE Further(c.code, g[k - 1])
      /\ \A k \in 0 .. n : h[k] = IF k = 0 THEN o ELSE Further(copy.code, h[k - 1])
  BY DEF Bursts, OneBurst
<1>2. \A a, b : Pair(c, slot, copy, input, a, b) =>
        Pair(c, slot, copy, input, Further(c.code, a), Further(copy.code, b))
  <2> SUFFICES ASSUME NEW a, NEW b, Pair(c, slot, copy, input, a, b)
               PROVE  Pair(c, slot, copy, input, Further(c.code, a), Further(copy.code, b))
    OBVIOUS
  <2>1. a.status = b.status
    BY DEF Pair
  <2>2. CASE a.status = "running"
    BY <2>1, <2>2, PairBurst
  <2>3. CASE a.status # "running"
    BY <2>1, <2>3
  <2> QED
    BY <2>2, <2>3
<1> HIDE DEF Further
<1>3. 0 \in S
  BY <1>1
<1>4. ASSUME NEW k \in Nat, k \in S PROVE k + 1 \in S
  <2>1. SUFFICES ASSUME k + 1 <= n PROVE Pair(c, slot, copy, input, g[k + 1], h[k + 1])
    OBVIOUS
  <2>2. k + 1 \in 0 .. n /\ k + 1 # 0 /\ k + 1 - 1 = k /\ Pair(c, slot, copy, input, g[k], h[k])
    BY <1>4, <2>1
  <2>3. g[k + 1] = Further(c.code, g[k]) /\ h[k + 1] = Further(copy.code, h[k])
    BY <1>1, <2>2
  <2> QED
    BY <1>2, <2>2, <2>3
<1>5. \A k \in Nat : k \in S
  BY <1>3, <1>4, Induction
<1> QED
  BY <1>5

LEMMA PairStart ==
  ASSUME NEW c, Allocatable(c), NEW slot, NEW copy, IsRenaming(c, slot, copy), NEW input
  PROVE  Pair(c, slot, copy, input,
              [status |-> "running", states |-> <<Start(c, input, Slots(c))>>],
              [status |-> "running", states |-> <<Start(copy, input, Slots(copy))>>])
<1> DEFINE m == Start(c, input, Slots(c))
           t == Start(copy, input, Slots(copy))
           e == [status |-> "running", states |-> <<m>>]
           o == [status |-> "running", states |-> <<t>>]
<1>1. InRun(c, input, e)
  BY StartRuns
<1>2. /\ m = [pc |-> 1, slot |-> [s \in Slots(c) |-> IF s < c.params THEN input.args[s + 1] ELSE Junk],
              flags |-> <<0, 0>>, args |-> <<>>, seen |-> <<>>, status |-> "running"]
      /\ t = [pc |-> 1, slot |-> [s \in Slots(copy) |-> IF s < copy.params THEN input.args[s + 1] ELSE Junk],
              flags |-> <<0, 0>>, args |-> <<>>, seen |-> <<>>, status |-> "running"]
  BY DEF Start
<1>3. copy.params = c.params
  <2>1. copy = [code |-> copy.code, params |-> c.params, regs |-> copy.regs]
    BY CopyIs
  <2> QED
    BY <2>1
<1> HIDE DEF m, t
<1>4. IsState(m, Slots(c)) /\ IsState(t, Slots(copy))
  BY <1>2 DEF IsState
<1> DEFINE K == Pinned(c) \cup Alone(slot)
<1>5. ASSUME NEW r \in K PROVE t.slot[slot[r]] = m.slot[r]
  <2>1. r \in DOMAIN slot
    BY RenamingIs DEF Alone
  <2>2. r \in Slots(c) /\ slot[r] \in Slots(copy)
    BY <2>1, SlotsAreThere
  <2>3. CASE r \in Pinned(c)
    <3>1. slot[r] = r
      BY <2>3, SlotsAreThere
    <3> QED
      BY <1>2, <1>3, <2>2, <3>1
  <2>4. CASE r \notin Pinned(c)
    <3>1. slot[r] \notin Pinned(c)
      BY <2>1, <2>4, SlotsAreThere
    <3>2. r \in Nat /\ slot[r] \in Nat
      <4>1. DOMAIN slot = RegistersOf(c.code) \cup 0 .. c.params - 1 /\ slot[r] \in Nat
        BY <2>1, RenamingIs DEF IsAllocation
      <4>2. RegistersOf(c.code) \subseteq Nat
        <5>1. RegistersOf(c.code) \subseteq 0 .. c.regs - 1 /\ c.regs \in Nat
          BY DEF Allocatable, IsChunk
        <5> QED
          BY <5>1
      <4> QED
        BY <2>1, <4>1, <4>2
    <3>3. c.params \in Nat /\ 0 .. c.params - 1 \subseteq Pinned(c)
      BY DEF Allocatable, Pinned
    <3>4. ~ (r < c.params) /\ ~ (slot[r] < c.params)
      BY <2>4, <3>1, <3>2, <3>3
    <3> QED
      BY <1>2, <1>3, <2>2, <3>4
  <2> QED
    BY <2>3, <2>4
<1>6. Kept(c, slot, <<m>>, 1) = K
  BY DEF Kept, Alive
<1> HIDE DEF K
<1>7. Given(m) = Given(t) /\ m.args \in Seq(Nat) /\ t.args \in Seq(Nat)
  <2>1. m.args = <<>> /\ t.args = <<>>
    BY <1>2
  <2> QED
    BY <2>1, EmptySeq DEF Given
<1>8. Mirrors(c, slot, copy, K, m, t)
  <2>1. Same(slot, K, m.slot, t.slot)
    BY <1>5 DEF Same
  <2>2. t.pc = m.pc /\ t.flags = m.flags /\ t.seen = m.seen /\ t.status = m.status
    BY <1>2
  <2> QED
    BY <1>4, <1>7, <2>1, <2>2 DEF Mirrors
<1>9. /\ Len(<<m>>) = 1 /\ <<m>>[1] = m /\ Len(<<t>>) = 1 /\ <<t>>[1] = t
      /\ <<t>> \in Seq({t}) /\ <<t>> # <<>>
  OBVIOUS
<1>10. Pair(c, slot, copy, input, e, o)
  BY <1>1, <1>6, <1>8, <1>9 DEF Pair
<1> QED
  BY <1>10 DEF m, t

(* Executions of a chunk and of its renamed copy have the same outcome.      *)
LEMMA RenamedOutcome ==
  ASSUME NEW c, Allocatable(c), NEW slot, NEW copy, IsRenaming(c, slot, copy),
         NEW input, StaysCovered(c, slot, input), NEW fuel \in Nat
  PROVE  Outcome(copy, input, fuel) = Outcome(c, input, fuel)
<1> DEFINE e == [status |-> "running", states |-> <<Start(c, input, Slots(c))>>]
           o == [status |-> "running", states |-> <<Start(copy, input, Slots(copy))>>]
           n == fuel \div Burst
           g == CHOOSE x : Bursts(x, c.code, input, e, n)
           h == CHOOSE x : Bursts(x, copy.code, input, o, n)
<1>1. n \in Nat
  BY DEF Burst
<1>2. Bursts(g, c.code, input, e, n) /\ Bursts(h, copy.code, input, o, n)
  BY <1>1, BurstsExist
<1>3. Execution(c, input, fuel) = g[n].states /\ Execution(copy, input, fuel) = h[n].states
  BY ExecutionIs DEF Slots
<1>4. Pair(c, slot, copy, input, e, o)
  BY PairStart
<1> HIDE DEF g, h, e, o, n
<1>5. Pair(c, slot, copy, input, g[n], h[n])
  BY <1>1, <1>2, <1>4, PairBursts
<1> QED
  BY <1>3, <1>5 DEF Pair, Mirrors, Outcome

-----------------------------------------------------------------------------
(* The registers of a renamed instruction are the slots of the others.       *)
LEMMA RenamedRegisters ==
  ASSUME NEW c, Allocatable(c), NEW slot, NEW copy, IsRenaming(c, slot, copy), NEW k \in DOMAIN c.code
  PROVE  InstructionRegisters(RemapInstr(c.code[k], Renaming(c, slot)))
           \subseteq {slot[r] : r \in InstructionRegisters(c.code[k])}
<1> DEFINE ii == c.code[k]
           to == RemapInstr(ii, Renaming(c, slot))
<1>1. /\ to.op = ii.op /\ to.imm = ii.imm /\ to.n = ii.n
      /\ ii.d \in InstructionRegisters(ii) => to.d = slot[ii.d]
      /\ ii.op \in Moves \cup Binary \cup {"Cmp", "Lea"} => to.x = slot[ii.x]
      /\ ii.op \in Binary \cup {"Cmp"} => to.y = slot[ii.y]
      /\ ii.op = "Lea" => to.x = ii.x
  BY RemapIs
<1>2. ii.op \in ZeroJumps /\ ii.d = 0 => to.d = 0
  BY DEF RemapInstr, FlagJumps, ZeroJumps
<1>3. \A p \in Block(ii) : slot[p] = p
  <2>1. Block(ii) \subseteq Pinned(c)
    BY DEF Pinned
  <2> QED
    BY <2>1, RenamingIs DEF IsAllocation
<1> HIDE DEF ii, to
<1>4. Block(to) = Block(ii)
  BY <1>1 DEF Block
<1>5. \A d \in InstrDef(to) : ii.d \in InstrDef(ii) /\ d = slot[ii.d]
  BY <1>1 DEF InstrDef, InstructionRegisters
<1>6. ASSUME NEW r \in InstrUses(to)
      PROVE  \E q \in InstrUses(ii) : r = slot[q]
  <2>1. CASE ii.op \in {"Ret", "Arg"}
    <3>1. r = to.d /\ ii.d \in InstrUses(ii)
      BY <1>1, <1>6, <2>1 DEF InstrUses, ZeroJumps, Moves, Binary
    <3> QED
      BY <1>1, <3>1 DEF InstructionRegisters
  <2>2. CASE ii.op \in ZeroJumps
    <3>1. r = to.d /\ r # 0
      BY <1>1, <1>6, <2>2 DEF InstrUses, ZeroJumps, Moves, Binary
    <3>2. ii.d \in InstrUses(ii)
      BY <1>2, <2>2, <3>1 DEF InstrUses, ZeroJumps, Moves, Binary
    <3> QED
      BY <1>1, <3>1, <3>2 DEF InstructionRegisters
  <2>3. CASE ii.op \in Moves \cup {"Lea"}
    <3>1. r = to.x /\ ii.x \in InstrUses(ii)
      BY <1>1, <1>6, <2>3 DEF InstrUses, ZeroJumps, Moves, Binary
    <3> QED
      BY <1>1, <2>3, <3>1
  <2>4. CASE ii.op \in Binary \cup {"Cmp"}
    <3>1. r \in {to.x, to.y} /\ ii.x \in InstrUses(ii) /\ ii.y \in InstrUses(ii)
      BY <1>1, <1>6, <2>4 DEF InstrUses, ZeroJumps, Moves, Binary
    <3> QED
      BY <1>1, <2>4, <3>1
  <2>5. CASE ii.op \notin {"Ret", "Arg"} \cup ZeroJumps \cup Moves \cup {"Lea"} \cup Binary \cup {"Cmp"}
    BY <1>1, <1>6, <2>5 DEF InstrUses
  <2> QED
    BY <2>1, <2>2, <2>3, <2>4, <2>5
<1>7. InstructionRegisters(to) \subseteq {slot[r] : r \in InstructionRegisters(ii)}
  BY <1>3, <1>4, <1>5, <1>6 DEF InstructionRegisters
<1> QED
  BY <1>7 DEF ii, to

(* The copy of a valid chunk is valid.                                       *)
LEMMA RenamedIsValid ==
  ASSUME NEW c, Allocatable(c), NEW slot, NEW copy, IsRenaming(c, slot, copy)
  PROVE  /\ copy.params = c.params /\ copy.params <= copy.regs
         /\ RegistersOf(copy.code) \subseteq 0 .. copy.regs - 1
         /\ DOMAIN copy.code = DOMAIN c.code /\ Len(copy.code) = Len(c.code)
         /\ \A k \in DOMAIN c.code : copy.code[k].op = c.code[k].op /\ copy.code[k].imm = c.code[k].imm
<1>1. /\ copy = [code |-> copy.code, params |-> c.params, regs |-> copy.regs] /\ copy.regs \in Nat
      /\ copy.code = [k \in DOMAIN c.code |-> RemapInstr(c.code[k], Renaming(c, slot))]
      /\ \A r \in DOMAIN slot : slot[r] \in 0 .. copy.regs - 1
  BY CopyIs
<1>2. \A k \in DOMAIN c.code :
        LET to == RemapInstr(c.code[k], Renaming(c, slot))
        IN to.op = c.code[k].op /\ to.imm = c.code[k].imm
  BY RemapIs
<1>3. DOMAIN slot = RegistersOf(c.code) \cup 0 .. c.params - 1
      /\ \A r \in Pinned(c) : slot[r] = r
  BY RenamingIs DEF IsAllocation
<1>4. \A k \in DOMAIN c.code :
        InstructionRegisters(RemapInstr(c.code[k], Renaming(c, slot)))
          \subseteq {slot[r] : r \in InstructionRegisters(c.code[k])}
  BY RenamedRegisters
<1>5. copy.params = c.params /\ c.params \in Nat
  <2>1. copy.params = c.params
    BY <1>1
  <2> QED
    BY <2>1 DEF Allocatable
<1>6. copy.params <= copy.regs
  <2>1. CASE c.params = 0
    BY <1>1, <1>5, <2>1
  <2>2. CASE c.params # 0
    <3> DEFINE p == c.params - 1
    <3>1. p \in 0 .. c.params - 1
      BY <1>5, <2>2
    <3>2. p \in Pinned(c) /\ p \in DOMAIN slot
      BY <1>3, <3>1 DEF Pinned
    <3>3. p \in 0 .. copy.regs - 1
      BY <1>1, <1>3, <3>2
    <3> QED
      BY <1>1, <1>5, <3>3
  <2> QED
    BY <2>1, <2>2
<1>7. RegistersOf(copy.code) \subseteq 0 .. copy.regs - 1
  <2> SUFFICES ASSUME NEW k \in DOMAIN c.code, NEW r \in InstructionRegisters(copy.code[k])
               PROVE  r \in 0 .. copy.regs - 1
    BY <1>1 DEF RegistersOf
  <2>1. copy.code[k] = RemapInstr(c.code[k], Renaming(c, slot))
    BY <1>1
  <2>2. PICK q \in InstructionRegisters(c.code[k]) : r = slot[q]
    BY <1>4, <2>1
  <2>3. q \in DOMAIN slot
    BY <1>3 DEF RegistersOf
  <2> QED
    BY <1>1, <2>2, <2>3
<1>8. Len(copy.code) = Len(c.code) /\ DOMAIN copy.code = DOMAIN c.code
  <2>1. DOMAIN c.code = 1 .. Len(c.code) /\ Len(c.code) \in Nat
    BY LeadersArePositions DEF Allocatable
  <2> QED
    BY <1>1, <2>1
<1>9. \A k \in DOMAIN c.code : copy.code[k].op = c.code[k].op /\ copy.code[k].imm = c.code[k].imm
  <2>1. \A k \in DOMAIN c.code : copy.code[k] = RemapInstr(c.code[k], Renaming(c, slot))
    BY <1>1
  <2> QED
    BY <1>2, <2>1
<1> QED
  BY <1>5, <1>6, <1>7, <1>8, <1>9

(* Linear scan renames, where there is anything to rename.                   *)
SlotsOf(c) == LinearScan(Intervals(c), Pinned(c))

LEMMA AllocationRenames ==
  ASSUME NEW c, Allocatable(c), DOMAIN Intervals(c) # {}
  PROVE  IsRenaming(c, SlotsOf(c), LinearScanAlloc(c))
<1>1. AreIntervals(Intervals(c)) /\ IsFiniteSet(DOMAIN Intervals(c))
  BY IntervalsCover DEF AreIntervals
<1>2. Pinned(c) \subseteq DOMAIN Intervals(c)
  <2>1. DOMAIN Intervals(c) = RegistersOf(c.code) \cup 0 .. c.params - 1
    BY IntervalsCover DEF Covers
  <2> QED
    BY <2>1 DEF Pinned, RegistersOf, InstructionRegisters
<1>3. IsFiniteSet(Pinned(c))
  BY <1>1, <1>2, FS_Subset
<1>4. IsAllocation(SlotsOf(c), Intervals(c), Pinned(c))
  BY <1>1, <1>3, OverlapsAreApart DEF SlotsOf
<1> QED
  BY <1>4 DEF IsRenaming, IsAllocation, SlotsOf, LinearScanAlloc

(* Register allocation preserves behaviour: if the chunk it is given is      *)
(* valid and, wherever its executions read a register, it is pinned, alone   *)
(* in its slot, or was written and its interval not left since, the          *)
(* allocated chunk is valid and does, on every input, what the function did  *)
(* before any pass.                                                          *)
THEOREM AllocationPreservesBehaviour ==
  ASSUME PassesPreserveBehaviour, AllocateRegisters, Allocatable(chunk),
         \A input \in Inputs : StaysCovered(chunk, SlotsOf(chunk), input)
  PROVE  PassesPreserveBehaviour'
<1> DEFINE n == LinearScanAlloc(chunk)
<1>1. phase = "eliminated" /\ phase' = "allocated" /\ chunk' = n /\ UNCHANGED expected
  BY DEF AllocateRegisters, Pass
<1>2. /\ chunk.params <= chunk.regs
      /\ RegistersOf(chunk.code) \subseteq 0 .. chunk.regs - 1
      /\ \A k \in DOMAIN chunk.code :
           /\ chunk.code[k].op \in Ops
           /\ chunk.code[k].op \in Jumps => chunk.code[k].imm \in 1 .. Len(chunk.code) + 1
      /\ \A input \in Inputs : Agree(expected[input], Outcome(chunk, input, 2 * Fuel))
  BY <1>1 DEF PassesPreserveBehaviour, ChunkIsValid, Passes
<1>3. CASE DOMAIN Intervals(chunk) = {}
  <2>1. n = chunk
    BY <1>3 DEF LinearScanAlloc
  <2> HIDE DEF n
  <2> QED
    BY <1>1, <1>2, <2>1 DEF PassesPreserveBehaviour, ChunkIsValid
<1>4. CASE DOMAIN Intervals(chunk) # {}
  <2>1. IsRenaming(chunk, SlotsOf(chunk), n)
    BY <1>4, AllocationRenames
  <2>2. 2 * Fuel \in Nat
    BY FuelAssumption
  <2> HIDE DEF n
  <2>3. \A input \in Inputs : Outcome(n, input, 2 * Fuel) = Outcome(chunk, input, 2 * Fuel)
    BY <2>1, <2>2, RenamedOutcome
  <2>4. /\ n.params <= n.regs
        /\ RegistersOf(n.code) \subseteq 0 .. n.regs - 1
        /\ DOMAIN n.code = DOMAIN chunk.code /\ Len(n.code) = Len(chunk.code)
        /\ \A k \in DOMAIN chunk.code : n.code[k].op = chunk.code[k].op /\ n.code[k].imm = chunk.code[k].imm
    BY <2>1, RenamedIsValid
  <2>5. ChunkIsValid'
    BY <1>1, <1>2, <2>4 DEF ChunkIsValid
  <2> QED
    BY <1>1, <1>2, <2>3, <2>5 DEF PassesPreserveBehaviour
<1> QED
  BY <1>3, <1>4
-----------------------------------------------------------------------------
(* Dead registers.  What is left of the code: what was taken away had no     *)
(* effect but on a register nothing that is left uses.                       *)
Sweeps(code, e) ==
  /\ e = [k \in DOMAIN code |-> e[k]]
  /\ \A k \in DOMAIN code :
       \/ e[k] = code[k]
       \/ /\ e[k] = Nop
          /\ code[k].op \in SideEffectFree
          /\ InstrDef(code[k]) \cap UseSet(e) = {}

LEMMA NopUses == InstrUses(Nop) = {} /\ Block(Nop) = {}
BY DEF Nop, Rrr, InstrUses, Block, ZeroJumps, Moves, Binary

LEMMA RoundSweeps ==
  ASSUME NEW code, NEW e, Sweeps(code, e)
  PROVE  Sweeps(code, ElimRound(e))
<1> DEFINE f == ElimRound(e)
           dead == DeadDefs(e)
<1>1. /\ e = [k \in DOMAIN code |-> e[k]]
      /\ \A k \in DOMAIN code :
           \/ e[k] = code[k]
           \/ /\ e[k] = Nop /\ code[k].op \in SideEffectFree
              /\ InstrDef(code[k]) \cap UseSet(e) = {}
  BY DEF Sweeps
<1>2. f = [k \in DOMAIN code |-> IF k \in dead THEN Nop ELSE e[k]]
  BY <1>1 DEF ElimRound
<1>3. UseSet(f) \subseteq UseSet(e)
  <2> HIDE DEF dead, f
  <2>1. \A k \in DOMAIN code : InstrUses(f[k]) \cup Block(f[k]) \subseteq InstrUses(e[k]) \cup Block(e[k])
    BY <1>2, NopUses
  <2>2. DOMAIN f = DOMAIN code /\ DOMAIN e = DOMAIN code
    BY <1>1, <1>2
  <2> QED
    BY <2>1, <2>2 DEF UseSet
<1>4. ASSUME NEW k \in dead
      PROVE  e[k] = Nop \/ (e[k].op \in SideEffectFree /\ InstrDef(e[k]) \cap UseSet(e) = {})
  BY <1>4 DEF DeadDefs
<1>5. dead \subseteq DOMAIN code
  BY <1>1 DEF DeadDefs
<1> HIDE DEF dead, f
<1>6. ASSUME NEW k \in DOMAIN code
      PROVE  \/ f[k] = code[k]
             \/ /\ f[k] = Nop /\ code[k].op \in SideEffectFree
                /\ InstrDef(code[k]) \cap UseSet(f) = {}
  <2>1. CASE k \in dead /\ e[k] # Nop
    BY <1>1, <1>2, <1>3, <1>4, <2>1
  <2>2. CASE k \in dead /\ e[k] = Nop
    BY <1>1, <1>2, <1>3, <2>2
  <2>3. CASE k \notin dead
    BY <1>1, <1>2, <1>3, <2>3
  <2> QED
    BY <2>1, <2>2, <2>3
<1> QED
  BY <1>2, <1>6 DEF Sweeps, f

RoundsOf(g, code, n) ==
  g = [k \in 0 .. n |-> IF k = 0 THEN code ELSE ElimRound(g[k - 1])]

LEMMA RoundsExist ==
  ASSUME NEW code
  PROVE  \A n \in Nat : \E g : RoundsOf(g, code, n)
<1> DEFINE S == {n \in Nat : \E g : RoundsOf(g, code, n)}
           onward(s) == ElimRound(s)
<1>1. \A n, g : RoundsOf(g, code, n) <=> g = [k \in 0 .. n |-> IF k = 0 THEN code ELSE onward(g[k - 1])]
  BY DEF RoundsOf
<1> HIDE DEF onward
<1>2. 0 \in S
  <2> DEFINE g == [k \in 0 .. 0 |-> code]
  <2>1. g = [k \in 0 .. 0 |-> IF k = 0 THEN code ELSE onward(g[k - 1])]
    OBVIOUS
  <2>2. RoundsOf(g, code, 0)
    BY <1>1, <2>1
  <2> QED
    BY <2>2
<1>3. ASSUME NEW n \in Nat, n \in S PROVE n + 1 \in S
  <2>1. PICK g : RoundsOf(g, code, n)
    BY <1>3
  <2> DEFINE h == [k \in 0 .. n + 1 |-> IF k = n + 1 THEN onward(g[k - 1]) ELSE g[k]]
  <2>2. \A k \in 0 .. n : g[k] = IF k = 0 THEN code ELSE onward(g[k - 1])
    BY <1>1, <2>1
  <2>3. ASSUME NEW k \in 0 .. n + 1 PROVE h[k] = IF k = 0 THEN code ELSE onward(h[k - 1])
    <3>1. CASE k = n + 1
      <4>1. k - 1 \in 0 .. n + 1 /\ k - 1 # n + 1 /\ k # 0
        BY <3>1
      <4> QED
        BY <3>1, <4>1
    <3>2. CASE k # n + 1
      <4>1. h[k] = g[k] /\ k \in 0 .. n
        BY <3>2
      <4>2. k # 0 => k - 1 \in 0 .. n + 1 /\ k - 1 # n + 1
        BY <3>2
      <4> QED
        BY <2>2, <4>1, <4>2
    <3> QED
      BY <3>1, <3>2
  <2>4. h = [k \in 0 .. n + 1 |-> IF k = 0 THEN code ELSE onward(h[k - 1])]
    BY <2>3
  <2>5. RoundsOf(h, code, n + 1)
    BY <1>1, <2>4
  <2> QED
    BY <2>5
<1>4. \A n \in Nat : n \in S
  BY <1>2, <1>3, Induction
<1> QED
  BY <1>4

LEMMA ElimDefsSweeps ==
  ASSUME NEW code, code = [k \in DOMAIN code |-> code[k]], Len(code) \in Nat
  PROVE  Sweeps(code, ElimDefs(code))
<1> DEFINE n == Len(code)
           g == CHOOSE x : RoundsOf(x, code, n)
<1>1. ElimDefs(code) = g[n]
  BY DEF ElimDefs, RoundsOf
<1>2. RoundsOf(g, code, n)
  BY RoundsExist
<1> HIDE DEF g, n
<1> DEFINE S == {k \in Nat : k <= n => Sweeps(code, g[k])}
<1>3. \A k \in 0 .. n : g[k] = IF k = 0 THEN code ELSE ElimRound(g[k - 1])
  BY <1>2 DEF RoundsOf
<1>4. n \in Nat
  BY DEF n
<1>5. 0 \in S
  BY <1>3, <1>4 DEF Sweeps
<1>6. ASSUME NEW k \in Nat, k \in S PROVE k + 1 \in S
  <2>1. SUFFICES ASSUME k + 1 <= n PROVE Sweeps(code, g[k + 1])
    OBVIOUS
  <2>2. k + 1 \in 0 .. n /\ k + 1 # 0 /\ k + 1 - 1 = k /\ Sweeps(code, g[k])
    BY <1>4, <1>6, <2>1
  <2>3. g[k + 1] = ElimRound(g[k])
    BY <1>3, <2>2
  <2> QED
    BY <2>2, <2>3, RoundSweeps
<1>7. \A k \in Nat : k \in S
  BY <1>5, <1>6, Induction
<1> QED
  BY <1>1, <1>4, <1>7

-----------------------------------------------------------------------------
(* Where positions go when the Nops are taken out: a position behind one     *)
(* that stays comes after it, one behind a Nop to the same place.            *)
LEMMA MovedToIs ==
  ASSUME NEW e, NEW n \in Nat, DOMAIN e = 1 .. n
  PROVE  /\ Cardinality(Staying(e)) \in Nat
         /\ MovedTo(e, 1) = 1 /\ MovedTo(e, n + 1) = Cardinality(Staying(e)) + 1
         /\ \A t \in 1 .. n + 1 : MovedTo(e, t) \in 1 .. Cardinality(Staying(e)) + 1
         /\ \A t \in Staying(e) : MovedTo(e, t + 1) = MovedTo(e, t) + 1
         /\ \A t \in 1 .. n : t \notin Staying(e) => MovedTo(e, t + 1) = MovedTo(e, t)
<1> DEFINE stay == Staying(e)
           before(t) == {i \in stay : i < t}
<1>1. stay \subseteq 1 .. n /\ IsFiniteSet(stay) /\ Cardinality(stay) \in Nat
  <2>1. stay \subseteq 1 .. n
    BY DEF Staying
  <2>2. IsFiniteSet(1 .. n)
    BY FS_Interval
  <2> QED
    BY <2>1, <2>2, FS_Subset, FS_CardinalityType
<1>2. \A t : MovedTo(e, t) = 1 + Cardinality(before(t))
  BY DEF MovedTo
<1>11. \A i \in stay : i \in Nat /\ 1 <= i /\ i <= n
  BY <1>1
<1> HIDE DEF stay
<1>3. \A t : IsFiniteSet(before(t)) /\ Cardinality(before(t)) \in Nat /\ Cardinality(before(t)) <= Cardinality(stay)
  <2> TAKE t
  <2>1. before(t) \subseteq stay
    OBVIOUS
  <2> QED
    BY <1>1, <2>1, FS_Subset, FS_CardinalityType
<1>4. Cardinality(before(1)) = 0
  <2>1. \A i \in stay : ~ (i < 1)
    BY <1>11
  <2>2. before(1) = {}
    BY <2>1
  <2> QED
    BY <2>2, FS_EmptySet
<1>5. before(n + 1) = stay
  <2>1. \A i \in stay : i < n + 1
    BY <1>11
  <2> QED
    BY <2>1
<1>6. ASSUME NEW t \in stay PROVE Cardinality(before(t + 1)) = Cardinality(before(t)) + 1
  <2>1. ~ (t < t) /\ \A i \in stay : i < t + 1 <=> i < t \/ i = t
    BY <1>11
  <2>2. before(t + 1) = before(t) \cup {t} /\ t \notin before(t)
    BY <2>1
  <2> QED
    BY <1>3, <2>2, FS_AddElement, ZenonT(60)
<1>7. ASSUME NEW t \in 1 .. n, t \notin stay PROVE before(t + 1) = before(t)
  <2>1. \A i \in stay : i < t + 1 <=> i < t
    <3> SUFFICES ASSUME NEW i \in stay PROVE i < t + 1 <=> i < t
      OBVIOUS
    <3>1. i # t /\ i \in Nat /\ t \in Nat
      BY <1>7, <1>11
    <3> QED
      BY <3>1
  <2> QED
    BY <2>1
<1> HIDE DEF before
<1>8. \A t \in stay : MovedTo(e, t + 1) = MovedTo(e, t) + 1
  BY <1>2, <1>3, <1>6
<1>9. \A t \in 1 .. n : t \notin stay => MovedTo(e, t + 1) = MovedTo(e, t)
  BY <1>2, <1>7
<1>10. \A t : MovedTo(e, t) \in 1 .. Cardinality(stay) + 1
  BY <1>1, <1>2, <1>3
<1> QED
  BY <1>1, <1>2, <1>4, <1>5, <1>8, <1>9, <1>10 DEF stay

(* Positions that stay keep their order, and fill the new code.              *)
LEMMA MovedToFills ==
  ASSUME NEW e, NEW n \in Nat, DOMAIN e = 1 .. n
  PROVE  /\ \A i \in Staying(e) : MovedTo(e, i) \in 1 .. Cardinality(Staying(e))
         /\ \A i, j \in Staying(e) : MovedTo(e, i) = MovedTo(e, j) => i = j
         /\ \A k \in 1 .. Cardinality(Staying(e)) : \E i \in Staying(e) : MovedTo(e, i) = k
<1> DEFINE stay == Staying(e)
           c == Cardinality(stay)
           at(t) == MovedTo(e, t)
           S == {t \in Nat : t <= n =>
                   /\ \A k \in 1 .. at(t + 1) - 1 : \E i \in stay : at(i) = k
                   /\ \A i \in stay : i <= t => at(i) < at(t + 1)
                   /\ \A i, j \in stay : i <= t /\ j <= t /\ at(i) = at(j) => i = j}
<1>1. /\ c \in Nat /\ at(1) = 1 /\ at(n + 1) = c + 1
      /\ \A t \in 1 .. n + 1 : at(t) \in 1 .. c + 1
      /\ \A t \in stay : at(t + 1) = at(t) + 1
      /\ \A t \in 1 .. n : t \notin stay => at(t + 1) = at(t)
  BY MovedToIs
<1>2. stay \subseteq 1 .. n
  BY DEF Staying
<1> HIDE DEF stay, c, at
<1>3. 0 \in S
  BY <1>1, <1>2
<1>4. ASSUME NEW t \in Nat, t \in S PROVE t + 1 \in S
  <2> DEFINE u == t + 1
  <2>1. SUFFICES ASSUME u <= n
                 PROVE  /\ \A k \in 1 .. at(u + 1) - 1 : \E i \in stay : at(i) = k
                        /\ \A i \in stay : i <= u => at(i) < at(u + 1)
                        /\ \A i, j \in stay : i <= u /\ j <= u /\ at(i) = at(j) => i = j
    OBVIOUS
  <2>2. /\ u \in 1 .. n /\ u + 1 \in 1 .. n + 1 /\ t <= n /\ u \in Nat
        /\ at(u) \in Nat /\ at(u + 1) \in Nat
    BY <1>1, <2>1
  <2>3. /\ \A k \in 1 .. at(u) - 1 : \E i \in stay : at(i) = k
        /\ \A i \in stay : i <= t => at(i) < at(u)
        /\ \A i, j \in stay : i <= t /\ j <= t /\ at(i) = at(j) => i = j
    BY <1>4, <2>2
  <2>4. \A i \in stay : i \in Nat /\ at(i) \in Nat /\ (i <= u <=> i <= t \/ i = u)
    <3> SUFFICES ASSUME NEW i \in stay PROVE i \in Nat /\ at(i) \in Nat /\ (i <= u <=> i <= t \/ i = u)
      OBVIOUS
    <3>1. i \in 1 .. n /\ i \in 1 .. n + 1
      BY <1>2
    <3> QED
      BY <1>1, <3>1
  <2> HIDE DEF u
  <2>5. CASE u \in stay
    <3>1. at(u + 1) = at(u) + 1
      BY <1>1, <2>5
    <3>2. \A k \in 1 .. at(u + 1) - 1 : k \in 1 .. at(u) - 1 \/ k = at(u)
      BY <2>2, <3>1
    <3>3. \A i \in stay : i <= u => at(i) < at(u + 1)
      BY <2>2, <2>3, <2>4, <3>1, SMTT(30)
    <3>4. \A i, j \in stay : i <= u /\ j <= u /\ at(i) = at(j) => i = j
      <4> SUFFICES ASSUME NEW i \in stay, NEW j \in stay, i <= u, j <= u, at(i) = at(j) PROVE i = j
        OBVIOUS
      <4>1. at(u) \in Nat /\ at(i) \in Nat /\ at(j) \in Nat
        BY <2>2, <2>4
      <4>2. i <= t => at(i) < at(u)
        BY <2>3
      <4>3. j <= t => at(j) < at(u)
        BY <2>3
      <4>4. (i <= t \/ i = u) /\ (j <= t \/ j = u)
        BY <2>4
      <4>5. ~ (i <= t /\ j = u) /\ ~ (i = u /\ j <= t)
        BY <4>1, <4>2, <4>3
      <4> QED
        BY <2>3, <4>4, <4>5
    <3> QED
      BY <2>3, <2>5, <3>2, <3>3, <3>4
  <2>6. CASE u \notin stay
    <3>1. at(u + 1) = at(u)
      BY <1>1, <2>2, <2>6
    <3>2. \A i \in stay : i <= u => i <= t
      BY <2>4, <2>6
    <3> QED
      BY <2>3, <3>1, <3>2
  <2> QED
    BY <2>5, <2>6
<1>5. \A t \in Nat : t \in S
  BY <1>3, <1>4, Induction
<1>6. n \in S
  BY <1>5
<1>7. \A i \in stay : i <= n /\ i \in 1 .. n + 1
  BY <1>2
<1>8. \A i \in stay : at(i) < at(n + 1)
  BY <1>6, <1>7
<1>9. \A i \in stay : at(i) \in 1 .. c
  BY <1>1, <1>7, <1>8
<1>10. at(n + 1) - 1 = c
  BY <1>1
<1> QED
  BY <1>6, <1>7, <1>9, <1>10 DEF stay, c, at

Fixed(e, i) == IF i.op \in Jumps THEN [i EXCEPT !.imm = MovedTo(e, @)] ELSE i

LEMMA StripIs ==
  ASSUME NEW e, NEW n \in Nat, DOMAIN e = 1 .. n
  PROVE  /\ DOMAIN StripNops(e) = 1 .. Cardinality(Staying(e))
         /\ \A k \in 1 .. Cardinality(Staying(e)) : \E i \in Staying(e) :
              MovedTo(e, i) = k /\ StripNops(e)[k] = Fixed(e, e[i])
         /\ \A i \in Staying(e) : StripNops(e)[MovedTo(e, i)] = Fixed(e, e[i])
<1> DEFINE from(k) == CHOOSE i \in Staying(e) : MovedTo(e, i) = k
<1>1. StripNops(e) = [k \in 1 .. Cardinality(Staying(e)) |-> Fixed(e, e[from(k)])]
  BY DEF StripNops, Fixed
<1>2. /\ \A i \in Staying(e) : MovedTo(e, i) \in 1 .. Cardinality(Staying(e))
      /\ \A i, j \in Staying(e) : MovedTo(e, i) = MovedTo(e, j) => i = j
      /\ \A k \in 1 .. Cardinality(Staying(e)) : \E i \in Staying(e) : MovedTo(e, i) = k
  BY MovedToFills
<1>3. \A k \in 1 .. Cardinality(Staying(e)) : from(k) \in Staying(e) /\ MovedTo(e, from(k)) = k
  BY <1>2
<1> HIDE DEF from
<1>4. \A i \in Staying(e) : from(MovedTo(e, i)) = i
  BY <1>2, <1>3
<1> QED
  BY <1>1, <1>2, <1>3, <1>4

-----------------------------------------------------------------------------
(* What the elimination of dead registers asks of a chunk: it is one code    *)
(* generation emits, and returns.                                            *)
Strippable(c) ==
  /\ Allocatable(c)
  /\ \A k \in DOMAIN c.code :
       LET i == c.code[k]
       IN /\ {i.d, i.x, i.y} \subseteq InstructionRegisters(i) \cup {0}
          /\ i.op \in Jumps => i.imm \in 1 .. Len(c.code) + 1
  /\ \E k \in DOMAIN c.code : c.code[k].op = "Ret"

(* The chunk without its dead definitions, before its registers move.        *)
Stripped(c) == [c EXCEPT !.code = StripNops(ElimDefs(@))]

LEMMA LeftIs ==
  ASSUME NEW c, Strippable(c)
  PROVE  LET e == ElimDefs(c.code)
             n == Len(c.code)
         IN /\ n \in Nat /\ DOMAIN c.code = 1 .. n /\ DOMAIN e = 1 .. n /\ Sweeps(c.code, e)
            /\ Staying(e) \subseteq 1 .. n
            /\ \A i \in Staying(e) : e[i] = c.code[i]
            /\ \A i \in DOMAIN c.code : i \notin Staying(e) =>
                 \/ c.code[i].op = "Nop"
                 \/ c.code[i].op \in SideEffectFree /\ InstrDef(c.code[i]) \cap UseSet(e) = {}
<1> DEFINE e == ElimDefs(c.code)
           n == Len(c.code)
<1>1. c.code \in Seq([op : Ops, d : Nat, x : Nat, y : Nat, imm : Nat, n : Nat])
  BY DEF Strippable, Allocatable, IsCode
<1>2. n \in Nat /\ DOMAIN c.code = 1 .. n /\ c.code = [k \in DOMAIN c.code |-> c.code[k]]
  BY <1>1
<1>3. Sweeps(c.code, e)
  BY <1>2, ElimDefsSweeps
<1> HIDE DEF e, n
<1>4. DOMAIN e = 1 .. n
  BY <1>2, <1>3 DEF Sweeps
<1>5. \A i \in Staying(e) : i \in 1 .. n /\ e[i].op # "Nop"
  BY <1>4 DEF Staying
<1>6. \A i \in 1 .. n : i \notin Staying(e) => e[i].op = "Nop"
  BY <1>4 DEF Staying
<1>7. Nop.op = "Nop"
  BY DEF Nop, Rrr
<1>8. \A i \in Staying(e) : e[i] = c.code[i]
  BY <1>2, <1>3, <1>5, <1>7 DEF Sweeps
<1>9. \A i \in DOMAIN c.code : i \notin Staying(e) =>
        \/ c.code[i].op = "Nop"
        \/ c.code[i].op \in SideEffectFree /\ InstrDef(c.code[i]) \cap UseSet(e) = {}
  BY <1>2, <1>3, <1>6 DEF Sweeps
<1> QED
  BY <1>2, <1>3, <1>4, <1>5, <1>8, <1>9 DEF e, n

(* Moving a jump changes nothing but its target.                             *)
LEMMA FixedIs ==
  ASSUME NEW e, NEW i, IsInstruction(i), i.op \in Jumps => MovedTo(e, i.imm) \in Nat
  PROVE  /\ IsInstruction(Fixed(e, i))
         /\ Fixed(e, i).op = i.op /\ Fixed(e, i).d = i.d /\ Fixed(e, i).x = i.x
         /\ Fixed(e, i).y = i.y /\ Fixed(e, i).n = i.n
         /\ i.op \in Jumps => Fixed(e, i).imm = MovedTo(e, i.imm)
         /\ i.op \notin Jumps => Fixed(e, i) = i
         /\ InstrUses(Fixed(e, i)) = InstrUses(i) /\ InstrDef(Fixed(e, i)) = InstrDef(i)
         /\ Block(Fixed(e, i)) = Block(i)
<1> DEFINE f == Fixed(e, i)
<1>1. i \in [op : Ops, d : Nat, x : Nat, y : Nat, imm : Nat, n : Nat]
  BY DEF IsInstruction
<1>2. /\ f.op = i.op /\ f.d = i.d /\ f.x = i.x /\ f.y = i.y /\ f.n = i.n
      /\ i.op \in Jumps => f.imm = MovedTo(e, i.imm)
      /\ i.op \notin Jumps => f = i
      /\ f \in [op : Ops, d : Nat, x : Nat, y : Nat, imm : Nat, n : Nat]
  BY <1>1 DEF Fixed
<1> HIDE DEF f
<1>3. IsInstruction(f)
  BY <1>2 DEF IsInstruction, Jumps, Branches, FlagJumps, ZeroJumps
<1>4. InstrUses(f) = InstrUses(i)
  BY <1>2 DEF InstrUses
<1>5. InstrDef(f) = InstrDef(i)
  BY <1>2 DEF InstrDef
<1>6. Block(f) = Block(i)
  BY <1>2 DEF Block
<1> QED
  BY <1>2, <1>3, <1>4, <1>5, <1>6 DEF f

LEMMA StrippedIs ==
  ASSUME NEW c, Strippable(c)
  PROVE  LET s == Stripped(c)
             e == ElimDefs(c.code)
             stay == Staying(e)
         IN /\ s = [code |-> s.code, params |-> c.params, regs |-> c.regs]
            /\ Len(s.code) = Cardinality(stay) /\ DOMAIN s.code = 1 .. Cardinality(stay)
            /\ \A k \in DOMAIN s.code : \E i \in stay : s.code[k] = Fixed(e, c.code[i])
            /\ \A i \in stay : MovedTo(e, i) \in DOMAIN s.code /\ s.code[MovedTo(e, i)] = Fixed(e, c.code[i])
            /\ \A i \in stay : c.code[i].op \in Jumps => MovedTo(e, c.code[i].imm) \in 1 .. Len(s.code) + 1
            /\ IsCode(s.code)
<1> DEFINE s == Stripped(c)
           e == ElimDefs(c.code)
           stay == Staying(e)
           n == Len(c.code)
           z == Cardinality(stay)
           R == [op : Ops, d : Nat, x : Nat, y : Nat, imm : Nat, n : Nat]
<1>1. /\ n \in Nat /\ DOMAIN c.code = 1 .. n /\ DOMAIN e = 1 .. n
      /\ stay \subseteq 1 .. n /\ \A i \in stay : e[i] = c.code[i]
  BY LeftIs
<1>2. s = [code |-> s.code, params |-> c.params, regs |-> c.regs] /\ s.code = StripNops(e)
  BY DEF Stripped, Strippable, Allocatable, IsChunk
<1> HIDE DEF s, e, n
<1>3. /\ DOMAIN s.code = 1 .. z
      /\ \A k \in 1 .. z : \E i \in stay : MovedTo(e, i) = k /\ s.code[k] = Fixed(e, e[i])
      /\ \A i \in stay : s.code[MovedTo(e, i)] = Fixed(e, e[i])
  BY <1>1, <1>2, StripIs
<1>4. z \in Nat /\ \A t \in 1 .. n + 1 : MovedTo(e, t) \in 1 .. z + 1
  BY <1>1, MovedToIs
<1>5. \A i \in stay : MovedTo(e, i) \in 1 .. z
  BY <1>1, MovedToFills
<1> HIDE DEF z
<1>6. \A i \in stay : IsInstruction(c.code[i]) /\ (c.code[i].op \in Jumps => c.code[i].imm \in 1 .. n + 1)
  BY <1>1 DEF Strippable, Allocatable, IsCode, n
<1>7. \A i \in stay : c.code[i].op \in Jumps => MovedTo(e, c.code[i].imm) \in 1 .. z + 1
  BY <1>4, <1>6
<1>8. \A i \in stay : IsInstruction(Fixed(e, c.code[i]))
  BY <1>4, <1>6, <1>7, FixedIs
<1>9. \A k \in 1 .. z : \E i \in stay : s.code[k] = Fixed(e, c.code[i])
  BY <1>1, <1>3
<1>10. \A k \in 1 .. z : IsInstruction(s.code[k]) /\ s.code[k] \in R
  <2> TAKE k \in 1 .. z
  <2>1. PICK i \in stay : s.code[k] = Fixed(e, c.code[i])
    BY <1>9
  <2>2. IsInstruction(s.code[k])
    BY <1>8, <2>1
  <2> QED
    BY <2>2 DEF IsInstruction
<1>11. s.code = [k \in 1 .. z |-> s.code[k]]
  BY <1>2, <1>3 DEF StripNops, z
<1>12. s.code \in Seq(R) /\ Len(s.code) = z
  <2> HIDE DEF R
  <2>1. s.code \in [1 .. z -> R]
    BY <1>10, <1>11
  <2>2. s.code \in Seq(R)
    BY <1>4, <2>1, SeqDef
  <2> QED
    BY <1>3, <1>4, <2>2, LenProperties
<1>13. IsCode(s.code)
  BY <1>3, <1>10, <1>12 DEF IsCode
<1> QED
  BY <1>1, <1>2, <1>3, <1>5, <1>7, <1>9, <1>12, <1>13 DEF s, e, z

(* What is left is a chunk as good as the one before: it uses what the       *)
(* instructions that stay use, and no dead definition writes that.           *)
LEMMA StrippedUses ==
  ASSUME NEW c, Strippable(c)
  PROVE  LET s == Stripped(c)
             stay == Staying(ElimDefs(c.code))
         IN /\ \A i \in stay : InstrUses(c.code[i]) \cup Block(c.code[i]) \subseteq UseSet(s.code)
            /\ UseSet(s.code) \subseteq UseSet(ElimDefs(c.code))
            /\ UseSet(s.code) \subseteq RegistersOf(s.code)
            /\ RegistersOf(s.code) \subseteq RegistersOf(c.code)
            /\ \A k \in DOMAIN s.code : \E i \in stay :
                 /\ InstructionRegisters(s.code[k]) = InstructionRegisters(c.code[i])
                 /\ s.code[k].op = c.code[i].op /\ s.code[k].d = c.code[i].d
                 /\ s.code[k].x = c.code[i].x /\ s.code[k].y = c.code[i].y /\ s.code[k].n = c.code[i].n
                 /\ c.code[i].op \in Jumps => s.code[k].imm \in 1 .. Len(s.code) + 1
<1> DEFINE s == Stripped(c)
           e == ElimDefs(c.code)
           stay == Staying(e)
           Of(k, i) == /\ InstrUses(s.code[k]) = InstrUses(c.code[i])
                       /\ InstrDef(s.code[k]) = InstrDef(c.code[i])
                       /\ Block(s.code[k]) = Block(c.code[i])
                       /\ s.code[k].op = c.code[i].op /\ s.code[k].d = c.code[i].d
                       /\ s.code[k].x = c.code[i].x /\ s.code[k].y = c.code[i].y /\ s.code[k].n = c.code[i].n
                       /\ c.code[i].op \in Jumps => s.code[k].imm \in 1 .. Len(s.code) + 1
<1>1. /\ Len(c.code) \in Nat /\ DOMAIN c.code = 1 .. Len(c.code) /\ DOMAIN e = 1 .. Len(c.code)
      /\ stay \subseteq 1 .. Len(c.code) /\ \A i \in stay : e[i] = c.code[i]
  BY LeftIs
<1>2. /\ DOMAIN s.code = 1 .. Len(s.code)
      /\ \A k \in DOMAIN s.code : \E i \in stay : s.code[k] = Fixed(e, c.code[i])
      /\ \A i \in stay : MovedTo(e, i) \in DOMAIN s.code /\ s.code[MovedTo(e, i)] = Fixed(e, c.code[i])
      /\ \A i \in stay : c.code[i].op \in Jumps => MovedTo(e, c.code[i].imm) \in 1 .. Len(s.code) + 1
  BY StrippedIs
<1>3. \A i \in stay : IsInstruction(c.code[i])
  BY <1>1 DEF Strippable, Allocatable, IsCode
<1> HIDE DEF s, e
<1>4. \A i \in stay : \A k : s.code[k] = Fixed(e, c.code[i]) => Of(k, i)
  <2> SUFFICES ASSUME NEW i \in stay, NEW k, s.code[k] = Fixed(e, c.code[i]) PROVE Of(k, i)
    OBVIOUS
  <2>1. IsInstruction(c.code[i]) /\ (c.code[i].op \in Jumps => MovedTo(e, c.code[i].imm) \in 1 .. Len(s.code) + 1)
    BY <1>2, <1>3
  <2>2. c.code[i].op \in Jumps => MovedTo(e, c.code[i].imm) \in Nat
    BY <2>1
  <2> QED
    BY <2>1, <2>2, FixedIs
<1>5. \A k \in DOMAIN s.code : \E i \in stay : Of(k, i)
  BY <1>2, <1>4
<1>6. \A i \in stay : \E k \in DOMAIN s.code : Of(k, i)
  BY <1>2, <1>4
<1>7. \A i \in stay : InstrUses(c.code[i]) \cup Block(c.code[i]) \subseteq UseSet(s.code)
  BY <1>6 DEF UseSet
<1>8. UseSet(s.code) \subseteq UseSet(e)
  <2>1. \A k \in DOMAIN s.code : \E i \in DOMAIN e :
          InstrUses(s.code[k]) = InstrUses(e[i]) /\ Block(s.code[k]) = Block(e[i])
    BY <1>1, <1>5
  <2> QED
    BY <2>1 DEF UseSet
<1>9. UseSet(s.code) \subseteq RegistersOf(s.code)
  BY DEF UseSet, RegistersOf, InstructionRegisters
<1>10. \A k \in DOMAIN s.code : \E i \in stay :
         Of(k, i) /\ InstructionRegisters(s.code[k]) = InstructionRegisters(c.code[i])
  BY <1>5 DEF InstructionRegisters
<1>11. RegistersOf(s.code) \subseteq RegistersOf(c.code)
  BY <1>1, <1>10 DEF RegistersOf
<1> QED
  BY <1>7, <1>8, <1>9, <1>10, <1>11 DEF s, e

LEMMA StrippedIsAllocatable ==
  ASSUME NEW c, Strippable(c)
  PROVE  LET s == Stripped(c)
         IN /\ Allocatable(s) /\ RegistersOf(s.code) # {} /\ Slots(s) = Slots(c)
            /\ \A k \in DOMAIN s.code :
                 s.code[k].op \in Jumps => s.code[k].imm \in 1 .. Len(s.code) + 1
<1> DEFINE s == Stripped(c)
           stay == Staying(ElimDefs(c.code))
<1>1. s = [code |-> s.code, params |-> c.params, regs |-> c.regs] /\ IsCode(s.code)
  BY StrippedIs
<1>2. /\ \A i \in stay : InstrUses(c.code[i]) \cup Block(c.code[i]) \subseteq UseSet(s.code)
      /\ UseSet(s.code) \subseteq RegistersOf(s.code)
      /\ RegistersOf(s.code) \subseteq RegistersOf(c.code)
      /\ \A k \in DOMAIN s.code : \E i \in stay :
           /\ InstructionRegisters(s.code[k]) = InstructionRegisters(c.code[i])
           /\ s.code[k].op = c.code[i].op /\ s.code[k].d = c.code[i].d
           /\ s.code[k].x = c.code[i].x /\ s.code[k].y = c.code[i].y /\ s.code[k].n = c.code[i].n
           /\ c.code[i].op \in Jumps => s.code[k].imm \in 1 .. Len(s.code) + 1
  BY StrippedUses
<1>3. /\ stay \subseteq DOMAIN c.code
      /\ \A i \in DOMAIN c.code : i \notin stay => c.code[i].op = "Nop" \/ c.code[i].op \in SideEffectFree
  BY LeftIs
<1>4. /\ c.regs \in Nat /\ c.params \in Nat /\ c.params <= c.regs
      /\ RegistersOf(c.code) \subseteq 0 .. c.regs - 1
      /\ \A i \in DOMAIN c.code : c.code[i].op = "Lea" => c.code[i].n # 0
      /\ \A i \in DOMAIN c.code :
           {c.code[i].d, c.code[i].x, c.code[i].y} \subseteq InstructionRegisters(c.code[i]) \cup {0}
  BY DEF Strippable, Allocatable, IsChunk
<1> HIDE DEF s, stay
<1>5. ASSUME NEW k \in DOMAIN s.code
      PROVE  /\ {s.code[k].d, s.code[k].x, s.code[k].y} \subseteq RegistersOf(s.code) \cup {0}
             /\ s.code[k].op = "Lea" => s.code[k].n # 0
             /\ s.code[k].op \in Jumps => s.code[k].imm \in 1 .. Len(s.code) + 1
  <2>1. PICK i \in stay :
          /\ InstructionRegisters(s.code[k]) = InstructionRegisters(c.code[i])
          /\ s.code[k].op = c.code[i].op /\ s.code[k].d = c.code[i].d
          /\ s.code[k].x = c.code[i].x /\ s.code[k].y = c.code[i].y /\ s.code[k].n = c.code[i].n
          /\ c.code[i].op \in Jumps => s.code[k].imm \in 1 .. Len(s.code) + 1
    BY <1>2
  <2>2. i \in DOMAIN c.code
    BY <1>3
  <2>3. InstructionRegisters(s.code[k]) \subseteq RegistersOf(s.code)
    BY DEF RegistersOf
  <2>4. {c.code[i].d, c.code[i].x, c.code[i].y} \subseteq InstructionRegisters(c.code[i]) \cup {0}
    BY <1>4, <2>2
  <2>5. {s.code[k].d, s.code[k].x, s.code[k].y} \subseteq InstructionRegisters(s.code[k]) \cup {0}
    BY <2>1, <2>4
  <2>6. s.code[k].op = "Lea" => s.code[k].n # 0
    BY <1>4, <2>1, <2>2
  <2> QED
    BY <2>1, <2>3, <2>5, <2>6
<1>6. RegistersOf(s.code) # {}
  <2>1. PICK k \in DOMAIN c.code : c.code[k].op = "Ret"
    BY DEF Strippable
  <2>2. k \in stay
    BY <1>3, <2>1 DEF SideEffectFree, Moves, Binary
  <2>3. InstrUses(c.code[k]) = {c.code[k].d}
    BY <2>1 DEF InstrUses, ZeroJumps, Moves, Binary
  <2> QED
    BY <1>2, <2>2, <2>3
<1>7. s.code = s.code /\ s.params = c.params /\ s.regs = c.regs
  BY <1>1
<1>8. RegistersOf(s.code) \subseteq 0 .. s.regs - 1
  BY <1>2, <1>4, <1>7
<1>9. Allocatable(s)
  BY <1>1, <1>4, <1>5, <1>7, <1>8 DEF Allocatable, IsChunk
<1>10. Slots(s) = Slots(c)
  <2>1. 0 .. c.regs - 1 \subseteq 0 .. c.regs
    BY <1>4
  <2>2. Slots(s) = 0 .. c.regs /\ Slots(c) = 0 .. c.regs
    BY <1>2, <1>4, <1>7, <2>1 DEF Slots
  <2> QED
    BY <2>2
<1> QED
  BY <1>5, <1>6, <1>9, <1>10 DEF s

-----------------------------------------------------------------------------
(* How long an execution is: it has halted, or used up its fuel.             *)
Lasts(c, input, e, bound) ==
  /\ InRun(c, input, e) /\ Len(e.states) \in Nat /\ Len(e.states) <= bound
  /\ e.status = "running" => Len(e.states) = bound

LEMMA OneMoreLasts ==
  ASSUME NEW c, NEW input, NEW e, NEW bound \in Nat, Lasts(c, input, e, bound)
  PROVE  Lasts(c, input, IF e.status = "running" THEN OneMore(c.code, input, e) ELSE e, bound + 1)
<1>1. CASE e.status = "running"
  <2> DEFINE m == Step(c.code, e.states[Len(e.states)], input)
  <2>1. InRun(c, input, OneMore(c.code, input, e))
    BY <1>1, OneMoreRuns DEF Lasts
  <2>2. OneMore(c.code, input, e).states = Append(e.states, m)
    BY DEF OneMore
  <2>3. PICK S : e.states \in Seq(S)
    BY DEF Lasts, InRun
  <2> HIDE DEF m
  <2>4. e.states \in Seq(S \cup {m})
    BY <2>3
  <2>5. Len(Append(e.states, m)) = Len(e.states) + 1
    BY <2>4, AppendProperties
  <2> QED
    BY <1>1, <2>1, <2>2, <2>5 DEF Lasts
<1>2. CASE e.status # "running"
  BY <1>2 DEF Lasts
<1> QED
  BY <1>1, <1>2

LEMMA StepsLast ==
  ASSUME NEW c, NEW input, NEW e, NEW bound \in Nat, Lasts(c, input, e, bound),
         NEW n \in Nat, NEW g, Steps(g, c.code, input, e, n)
  PROVE  Lasts(c, input, g[n], bound + n)
<1> DEFINE S == {k \in Nat : k <= n => Lasts(c, input, g[k], bound + k)}
           Further(s) == IF s.status = "running" THEN OneMore(c.code, input, s) ELSE s
<1>1. \A k \in 0 .. n : g[k] = IF k = 0 THEN e ELSE Further(g[k - 1])
  BY DEF Steps
<1>2. \A s : \A b \in Nat : Lasts(c, input, s, b) => Lasts(c, input, Further(s), b + 1)
  BY OneMoreLasts
<1> HIDE DEF Further
<1>3. 0 \in S
  <2>1. bound + 0 = bound /\ g[0] = e
    BY <1>1
  <2> QED
    BY <2>1
<1>4. ASSUME NEW k \in Nat, k \in S PROVE k + 1 \in S
  <2>1. SUFFICES ASSUME k + 1 <= n PROVE Lasts(c, input, g[k + 1], bound + (k + 1))
    OBVIOUS
  <2>2. k + 1 \in 0 .. n /\ k + 1 # 0 /\ k + 1 - 1 = k /\ Lasts(c, input, g[k], bound + k)
    BY <1>4, <2>1
  <2>3. g[k + 1] = Further(g[k])
    BY <1>1, <2>2
  <2>4. bound + k \in Nat /\ (bound + k) + 1 = bound + (k + 1)
    OBVIOUS
  <2> QED
    BY <1>2, <2>2, <2>3, <2>4
<1>5. \A k \in Nat : k \in S
  BY <1>3, <1>4, Induction
<1> QED
  BY <1>5

LEMMA BurstsLast ==
  ASSUME NEW c, NEW input, NEW e, NEW bound \in Nat, Lasts(c, input, e, bound),
         NEW n \in Nat, NEW g, Bursts(g, c.code, input, e, n)
  PROVE  Lasts(c, input, g[n], bound + Burst * n)
<1> DEFINE S == {k \in Nat : k <= n => Lasts(c, input, g[k], bound + Burst * k)}
           Further(s) == IF s.status = "running" THEN OneBurst(c.code, input, s) ELSE s
<1>0. Burst \in Nat
  BY DEF Burst
<1>1. \A k \in 0 .. n : g[k] = IF k = 0 THEN e ELSE Further(g[k - 1])
  BY DEF Bursts, OneBurst
<1>2. \A s : \A b \in Nat : Lasts(c, input, s, b) => Lasts(c, input, Further(s), b + Burst)
  <2> SUFFICES ASSUME NEW s, NEW b \in Nat, Lasts(c, input, s, b)
               PROVE  Lasts(c, input, Further(s), b + Burst)
    OBVIOUS
  <2>1. CASE s.status = "running"
    <3> DEFINE h == CHOOSE x : Steps(x, c.code, input, s, Burst)
    <3>1. Steps(h, c.code, input, s, Burst)
      BY <1>0, StepsExist
    <3>2. OneBurst(c.code, input, s) = h[Burst]
      BY DEF OneBurst
    <3> HIDE DEF h
    <3>3. Lasts(c, input, h[Burst], b + Burst)
      BY <1>0, <3>1, StepsLast
    <3> QED
      BY <2>1, <3>2, <3>3
  <2>2. CASE s.status # "running"
    <3>1. Further(s) = s
      BY <2>2
    <3> HIDE DEF Further
    <3> QED
      BY <1>0, <2>2, <3>1 DEF Lasts
  <2> QED
    BY <2>1, <2>2
<1> HIDE DEF Further
<1>3. 0 \in S
  <2>1. bound + Burst * 0 = bound /\ g[0] = e
    BY <1>0, <1>1
  <2> QED
    BY <2>1
<1>4. ASSUME NEW k \in Nat, k \in S PROVE k + 1 \in S
  <2>1. SUFFICES ASSUME k + 1 <= n PROVE Lasts(c, input, g[k + 1], bound + Burst * (k + 1))
    OBVIOUS
  <2>2. k + 1 \in 0 .. n /\ k + 1 # 0 /\ k + 1 - 1 = k /\ Lasts(c, input, g[k], bound + Burst * k)
    BY <1>4, <2>1
  <2>3. g[k + 1] = Further(g[k])
    BY <1>1, <2>2
  <2>4. bound + Burst * k \in Nat /\ (bound + Burst * k) + Burst = bound + Burst * (k + 1)
    BY DEF Burst
  <2> QED
    BY <1>2, <2>2, <2>3, <2>4
<1>5. \A k \in Nat : k \in S
  BY <1>3, <1>4, Induction
<1> QED
  BY <1>5

LEMMA ExecutionEnds ==
  ASSUME NEW c, NEW input, NEW fuel \in Nat
  PROVE  LET states == Execution(c, input, fuel)
             last == 1 + Burst * (fuel \div Burst)
         IN /\ IsExecution(c, input, states)
            /\ DOMAIN states = 1 .. Len(states) /\ Len(states) \in Nat \ {0} /\ Len(states) <= last
            /\ states[1] = Start(c, input, Slots(c))
            /\ states[Len(states)].status = "running" => Len(states) = last
<1> DEFINE e == [status |-> "running", states |-> <<Start(c, input, Slots(c))>>]
           n == fuel \div Burst
           g == CHOOSE x : Bursts(x, c.code, input, e, n)
<1>1. n \in Nat
  BY DEF Burst
<1>2. Bursts(g, c.code, input, e, n)
  BY <1>1, BurstsExist
<1>3. Execution(c, input, fuel) = g[n].states
  BY ExecutionIs DEF Slots
<1>4. Len(e.states) = 1 /\ InRun(c, input, e)
  BY StartRuns
<1> HIDE DEF g, e
<1>5. Lasts(c, input, e, 1)
  BY <1>4 DEF Lasts
<1>6. Lasts(c, input, g[n], 1 + Burst * n)
  BY <1>1, <1>2, <1>5, BurstsLast
<1>7. PICK S : g[n].states \in Seq(S)
  BY <1>6 DEF Lasts, InRun
<1> HIDE DEF n
<1>8. DOMAIN g[n].states = 1 .. Len(g[n].states) /\ Len(g[n].states) \in Nat \ {0}
  BY <1>6, <1>7, LenProperties, EmptySeq DEF Lasts, InRun
<1>9. 1 \in DOMAIN g[n].states
  BY <1>8
<1>10. /\ IsExecution(c, input, g[n].states) /\ Len(g[n].states) <= 1 + Burst * n
       /\ g[n].states[Len(g[n].states)].status = "running" => Len(g[n].states) = 1 + Burst * n
  BY <1>6 DEF Lasts, InRun
<1>11. g[n].states[1] = Start(c, input, Slots(c))
  BY <1>9, <1>10 DEF IsExecution
<1> QED
  BY <1>3, <1>8, <1>10, <1>11 DEF n

-----------------------------------------------------------------------------
(* Two states that differ at most in where they are and in slots nothing in  *)
(* K names.                                                                  *)
Twins(slots, K, m, o) ==
  /\ IsState(m, slots) /\ IsState(o, slots)
  /\ o.flags = m.flags /\ o.seen = m.seen /\ o.status = m.status
  /\ o.args = m.args /\ m.args \in Seq(K)
  /\ \A r \in K : o.slot[r] = m.slot[r]

(* An instruction reads what K names, itself or through an address.          *)
ReadsIn(K, i, m) ==
  /\ ReadBy(i) \subseteq K
  /\ i.op = "Call" /\ i.imm = Look => Pointee(Given(m)[1]) \in K
  /\ i.op = "Call" /\ i.imm = Spread =>
       \A a \in 1 .. Given(m)[2] : Pointee(Given(m)[1]) + a - 1 \in K

LEMMA TwinsCall ==
  ASSUME NEW slots, NEW K, K \subseteq slots, NEW m, NEW o, Twins(slots, K, m, o),
         NEW i, i.op = "Call", ReadsIn(K, i, m), NEW input
  PROVE  LET m2 == CallStep(m, i, input)
             o2 == CallStep(o, i, input)
         IN Twins(slots, K, m2, o2) /\ m2.pc = m.pc + 1 /\ o2.pc = o.pc + 1
<1> DEFINE given == Given(m)
           answer == Answer(input, Len(m.seen) + 1)
           p == Pointee(given[1])
           changed == IF i.imm = Change THEN [m.slot EXCEPT ![p] = answer] ELSE m.slot
           other == IF i.imm = Change THEN [o.slot EXCEPT ![p] = answer] ELSE o.slot
           report == Report(i.imm, given, m.slot)
           sum == Sum(given[1], given[2])
           m2 == CallStep(m, i, input)
           o2 == CallStep(o, i, input)
<1>1. /\ m = [pc |-> m.pc, slot |-> m.slot, flags |-> m.flags, args |-> m.args, seen |-> m.seen, status |-> m.status]
      /\ o = [pc |-> o.pc, slot |-> o.slot, flags |-> o.flags, args |-> o.args, seen |-> o.seen, status |-> o.status]
      /\ m.slot = [x \in slots |-> m.slot[x]] /\ o.slot = [x \in slots |-> o.slot[x]]
      /\ o.flags = m.flags /\ o.seen = m.seen /\ o.status = m.status
      /\ o.args = m.args /\ m.args \in Seq(K) /\ \A r \in K : o.slot[r] = m.slot[r]
  BY DEF Twins, IsState
<1>2. Given(o) = given
  <2>1. \A k \in DOMAIN m.args : m.args[k] \in K
    BY <1>1
  <2>2. \A k \in DOMAIN m.args : o.slot[m.args[k]] = m.slot[m.args[k]]
    BY <1>1, <2>1
  <2> QED
    BY <1>1, <2>2 DEF Given
<1> HIDE DEF given
<1>3. Report(i.imm, given, o.slot) = report
  <2>1. CASE i.imm = Look
    <3>1. o.slot[p] = m.slot[p]
      BY <1>1, <2>1 DEF ReadsIn, given
    <3> QED
      BY <2>1, <3>1 DEF Report, Look, Use
  <2>2. CASE i.imm = Spread
    <3>1. \A a \in 1 .. given[2] : o.slot[p + a - 1] = m.slot[p + a - 1]
      BY <1>1, <2>2 DEF ReadsIn, given
    <3>2. [a \in 1 .. given[2] |-> o.slot[p + a - 1]] = [a \in 1 .. given[2] |-> m.slot[p + a - 1]]
      BY <3>1
    <3> QED
      BY <2>2, <3>2 DEF Report, Look, Use, Spread
  <2>3. CASE i.imm # Look /\ i.imm # Spread
    BY <2>3 DEF Report, Use, Look, Spread
  <2> QED
    BY <2>1, <2>2, <2>3
<1>4. m2 = IF i.imm = Small
           THEN [m EXCEPT !.pc = @ + 1, !.args = <<>>, !.slot[i.d] = sum]
           ELSE [m EXCEPT !.pc = @ + 1, !.args = <<>>, !.seen = Append(@, <<i.imm>> \o report),
                          !.slot = [changed EXCEPT ![i.d] = answer]]
  BY DEF CallStep, Given, given
<1>5. o2 = IF i.imm = Small
           THEN [o EXCEPT !.pc = @ + 1, !.args = <<>>, !.slot[i.d] = sum]
           ELSE [o EXCEPT !.pc = @ + 1, !.args = <<>>, !.seen = Append(@, <<i.imm>> \o report),
                          !.slot = [other EXCEPT ![i.d] = answer]]
  <2>1. o2 = IF i.imm = Small
             THEN [o EXCEPT !.pc = @ + 1, !.args = <<>>, !.slot[i.d] = Sum(Given(o)[1], Given(o)[2])]
             ELSE [o EXCEPT !.pc = @ + 1, !.args = <<>>,
                            !.seen = Append(@, <<i.imm>> \o Report(i.imm, Given(o), o.slot)),
                            !.slot = [(IF i.imm = Change
                                       THEN [o.slot EXCEPT ![Pointee(Given(o)[1])] = Answer(input, Len(o.seen) + 1)]
                                       ELSE o.slot) EXCEPT ![i.d] = Answer(input, Len(o.seen) + 1)]]
    BY DEF CallStep, Given
  <2> QED
    BY <1>1, <1>2, <1>3, <2>1
<1>6. /\ changed = [x \in slots |-> changed[x]] /\ other = [x \in slots |-> other[x]]
      /\ \A r \in K : other[r] = changed[r]
  <2> HIDE DEF answer, p
  <2> QED
    BY <1>1
<1> HIDE DEF changed, other, report, sum, answer, m2, o2
<1>7. <<>> \in Seq(K)
  OBVIOUS
<1>8. CASE i.imm = Small
  <2>1. m2.slot = [m.slot EXCEPT ![i.d] = sum] /\ o2.slot = [o.slot EXCEPT ![i.d] = sum]
    BY <1>1, <1>4, <1>5, <1>8
  <2>2. \A r \in K : o2.slot[r] = m2.slot[r]
    BY <1>1, <2>1
  <2>3. IsState(m2, slots) /\ IsState(o2, slots)
    BY <1>1, <1>4, <1>5, <1>8 DEF IsState
  <2>4. /\ o2.flags = m2.flags /\ o2.seen = m2.seen /\ o2.status = m2.status
        /\ o2.args = <<>> /\ m2.args = <<>> /\ m2.pc = m.pc + 1 /\ o2.pc = o.pc + 1
    BY <1>1, <1>4, <1>5, <1>8
  <2> QED
    BY <1>7, <2>2, <2>3, <2>4 DEF Twins, m2, o2
<1>9. CASE i.imm # Small
  <2>1. m2.slot = [changed EXCEPT ![i.d] = answer] /\ o2.slot = [other EXCEPT ![i.d] = answer]
    BY <1>1, <1>4, <1>5, <1>9
  <2>2. \A r \in K : o2.slot[r] = m2.slot[r]
    BY <1>6, <2>1
  <2>3. IsState(m2, slots) /\ IsState(o2, slots)
    BY <1>1, <1>4, <1>5, <1>6, <1>9 DEF IsState
  <2>4. /\ o2.flags = m2.flags /\ o2.seen = m2.seen /\ o2.status = m2.status
        /\ o2.args = <<>> /\ m2.args = <<>> /\ m2.pc = m.pc + 1 /\ o2.pc = o.pc + 1
    BY <1>1, <1>4, <1>5, <1>9
  <2> QED
    BY <1>7, <2>2, <2>3, <2>4 DEF Twins, m2, o2
<1> QED
  BY <1>8, <1>9

(* A step of one instruction, but for where a jump leads.                    *)
LEMMA TwinsStep ==
  ASSUME NEW slots, NEW K, K \subseteq slots, NEW m, NEW o, Twins(slots, K, m, o), m.status = "running",
         NEW i, IsInstruction(i), ReadsIn(K, i, m), NEW input,
         NEW j, j.op = i.op, j.d = i.d, i.op \notin Jumps => j = i
  PROVE  LET m2 == Execute(m, i, input)
             o2 == Execute(o, j, input)
         IN /\ Twins(slots, K, m2, o2)
            /\ i.op \in Jumps => \/ m2.pc = i.imm /\ o2.pc = j.imm
                                 \/ m2.pc = m.pc + 1 /\ o2.pc = o.pc + 1
            /\ i.op \notin Jumps => \/ m2.pc = m.pc + 1 /\ o2.pc = o.pc + 1
                                    \/ m2.pc = m.pc /\ o2.pc = o.pc
<1> DEFINE m2 == Execute(m, i, input)
           o2 == Execute(o, j, input)
<1>1. /\ m = [pc |-> m.pc, slot |-> m.slot, flags |-> m.flags, args |-> m.args, seen |-> m.seen, status |-> m.status]
      /\ o = [pc |-> o.pc, slot |-> o.slot, flags |-> o.flags, args |-> o.args, seen |-> o.seen, status |-> o.status]
      /\ m.slot = [x \in slots |-> m.slot[x]] /\ o.slot = [x \in slots |-> o.slot[x]]
      /\ o.flags = m.flags /\ o.seen = m.seen /\ o.status = m.status
      /\ o.args = m.args /\ m.args \in Seq(K) /\ \A r \in K : o.slot[r] = m.slot[r]
  BY DEF Twins, IsState
<1>2. ReadBy(i) \subseteq K
  BY DEF ReadsIn
<1>3. i.op \in Ops /\ (i.op = "Inc" => i.d = i.x)
  BY DEF IsInstruction
<1>4. CASE i.op \in Jumps
  <2>1. i.op \in ZeroJumps => i.d \in K
    BY <1>2 DEF ReadBy
  <2>2. Taken(o, j) = Taken(m, i)
    <3>1. o.slot[i.d] = m.slot[i.d] \/ i.op \notin ZeroJumps
      BY <1>1, <2>1
    <3> QED
      BY <1>1, <1>4, <3>1 DEF Taken, Jumps, Branches, FlagJumps, ZeroJumps
  <2>3. m2 = [m EXCEPT !.pc = IF Taken(m, i) THEN i.imm ELSE @ + 1]
    BY <1>4 DEF Execute, Jumps, Branches, FlagJumps, ZeroJumps
  <2>4. o2 = [o EXCEPT !.pc = IF Taken(m, i) THEN j.imm ELSE @ + 1]
    BY <1>4, <2>2 DEF Execute, Jumps, Branches, FlagJumps, ZeroJumps
  <2> HIDE DEF m2, o2
  <2>5. Twins(slots, K, m2, o2)
    BY <1>1, <2>3, <2>4 DEF Twins, IsState
  <2>6. \/ m2.pc = i.imm /\ o2.pc = j.imm
        \/ m2.pc = m.pc + 1 /\ o2.pc = o.pc + 1
    BY <1>1, <2>3, <2>4
  <2> QED
    BY <1>4, <2>5, <2>6 DEF m2, o2
<1>5. CASE i.op \in {"Trap", "Nop", "Ret", "Cmp", "Arg"}
  <2>1. o2 = Execute(o, i, input)
    BY <1>5 DEF Jumps, Branches, FlagJumps, ZeroJumps
  <2>2. CASE i.op = "Trap"
    BY <1>1, <2>1, <2>2 DEF Execute, Halt, Twins, IsState, Jumps, Branches, FlagJumps, ZeroJumps
  <2>3. CASE i.op = "Nop"
    BY <1>1, <2>1, <2>3 DEF Execute, Twins, IsState, Jumps, Branches, FlagJumps, ZeroJumps
  <2>4. CASE i.op = "Ret"
    <3>1. i.d \in K
      BY <1>2, <2>4 DEF ReadBy, InstrUses, ZeroJumps, Moves, Binary
    <3>2. o.slot[i.d] = m.slot[i.d]
      BY <1>1, <3>1
    <3> DEFINE v == m.slot[i.d]
    <3>3. m2 = Halt([m EXCEPT !.seen = Append(@, <<v>>)], "returned")
      BY <2>4 DEF Execute, Jumps, Branches, FlagJumps, ZeroJumps
    <3>4. o2 = Halt([o EXCEPT !.seen = Append(@, <<v>>)], "returned")
      BY <2>1, <2>4, <3>2 DEF Execute, Jumps, Branches, FlagJumps, ZeroJumps
    <3> HIDE DEF v, m2, o2
    <3>5. Twins(slots, K, m2, o2) /\ m2.pc = m.pc /\ o2.pc = o.pc
      BY <1>1, <3>3, <3>4 DEF Halt, Twins, IsState
    <3> QED
      BY <2>4, <3>5 DEF m2, o2, Jumps, Branches, FlagJumps, ZeroJumps
  <2>5. CASE i.op = "Cmp"
    <3>1. i.x \in K /\ i.y \in K
      BY <1>2, <2>5 DEF ReadBy, InstrUses, ZeroJumps, Moves, Binary
    <3>2. o.slot[i.x] = m.slot[i.x] /\ o.slot[i.y] = m.slot[i.y]
      BY <1>1, <3>1
    <3> QED
      BY <1>1, <2>1, <2>5, <3>2, ZenonT(60) DEF Execute, Twins, IsState, Jumps, Branches, FlagJumps, ZeroJumps
  <2>6. CASE i.op = "Arg"
    <3>1. i.d \in K
      BY <1>2, <2>6 DEF ReadBy, InstrUses, ZeroJumps, Moves, Binary
    <3>2. Append(m.args, i.d) \in Seq(K)
      BY <1>1, <3>1
    <3>3. m2 = [m EXCEPT !.pc = @ + 1, !.args = Append(@, i.d)] /\ o2 = [o EXCEPT !.pc = @ + 1, !.args = Append(@, i.d)]
      BY <2>1, <2>6 DEF Execute, Jumps, Branches, FlagJumps, ZeroJumps
    <3> HIDE DEF m2, o2
    <3>4. Twins(slots, K, m2, o2) /\ m2.pc = m.pc + 1 /\ o2.pc = o.pc + 1
      BY <1>1, <3>2, <3>3 DEF Twins, IsState
    <3> QED
      BY <2>6, <3>4 DEF m2, o2, Jumps, Branches, FlagJumps, ZeroJumps
  <2> QED
    BY <1>5, <2>2, <2>3, <2>4, <2>5, <2>6
<1>6. CASE i.op = "Call"
  <2>1. j = i /\ m2 = CallStep(m, i, input) /\ o2 = CallStep(o, i, input)
    BY <1>6 DEF Execute, Jumps, Branches, FlagJumps, ZeroJumps
  <2>2. i.op \notin Jumps
    BY <1>6 DEF Jumps, Branches, FlagJumps, ZeroJumps
  <2> HIDE DEF m2, o2
  <2>3. Twins(slots, K, m2, o2) /\ m2.pc = m.pc + 1 /\ o2.pc = o.pc + 1
    BY <1>6, <2>1, TwinsCall
  <2> QED
    BY <2>2, <2>3 DEF m2, o2
<1>7. CASE i.op \in Moves \cup Binary \cup {"MovI", "Lea"}
  <2>1. j = i /\ i.op \notin Jumps
    BY <1>7 DEF Moves, Binary, Jumps, Branches, FlagJumps, ZeroJumps
  <2>2. /\ i.op \in Moves => o.slot[i.x] = m.slot[i.x]
        /\ i.op \in Binary => o.slot[i.x] = m.slot[i.x] /\ o.slot[i.y] = m.slot[i.y]
    <3>1. /\ i.op \in Moves => i.x \in K
          /\ i.op \in Binary => i.x \in K /\ i.y \in K
      BY <1>2 DEF ReadBy, InstrUses, ZeroJumps, Moves, Binary
    <3> QED
      BY <1>1, <3>1
  <2>3. CASE i.op = "Div" /\ m.slot[i.y] = 0
    <3>1. m2 = Halt(m, "faulted")
      BY <2>3 DEF Execute, Jumps, Branches, FlagJumps, ZeroJumps
    <3>2. o2 = Halt(o, "faulted")
      BY <2>1, <2>2, <2>3 DEF Execute, Jumps, Branches, FlagJumps, ZeroJumps, Binary
    <3> QED
      BY <1>1, <2>1, <3>1, <3>2, ZenonT(60) DEF Halt, Twins, IsState
  <2>4. CASE ~ (i.op = "Div" /\ m.slot[i.y] = 0)
    <3> DEFINE v == Compute(m, i)
    <3>1. Compute(o, i) = v
      BY <1>1, <1>3, <1>7, <2>2 DEF Compute, Moves, Binary
    <3>2. m2 = [m EXCEPT !.pc = @ + 1, !.slot[i.d] = v]
      BY <1>7, <2>4 DEF Execute, Moves, Binary, Jumps, Branches, FlagJumps, ZeroJumps
    <3>3. o2 = [o EXCEPT !.pc = @ + 1, !.slot[i.d] = v]
      <4>1. ~ (i.op = "Div" /\ o.slot[i.y] = 0)
        BY <2>2, <2>4 DEF Binary
      <4>2. o2 = [o EXCEPT !.pc = @ + 1, !.slot[i.d] = Compute(o, i)]
        BY <1>7, <2>1, <4>1 DEF Execute, Moves, Binary, Jumps, Branches, FlagJumps, ZeroJumps
      <4> QED
        BY <3>1, <4>2
    <3> HIDE DEF v, m2, o2
    <3>4. m2.slot = [m.slot EXCEPT ![i.d] = v] /\ o2.slot = [o.slot EXCEPT ![i.d] = v]
      BY <1>1, <3>2, <3>3
    <3>5. \A r \in K : o2.slot[r] = m2.slot[r]
      BY <1>1, <3>4
    <3>6. IsState(m2, slots) /\ IsState(o2, slots)
      BY <1>1, <3>2, <3>3 DEF IsState
    <3>7. /\ o2.flags = m2.flags /\ o2.seen = m2.seen /\ o2.status = m2.status
          /\ o2.args = m2.args /\ m2.args = m.args /\ m2.pc = m.pc + 1 /\ o2.pc = o.pc + 1
      BY <1>1, <3>2, <3>3
    <3> QED
      BY <1>1, <2>1, <3>5, <3>6, <3>7 DEF Twins, m2, o2
  <2> QED
    BY <2>3, <2>4
<1> QED
  BY <1>3, <1>4, <1>5, <1>6, <1>7 DEF Ops

-----------------------------------------------------------------------------
(* A state of the chunk and one of the chunk without its dead definitions.   *)
Shadows(c, m, o) ==
  /\ Twins(Slots(c), UseSet(Stripped(c).code), m, o)
  /\ m.pc \in 1 .. Len(c.code) + 1
  /\ o.pc = MovedTo(ElimDefs(c.code), m.pc)

Blocks(code) == UNION {Block(code[k]) : k \in DOMAIN code}

(* A state in which the next instruction keeps to what register allocation   *)
(* takes for granted: a jump on register 0 (which InstrUses leaves out) has  *)
(* it kept, nothing is written between the arguments of a call and the call, *)
(* and the addresses a callee is given are of blocks.                        *)
Orderly(c, m) ==
  LET i == c.code[m.pc]
  IN /\ i.op \in ZeroJumps /\ i.d = 0 => 0 \in Pinned(c) \cap UseSet(c.code)
     /\ m.args # <<>> /\ InstrDef(i) # {} => i.op = "Call"
     /\ i.op = "Call" /\ i.imm \in {Look, Change} => Pointee(Given(m)[1]) \in Blocks(c.code)
     /\ i.op = "Call" /\ i.imm = Spread =>
          \A a \in 1 .. Given(m)[2] : Pointee(Given(m)[1]) + a - 1 \in Blocks(c.code)

LEMMA BlocksAreUsed ==
  ASSUME NEW c
  PROVE  Blocks(c.code) \subseteq UseSet(c.code) /\ Blocks(c.code) \subseteq Pinned(c)
BY DEF Blocks, UseSet, Pinned

LEMMA StayingStep ==
  ASSUME NEW c, Strippable(c), NEW m, NEW o, Shadows(c, m, o), m.status = "running",
         m.pc \in Staying(ElimDefs(c.code)), Executes(Stripped(c).code, o) => Orderly(Stripped(c), o), NEW input
  PROVE  Shadows(c, Step(c.code, m, input), Step(Stripped(c).code, o, input))
<1> DEFINE s == Stripped(c)
           e == ElimDefs(c.code)
           K == UseSet(s.code)
           i == c.code[m.pc]
           j == s.code[o.pc]
           n == Len(c.code)
<1>1. /\ n \in Nat /\ DOMAIN c.code = 1 .. n /\ DOMAIN e = 1 .. n
      /\ m.pc \in 1 .. n
  BY LeftIs
<1>2. /\ o.pc \in DOMAIN s.code /\ j = Fixed(e, i)
      /\ i.op \in Jumps => MovedTo(e, i.imm) \in 1 .. Len(s.code) + 1
  BY StrippedIs, ZenonT(60) DEF Shadows
<1>3. IsInstruction(i) /\ (i.op \in Jumps => i.imm \in 1 .. n + 1)
  BY <1>1 DEF Strippable, Allocatable, IsCode
<1>4. /\ j.op = i.op /\ j.d = i.d /\ (i.op \notin Jumps => j = i)
      /\ i.op \in Jumps => j.imm = MovedTo(e, i.imm)
      /\ InstrDef(j) = InstrDef(i)
  <2>1. i.op \in Jumps => MovedTo(e, i.imm) \in Nat
    BY <1>2
  <2> HIDE DEF i, j, e
  <2> QED
    BY <1>2, <1>3, <2>1, FixedIs
<1>5. Step(c.code, m, input) = Execute(m, i, input)
  BY <1>1 DEF Step
<1>6. Step(s.code, o, input) = Execute(o, j, input)
  BY <1>2 DEF Step
<1>7. Twins(Slots(c), K, m, o) /\ o.status = "running"
  BY DEF Shadows, Twins
<1>8. InstrUses(i) \subseteq K /\ K \subseteq RegistersOf(s.code) /\ RegistersOf(s.code) \subseteq RegistersOf(c.code)
  BY StrippedUses
<1>9. K \subseteq Slots(c)
  BY <1>8 DEF Slots
<1>10. Given(o) = Given(m)
  <2>1. m.args \in Seq(K) /\ o.args = m.args /\ \A r \in K : o.slot[r] = m.slot[r]
    BY <1>7 DEF Twins
  <2> HIDE DEF K
  <2>2. \A k \in DOMAIN m.args : o.slot[m.args[k]] = m.slot[m.args[k]]
    BY <2>1
  <2> QED
    BY <2>1, <2>2 DEF Given
<1>11. Orderly(s, o) /\ Blocks(s.code) \subseteq K
  BY <1>2, <1>7, BlocksAreUsed DEF Executes
<1>12. m.pc + 1 \in 1 .. n + 1 /\ MovedTo(e, m.pc + 1) = MovedTo(e, m.pc) + 1
  <2>1. m.pc \in Staying(e)
    OBVIOUS
  <2> HIDE DEF n, e
  <2>2. MovedTo(e, m.pc + 1) = MovedTo(e, m.pc) + 1
    BY <1>1, <2>1, MovedToIs
  <2> QED
    BY <1>1, <2>2
<1>13. o.pc = MovedTo(e, m.pc)
  BY DEF Shadows
<1> HIDE DEF s, e, i, n
<1>14. ReadsIn(K, i, m)
  <2>1. i.op \in ZeroJumps => i.d \in K
    <3>1. i.op \in ZeroJumps /\ i.d # 0 => i.d \in InstrUses(i)
      BY DEF InstrUses, ZeroJumps, Moves, Binary
    <3>2. i.op \in ZeroJumps /\ i.d = 0 => 0 \in K
      BY <1>4, <1>11 DEF Orderly
    <3> QED
      BY <1>8, <3>1, <3>2
  <2>2. i.op = "Call" => j = i
    BY <1>4 DEF Jumps, Branches, FlagJumps, ZeroJumps
  <2>3. /\ i.op = "Call" /\ i.imm = Look => Pointee(Given(m)[1]) \in K
        /\ i.op = "Call" /\ i.imm = Spread =>
             \A a \in 1 .. Given(m)[2] : Pointee(Given(m)[1]) + a - 1 \in K
    BY <1>10, <1>11, <2>2 DEF Orderly
  <2> QED
    BY <1>8, <2>1, <2>3 DEF ReadsIn, ReadBy
<1> DEFINE m2 == Execute(m, i, input)
           o2 == Execute(o, j, input)
<1>15. /\ Twins(Slots(c), K, m2, o2)
       /\ i.op \in Jumps => \/ m2.pc = i.imm /\ o2.pc = j.imm
                            \/ m2.pc = m.pc + 1 /\ o2.pc = o.pc + 1
       /\ i.op \notin Jumps => \/ m2.pc = m.pc + 1 /\ o2.pc = o.pc + 1
                               \/ m2.pc = m.pc /\ o2.pc = o.pc
  <2> HIDE DEF K, j
  <2>1. IsInstruction(i) /\ j.op = i.op /\ j.d = i.d /\ (i.op \notin Jumps => j = i)
    BY <1>3, <1>4
  <2> QED
    BY <1>7, <1>9, <1>14, <2>1, TwinsStep
<1> HIDE DEF m2, o2, K, j
<1>16. m2.pc \in 1 .. n + 1 /\ o2.pc = MovedTo(e, m2.pc)
  <2>1. CASE m2.pc = i.imm /\ o2.pc = j.imm /\ i.op \in Jumps
    BY <1>3, <1>4, <2>1
  <2>2. CASE m2.pc = m.pc + 1 /\ o2.pc = o.pc + 1
    BY <1>12, <1>13, <2>2
  <2>3. CASE m2.pc = m.pc /\ o2.pc = o.pc
    BY <1>1, <1>13, <2>3
  <2> QED
    BY <1>15, <2>1, <2>2, <2>3
<1> QED
  BY <1>5, <1>6, <1>15, <1>16 DEF Shadows, m2, o2, K, s, e, n

(* Where the code ends, so does the code that is left.                       *)
LEMMA EndingStep ==
  ASSUME NEW c, Strippable(c), NEW m, NEW o, Shadows(c, m, o), m.pc \notin DOMAIN c.code, NEW input
  PROVE  Shadows(c, Step(c.code, m, input), Step(Stripped(c).code, o, input))
<1> DEFINE s == Stripped(c)
           e == ElimDefs(c.code)
           n == Len(c.code)
           K == UseSet(s.code)
           m2 == Step(c.code, m, input)
           o2 == Step(s.code, o, input)
<1>1. n \in Nat /\ DOMAIN c.code = 1 .. n /\ DOMAIN e = 1 .. n
  BY LeftIs
<1>2. m.pc = n + 1
  BY <1>1 DEF Shadows
<1>3. Cardinality(Staying(e)) \in Nat /\ MovedTo(e, n + 1) = Cardinality(Staying(e)) + 1
  BY <1>1, MovedToIs
<1>4. DOMAIN s.code = 1 .. Cardinality(Staying(e))
  BY StrippedIs
<1>5. o.pc \notin DOMAIN s.code
  BY <1>2, <1>3, <1>4 DEF Shadows
<1>6. m2 = Halt([m EXCEPT !.seen = Append(@, <<0>>)], "returned")
  BY DEF Step
<1>7. o2 = Halt([o EXCEPT !.seen = Append(@, <<0>>)], "returned")
  BY <1>5 DEF Step
<1>8. Twins(Slots(c), K, m, o) /\ m.pc \in 1 .. n + 1 /\ o.pc = MovedTo(e, m.pc)
  BY DEF Shadows
<1> HIDE DEF m2, o2, K, s, e, n
<1>9. /\ m = [pc |-> m.pc, slot |-> m.slot, flags |-> m.flags, args |-> m.args, seen |-> m.seen, status |-> m.status]
      /\ o = [pc |-> o.pc, slot |-> o.slot, flags |-> o.flags, args |-> o.args, seen |-> o.seen, status |-> o.status]
  BY <1>8 DEF Twins, IsState
<1>10. Twins(Slots(c), K, m2, o2)
  BY <1>6, <1>7, <1>8, <1>9 DEF Twins, IsState, Halt
<1>11. m2.pc = m.pc /\ o2.pc = o.pc
  BY <1>6, <1>7, <1>9 DEF Halt
<1> QED
  BY <1>8, <1>10, <1>11 DEF Shadows, m2, o2, K, s, e, n

(* A definition that was taken away is a step the code that is left does not *)
(* make.                                                                     *)
LEMMA RemovedStep ==
  ASSUME NEW c, Strippable(c), NEW m, NEW o, Shadows(c, m, o), m.status = "running",
         m.pc \in DOMAIN c.code, m.pc \notin Staying(ElimDefs(c.code)), NEW input,
         c.code[m.pc].op = "Div" /\ c.code[m.pc].d \notin UseSet(Stripped(c).code)
           => m.slot[c.code[m.pc].y] # 0
  PROVE  Shadows(c, Step(c.code, m, input), o)
<1> DEFINE s == Stripped(c)
           e == ElimDefs(c.code)
           n == Len(c.code)
           K == UseSet(s.code)
           i == c.code[m.pc]
           m2 == Step(c.code, m, input)
<1>1. /\ n \in Nat /\ DOMAIN c.code = 1 .. n /\ DOMAIN e = 1 .. n
      /\ i.op = "Nop" \/ (i.op \in SideEffectFree /\ InstrDef(i) \cap UseSet(e) = {})
  BY LeftIs
<1>2. K \subseteq UseSet(e)
  BY StrippedUses
<1>3. m.pc + 1 \in 1 .. n + 1 /\ MovedTo(e, m.pc + 1) = MovedTo(e, m.pc)
  <2>1. m.pc \in 1 .. n
    BY <1>1
  <2> HIDE DEF n, e
  <2>2. MovedTo(e, m.pc + 1) = MovedTo(e, m.pc)
    BY <1>1, <2>1, MovedToIs DEF e
  <2> QED
    BY <1>1, <2>1, <2>2
<1>4. m2 = Execute(m, i, input)
  BY DEF Step
<1>5. Twins(Slots(c), K, m, o) /\ o.pc = MovedTo(e, m.pc)
  BY DEF Shadows
<1>6. i.op = "Div" /\ i.d \notin K => m.slot[i.y] # 0
  OBVIOUS
<1> HIDE DEF m2, K, s, e, n, i
<1>7. /\ m = [pc |-> m.pc, slot |-> m.slot, flags |-> m.flags, args |-> m.args, seen |-> m.seen, status |-> m.status]
      /\ m.slot = [x \in Slots(c) |-> m.slot[x]]
  BY <1>5 DEF Twins, IsState
<1>8. Twins(Slots(c), K, m2, o) /\ m2.pc = m.pc + 1
  <2>1. CASE i.op = "Nop"
    <3>1. m2 = [m EXCEPT !.pc = @ + 1]
      BY <1>4, <2>1 DEF Execute, Jumps, Branches, FlagJumps, ZeroJumps
    <3> QED
      BY <1>5, <1>7, <3>1 DEF Twins, IsState
  <2>2. CASE i.op \in SideEffectFree /\ InstrDef(i) \cap UseSet(e) = {}
    <3> DEFINE v == Compute(m, i)
    <3>1. InstrDef(i) = {i.d}
      BY <2>2 DEF InstrDef, SideEffectFree, Moves, Binary, Jumps, Branches, FlagJumps, ZeroJumps
    <3>2. i.d \notin K
      BY <1>2, <2>2, <3>1
    <3>3. m2 = [m EXCEPT !.pc = @ + 1, !.slot[i.d] = v]
      BY <1>4, <1>6, <2>2, <3>2 DEF Execute, SideEffectFree, Moves, Binary, Jumps, Branches, FlagJumps, ZeroJumps
    <3> HIDE DEF v
    <3>4. m2.slot = [m.slot EXCEPT ![i.d] = v]
      BY <1>7, <3>3
    <3>5. \A r \in K : o.slot[r] = m2.slot[r]
      <4>1. \A r \in K : o.slot[r] = m.slot[r]
        BY <1>5 DEF Twins
      <4>2. \A r \in K : m2.slot[r] = m.slot[r]
        BY <1>7, <3>2, <3>4
      <4> QED
        BY <4>1, <4>2
    <3>6. IsState(m2, Slots(c))
      BY <1>7, <3>3 DEF IsState
    <3>7. m2.flags = m.flags /\ m2.seen = m.seen /\ m2.status = m.status /\ m2.args = m.args /\ m2.pc = m.pc + 1
      BY <1>7, <3>3
    <3> QED
      BY <1>5, <3>5, <3>6, <3>7 DEF Twins
  <2> QED
    BY <1>1, <2>1, <2>2
<1> QED
  BY <1>3, <1>5, <1>8 DEF Shadows, m2, K, s, e, n

-----------------------------------------------------------------------------
(* What a function has shown its environment only grows.                     *)
GrowsInto(a, b) ==
  /\ \E S : a \in Seq(S) /\ b \in Seq(S)
  /\ Len(a) <= Len(b) /\ \A k \in 1 .. Len(a) : b[k] = a[k]

LEMMA GrowingIsAnOrder ==
  /\ \A a : (\E S : a \in Seq(S)) => GrowsInto(a, a)
  /\ \A a, b, d : GrowsInto(a, b) /\ GrowsInto(b, d) => GrowsInto(a, d)
<1>1. \A a : (\E S : a \in Seq(S)) => GrowsInto(a, a)
  BY LenProperties DEF GrowsInto
<1>2. ASSUME NEW a, NEW b, NEW d, GrowsInto(a, b), GrowsInto(b, d) PROVE GrowsInto(a, d)
  <2>1. PICK S : a \in Seq(S) /\ b \in Seq(S)
    BY <1>2 DEF GrowsInto
  <2>2. PICK T : b \in Seq(T) /\ d \in Seq(T)
    BY <1>2 DEF GrowsInto
  <2>3. a \in Seq(S \cup T) /\ d \in Seq(S \cup T)
    BY <2>1, <2>2
  <2>4. Len(a) \in Nat /\ Len(b) \in Nat /\ Len(d) \in Nat
    BY <2>1, <2>2, LenProperties
  <2>5. Len(a) <= Len(b) /\ Len(b) <= Len(d)
    BY <1>2 DEF GrowsInto
  <2>6. \A k \in 1 .. Len(a) : k \in 1 .. Len(b)
    BY <2>4, <2>5
  <2>7. \A k \in 1 .. Len(a) : b[k] = a[k]
    BY <1>2 DEF GrowsInto
  <2>8. \A k \in 1 .. Len(b) : d[k] = b[k]
    BY <1>2 DEF GrowsInto
  <2>9. \A k \in 1 .. Len(a) : d[k] = a[k]
    BY <2>6, <2>7, <2>8
  <2>10. Len(a) <= Len(d)
    BY <2>4, <2>5
  <2> QED
    BY <2>3, <2>9, <2>10 DEF GrowsInto
<1> QED
  BY <1>1, <1>2

LEMMA AppendGrows ==
  ASSUME NEW S, NEW a \in Seq(S), NEW v
  PROVE  GrowsInto(a, Append(a, v))
<1>1. a \in Seq(S \cup {v})
  OBVIOUS
<1>2. /\ Append(a, v) \in Seq(S \cup {v}) /\ Len(Append(a, v)) = Len(a) + 1
      /\ \A k \in 1 .. Len(a) : Append(a, v)[k] = a[k]
  BY <1>1, AppendProperties
<1>3. Len(a) \in Nat
  BY LenProperties
<1>4. Len(a) <= Len(Append(a, v))
  BY <1>2, <1>3
<1> QED
  BY <1>1, <1>2, <1>4 DEF GrowsInto

LEMMA StepGrows ==
  ASSUME NEW code, NEW slots, NEW m, IsState(m, slots), NEW S, m.seen \in Seq(S), NEW input
  PROVE  GrowsInto(m.seen, Step(code, m, input).seen)
<1> DEFINE m2 == Step(code, m, input)
           i == code[m.pc]
<1>1. m = [pc |-> m.pc, slot |-> m.slot, flags |-> m.flags, args |-> m.args, seen |-> m.seen, status |-> m.status]
  BY DEF IsState
<1>2. (\E v : m2.seen = Append(m.seen, v)) \/ m2.seen = m.seen
  <2>1. CASE m.pc \notin DOMAIN code
    <3>1. m2 = Halt([m EXCEPT !.seen = Append(@, <<0>>)], "returned")
      BY <2>1 DEF Step
    <3>2. m2.seen = Append(m.seen, <<0>>)
      BY <1>1, <3>1 DEF Halt
    <3> QED
      BY <3>2
  <2>2. CASE m.pc \in DOMAIN code
    <3>1. m2 = Execute(m, i, input)
      BY <2>2 DEF Step
    <3> HIDE DEF m2, i
    <3>2. CASE i.op = "Call"
      <4>1. m2 = CallStep(m, i, input)
        BY <3>1, <3>2 DEF Execute, Jumps, Branches, FlagJumps, ZeroJumps
      <4> QED
        BY <1>1, <4>1 DEF CallStep
    <3>3. CASE i.op = "Ret"
      <4>1. m2.seen = Append(m.seen, <<m.slot[i.d]>>)
        BY <1>1, <3>1, <3>3 DEF Execute, Halt, Jumps, Branches, FlagJumps, ZeroJumps
      <4> QED
        BY <4>1
    <3>4. CASE i.op # "Call" /\ i.op # "Ret"
      BY <1>1, <3>1, <3>4 DEF Execute, Halt
    <3> QED
      BY <3>2, <3>3, <3>4
  <2> QED
    BY <2>1, <2>2
<1> HIDE DEF m2
<1>3. CASE m2.seen = m.seen
  BY <1>3, GrowingIsAnOrder DEF m2
<1>4. CASE \E v : m2.seen = Append(m.seen, v)
  BY <1>4, AppendGrows DEF m2
<1> QED
  BY <1>2, <1>3, <1>4

LEMMA SeenGrows ==
  ASSUME NEW c, NEW input, NEW L, IsExecution(c, input, L), 1 \in DOMAIN L, NEW l \in DOMAIN L
  PROVE  GrowsInto(L[l].seen, L[Len(L)].seen)
<1> DEFINE n == Len(L)
           S == {k \in Nat : k \in 1 .. n => IsState(L[k], Slots(c)) /\ \E T : L[k].seen \in Seq(T)}
           R == {k \in Nat : k \in l .. n => GrowsInto(L[l].seen, L[k].seen)}
<1>1. /\ n \in Nat /\ DOMAIN L = 1 .. n /\ IsState(L[1], Slots(c)) /\ L[1] = Start(c, input, Slots(c))
      /\ \A k \in 1 .. n : k + 1 \in 1 .. n => L[k + 1] = Step(c.code, L[k], input)
  BY DEF IsExecution, IsRun
<1> HIDE DEF n
<1>2. 1 \in S
  <2>1. L[1].seen = <<>>
    BY <1>1 DEF Start
  <2>2. <<>> \in Seq({})
    OBVIOUS
  <2> QED
    BY <1>1, <2>1, <2>2
<1>3. ASSUME NEW k \in Nat, k \in S PROVE k + 1 \in S
  <2>1. CASE k = 0
    BY <1>2, <2>1
  <2>2. CASE k # 0 /\ k + 1 \in 1 .. n
    <3>1. k \in 1 .. n /\ L[k + 1] = Step(c.code, L[k], input) /\ IsState(L[k], Slots(c))
      BY <1>1, <1>3, <2>2
    <3>2. PICK T : L[k].seen \in Seq(T)
      BY <1>3, <3>1
    <3>3. GrowsInto(L[k].seen, L[k + 1].seen)
      BY <3>1, <3>2, StepGrows
    <3>4. IsState(L[k + 1], Slots(c))
      BY <3>1, StepKeepsState
    <3> QED
      BY <3>3, <3>4 DEF GrowsInto
  <2>3. CASE k + 1 \notin 1 .. n
    BY <2>3
  <2> QED
    BY <2>1, <2>2, <2>3
<1>4. \A k \in Nat : k \in S
  <2>1. 0 \in S
    OBVIOUS
  <2> HIDE DEF S
  <2> QED
    BY <1>3, <2>1, Induction
<1>5. \A k \in 1 .. n : IsState(L[k], Slots(c)) /\ \E T : L[k].seen \in Seq(T)
  BY <1>4
<1>6. l \in 1 .. n
  BY <1>1
<1>7. ASSUME NEW k \in Nat, k \in R PROVE k + 1 \in R
  <2>1. CASE k + 1 = l
    BY <1>5, <1>6, <2>1, GrowingIsAnOrder
  <2>2. CASE k + 1 # l /\ k + 1 \in l .. n
    <3>1. k \in l .. n /\ k \in 1 .. n /\ L[k + 1] = Step(c.code, L[k], input)
      BY <1>1, <1>6, <2>2
    <3>2. PICK T : L[k].seen \in Seq(T) /\ IsState(L[k], Slots(c))
      BY <1>5, <3>1
    <3>3. GrowsInto(L[k].seen, L[k + 1].seen)
      BY <3>1, <3>2, StepGrows
    <3>4. GrowsInto(L[l].seen, L[k].seen)
      BY <1>7, <3>1
    <3> QED
      BY <3>3, <3>4, GrowingIsAnOrder
  <2>3. CASE k + 1 \notin l .. n
    BY <2>3
  <2> QED
    BY <2>1, <2>2, <2>3
<1>8. \A k \in Nat : k \in R
  <2>1. 0 \in R
    BY <1>6
  <2> HIDE DEF R
  <2> QED
    BY <1>7, <2>1, Induction
<1>9. n \in l .. n
  BY <1>1, <1>6
<1> QED
  BY <1>1, <1>8, <1>9 DEF n

-----------------------------------------------------------------------------
(* Every execution of the chunk, however long, is orderly.                   *)
StaysOrderly(c, input) ==
  \A states : IsExecution(c, input, states) =>
    \A k \in DOMAIN states : Executes(c.code, states[k]) => Orderly(c, states[k])

(* No division that is taken away faults: code generation traps before it.   *)
RemovesNoFault(c, input) ==
  \A states : IsExecution(c, input, states) =>
    \A k \in DOMAIN states : Executes(c.code, states[k]) =>
      LET i == c.code[states[k].pc]
      IN i.op = "Div" /\ i.d \notin UseSet(Stripped(c).code) => states[k].slot[i.y] # 0

LEMMA StartShadows ==
  ASSUME NEW c, Strippable(c), NEW input
  PROVE  Shadows(c, Start(c, input, Slots(c)), Start(Stripped(c), input, Slots(Stripped(c))))
<1> DEFINE s == Stripped(c)
           m == Start(c, input, Slots(c))
           K == UseSet(s.code)
<1>1. Slots(s) = Slots(c)
  BY StrippedIsAllocatable
<1>2. s.params = c.params
  <2>1. s = [code |-> s.code, params |-> c.params, regs |-> c.regs]
    BY StrippedIs
  <2> QED
    BY <2>1
<1>3. Start(s, input, Slots(s)) = m
  BY <1>1, <1>2 DEF Start
<1>4. IsState(m, Slots(c)) /\ m.pc = 1 /\ m.args = <<>>
  BY DEF Start, IsState
<1>5. Len(c.code) \in Nat /\ MovedTo(ElimDefs(c.code), 1) = 1
  <2>1. Len(c.code) \in Nat /\ DOMAIN ElimDefs(c.code) = 1 .. Len(c.code)
    BY LeftIs
  <2> QED
    BY <2>1, MovedToIs
<1> HIDE DEF m, K
<1>6. m.args \in Seq(K)
  BY <1>4
<1>7. Twins(Slots(c), K, m, m)
  BY <1>4, <1>6 DEF Twins
<1>8. 1 \in 1 .. Len(c.code) + 1
  BY <1>5
<1>9. Shadows(c, m, m)
  BY <1>4, <1>5, <1>7, <1>8 DEF Shadows, K
<1> QED
  BY <1>3, <1>9 DEF m

(* The code that is left comes, in no more steps, to each state the other    *)
(* comes to, but for what nothing reads.                                     *)
LEMMA RunsShadow ==
  ASSUME NEW c, Strippable(c), NEW input, StaysOrderly(Stripped(c), input), RemovesNoFault(c, input),
         NEW E, IsExecution(c, input, E), 1 \in DOMAIN E,
         NEW O, IsExecution(Stripped(c), input, O), 1 \in DOMAIN O,
         NEW bound \in Nat, Len(E) <= bound,
         O[Len(O)].status = "running" => Len(O) = bound
  PROVE  \A k \in DOMAIN E : \E l \in DOMAIN O : Shadows(c, E[k], O[l])
<1> DEFINE n == Len(E)
           z == Len(O)
           s == Stripped(c)
           S == {k \in Nat : k \in 1 .. n => \E l \in 1 .. z : l <= k /\ Shadows(c, E[k], O[l])}
<1>1. /\ n \in Nat /\ DOMAIN E = 1 .. n /\ E[1] = Start(c, input, Slots(c))
      /\ \A k \in 1 .. n : k + 1 \in 1 .. n =>
           E[k].status = "running" /\ E[k + 1] = Step(c.code, E[k], input)
  BY DEF IsExecution, IsRun
<1>2. /\ z \in Nat /\ DOMAIN O = 1 .. z /\ O[1] = Start(s, input, Slots(s))
      /\ \A k \in 1 .. z : k + 1 \in 1 .. z => O[k + 1] = Step(s.code, O[k], input)
  BY DEF IsExecution, IsRun
<1>3. \A k \in 1 .. n : Executes(c.code, E[k]) =>
        (c.code[E[k].pc].op = "Div" /\ c.code[E[k].pc].d \notin UseSet(s.code)
           => E[k].slot[c.code[E[k].pc].y] # 0)
  BY <1>1 DEF RemovesNoFault
<1>4. \A l \in 1 .. z : Executes(s.code, O[l]) => Orderly(s, O[l])
  BY <1>2 DEF StaysOrderly
<1>5. n <= bound /\ (O[z].status = "running" => z = bound)
  OBVIOUS
<1>6. 1 \in 1 .. z /\ Shadows(c, E[1], O[1])
  BY <1>1, <1>2, StartShadows
<1> HIDE DEF n, z
<1>7. ASSUME NEW k \in Nat, k \in S PROVE k + 1 \in S
  <2>1. CASE k = 0
    BY <1>6, <2>1
  <2>2. CASE k # 0 /\ k + 1 \in 1 .. n
    <3>1. k \in 1 .. n /\ E[k].status = "running" /\ E[k + 1] = Step(c.code, E[k], input)
      BY <1>1, <2>2
    <3>2. PICK l \in 1 .. z : l <= k /\ Shadows(c, E[k], O[l])
      BY <1>7, <3>1
    <3>3. O[l].status = "running"
      BY <3>1, <3>2 DEF Shadows, Twins
    <3>4. CASE E[k].pc \in DOMAIN c.code /\ E[k].pc \notin Staying(ElimDefs(c.code))
      <4>1. c.code[E[k].pc].op = "Div" /\ c.code[E[k].pc].d \notin UseSet(s.code)
              => E[k].slot[c.code[E[k].pc].y] # 0
        BY <1>3, <3>1, <3>4 DEF Executes
      <4>2. Shadows(c, E[k + 1], O[l])
        BY <3>1, <3>2, <3>4, <4>1, RemovedStep
      <4>3. l <= k + 1
        BY <3>2
      <4> QED
        BY <4>2, <4>3
    <3>5. CASE E[k].pc \notin DOMAIN c.code \/ E[k].pc \in Staying(ElimDefs(c.code))
      <4>1. l + 1 \in 1 .. z
        <5>1. CASE l = z
          BY <1>1, <1>2, <1>5, <2>2, <3>2, <3>3, <5>1
        <5>2. CASE l # z
          BY <1>2, <3>2, <5>2
        <5> QED
          BY <5>1, <5>2
      <4>2. O[l + 1] = Step(s.code, O[l], input)
        BY <1>2, <3>2, <4>1
      <4>3. CASE E[k].pc \notin DOMAIN c.code
        <5>1. Shadows(c, E[k + 1], O[l + 1])
          BY <3>1, <3>2, <4>2, <4>3, EndingStep
        <5>2. l + 1 <= k + 1
          BY <3>2
        <5> QED
          BY <4>1, <5>1, <5>2
      <4>4. CASE E[k].pc \in Staying(ElimDefs(c.code))
        <5>1. Executes(s.code, O[l]) => Orderly(s, O[l])
          BY <1>4, <3>2
        <5>2. Shadows(c, E[k + 1], O[l + 1])
          BY <3>1, <3>2, <4>2, <4>4, <5>1, StayingStep
        <5>3. l + 1 <= k + 1
          BY <3>2
        <5> QED
          BY <4>1, <5>2, <5>3
      <4> QED
        BY <3>5, <4>3, <4>4
    <3> QED
      BY <3>4, <3>5
  <2>3. CASE k + 1 \notin 1 .. n
    BY <2>3
  <2> QED
    BY <2>1, <2>2, <2>3
<1>8. \A k \in Nat : k \in S
  <2>1. 0 \in S
    OBVIOUS
  <2> HIDE DEF S
  <2> QED
    BY <1>7, <2>1, Induction
<1>9. ASSUME NEW k \in 1 .. n PROVE \E l \in 1 .. z : Shadows(c, E[k], O[l])
  <2>1. k \in Nat
    BY <1>1
  <2>2. k \in S
    BY <1>8, <2>1
  <2> QED
    BY <2>2
<1> QED
  BY <1>1, <1>2, <1>9

(* What halts has the same outcome without its dead definitions, and what    *)
(* does not comes at least as far.                                           *)
LEMMA StrippedOutcome ==
  ASSUME NEW c, Strippable(c), NEW input, StaysOrderly(Stripped(c), input), RemovesNoFault(c, input),
         NEW fuel \in Nat
  PROVE  LET b == Outcome(c, input, fuel)
             z == Outcome(Stripped(c), input, fuel)
         IN GrowsInto(b.seen, z.seen) /\ (b.status # "running" => z = b)
<1> DEFINE s == Stripped(c)
           E == Execution(c, input, fuel)
           O == Execution(s, input, fuel)
           bound == 1 + Burst * (fuel \div Burst)
<1>1. /\ IsExecution(c, input, E) /\ DOMAIN E = 1 .. Len(E) /\ Len(E) \in Nat \ {0} /\ Len(E) <= bound
  BY ExecutionEnds
<1>2. /\ IsExecution(s, input, O) /\ DOMAIN O = 1 .. Len(O) /\ Len(O) \in Nat \ {0}
      /\ O[Len(O)].status = "running" => Len(O) = bound
  BY ExecutionEnds
<1>3. bound \in Nat
  BY DEF Burst
<1>4. /\ Outcome(c, input, fuel) = [seen |-> E[Len(E)].seen, status |-> E[Len(E)].status]
      /\ Outcome(s, input, fuel) = [seen |-> O[Len(O)].seen, status |-> O[Len(O)].status]
  BY DEF Outcome
<1> HIDE DEF E, O, bound, s
<1>5. 1 \in DOMAIN E /\ 1 \in DOMAIN O /\ Len(E) \in DOMAIN E /\ Len(O) \in DOMAIN O
  BY <1>1, <1>2
<1>6. PICK l \in DOMAIN O : Shadows(c, E[Len(E)], O[l])
  <2>1. \A k \in DOMAIN E : \E l \in DOMAIN O : Shadows(c, E[k], O[l])
    BY <1>1, <1>2, <1>3, <1>5, RunsShadow DEF s
  <2> QED
    BY <1>5, <2>1
<1>7. O[l].seen = E[Len(E)].seen /\ O[l].status = E[Len(E)].status
  BY <1>6 DEF Shadows, Twins
<1>8. GrowsInto(O[l].seen, O[Len(O)].seen)
  BY <1>2, <1>5, <1>6, SeenGrows
<1>9. E[Len(E)].status # "running" => l = Len(O)
  <2>1. l \in 1 .. Len(O) /\ (l + 1 \in DOMAIN O => O[l].status = "running")
    BY <1>2, <1>6 DEF IsExecution, IsRun
  <2>2. l # Len(O) => l + 1 \in DOMAIN O
    BY <1>2, <2>1
  <2> QED
    BY <1>7, <2>1, <2>2
<1> QED
  BY <1>4, <1>7, <1>8, <1>9 DEF s

-----------------------------------------------------------------------------
(* Compaction.  No two registers are given one slot, and a pinned register   *)
(* keeps its own.                                                            *)
CompactInv(others, pinned, s) ==
  /\ s.left \subseteq others /\ DOMAIN s.slot = pinned \cup (others \ s.left)
  /\ s.fresh \in Nat /\ \A r \in pinned : s.slot[r] = r
  /\ \A r \in others \ s.left : s.slot[r] \in Nat /\ s.slot[r] < s.fresh /\ s.slot[r] \notin pinned
  /\ \A q, r \in others \ s.left : s.slot[q] = s.slot[r] => q = r

LEMMA CompactOneKeeps ==
  ASSUME NEW others, others \subseteq Nat, NEW pinned, IsFiniteSet(pinned), \A r \in others : r \notin pinned,
         NEW s, CompactInv(others, pinned, s), s.left # {}
  PROVE  CompactInv(others, pinned, CompactOne(s, pinned))
<1> DEFINE r == MinOf(s.left)
           v == NextFree(s.fresh, pinned)
           t == CompactOne(s, pinned)
<1>1. /\ s.left \subseteq others /\ DOMAIN s.slot = pinned \cup (others \ s.left)
      /\ s.fresh \in Nat /\ \A q \in pinned : s.slot[q] = q
      /\ \A q \in others \ s.left : s.slot[q] \in Nat /\ s.slot[q] < s.fresh /\ s.slot[q] \notin pinned
      /\ \A p, q \in others \ s.left : s.slot[p] = s.slot[q] => p = q
  BY DEF CompactInv
<1>2. r \in s.left
  <2>1. s.left \subseteq Nat
    BY <1>1
  <2> QED
    BY <2>1, MinOfIs
<1>3. v \in Nat /\ s.fresh <= v /\ v \notin pinned
  BY <1>1, NextFreeIs
<1>4. t = [slot |-> SlotGiven(s.slot, r, v), fresh |-> v + 1, left |-> s.left \ {r}]
  BY DEF CompactOne
<1> HIDE DEF r, v, t
<1>5. /\ t.slot = [q \in DOMAIN s.slot \cup {r} |-> IF q = r THEN v ELSE s.slot[q]]
      /\ t.fresh = v + 1 /\ t.left = s.left \ {r}
  BY <1>4 DEF SlotGiven
<1>6. r \in others /\ r \notin pinned /\ r \notin DOMAIN s.slot
  BY <1>1, <1>2
<1>7. others \ t.left = (others \ s.left) \cup {r} /\ t.left \subseteq others
  BY <1>1, <1>2, <1>5
<1>8. DOMAIN t.slot = pinned \cup (others \ t.left)
  BY <1>1, <1>5, <1>7
<1>9. t.slot[r] = v /\ \A q \in DOMAIN s.slot : t.slot[q] = s.slot[q]
  BY <1>5, <1>6
<1>10. \A q \in pinned : t.slot[q] = q
  BY <1>1, <1>9
<1>11. \A q \in others \ s.left : t.slot[q] = s.slot[q] /\ t.slot[q] \in Nat /\ t.slot[q] < v /\ t.slot[q] \notin pinned
  <2> SUFFICES ASSUME NEW q \in others \ s.left
               PROVE  t.slot[q] = s.slot[q] /\ t.slot[q] \in Nat /\ t.slot[q] < v /\ t.slot[q] \notin pinned
    OBVIOUS
  <2>1. s.slot[q] \in Nat /\ s.slot[q] < s.fresh /\ s.slot[q] \notin pinned /\ t.slot[q] = s.slot[q]
    BY <1>1, <1>9
  <2> QED
    BY <1>1, <1>3, <2>1
<1>12. \A q \in others \ t.left : t.slot[q] \in Nat /\ t.slot[q] < v + 1 /\ t.slot[q] \notin pinned
  <2> SUFFICES ASSUME NEW q \in others \ t.left
               PROVE  t.slot[q] \in Nat /\ t.slot[q] < v + 1 /\ t.slot[q] \notin pinned
    OBVIOUS
  <2>1. CASE q = r
    BY <1>3, <1>9, <2>1
  <2>2. CASE q # r
    <3>1. t.slot[q] \in Nat /\ t.slot[q] < v /\ t.slot[q] \notin pinned
      BY <1>7, <1>11, <2>2
    <3> QED
      BY <1>3, <3>1
  <2> QED
    BY <2>1, <2>2
<1>13. ASSUME NEW p \in others \ t.left, NEW q \in others \ t.left, t.slot[p] = t.slot[q] PROVE p = q
  <2>1. \A x \in others \ s.left : t.slot[x] # v
    BY <1>3, <1>11
  <2>2. (p \in others \ s.left \/ p = r) /\ (q \in others \ s.left \/ q = r)
    BY <1>7
  <2>3. CASE p \in others \ s.left /\ q \in others \ s.left
    BY <1>1, <1>11, <1>13, <2>3
  <2>4. CASE p = r \/ q = r
    BY <1>9, <1>13, <2>1, <2>2, <2>4
  <2> QED
    BY <2>2, <2>3, <2>4
<1>14. t.fresh \in Nat
  BY <1>3, <1>5
<1>15. CompactInv(others, pinned, t)
  <2>1. \A q \in others \ t.left : t.slot[q] \in Nat /\ t.slot[q] < t.fresh /\ t.slot[q] \notin pinned
    BY <1>5, <1>12
  <2>2. t.left \subseteq others
    BY <1>7
  <2> QED
    BY <1>8, <1>10, <1>13, <1>14, <2>1, <2>2 DEF CompactInv
<1> QED
  BY <1>15 DEF t

LEMMA CompactOneTakes ==
  ASSUME NEW others, others \subseteq Nat, NEW pinned,
         NEW s, CompactInv(others, pinned, s), s.left # {}
  PROVE  /\ MinOf(s.left) \in s.left
         /\ CompactOne(s, pinned).left = s.left \ {MinOf(s.left)}
<1>1. s.left \subseteq Nat
  BY DEF CompactInv
<1>2. MinOf(s.left) \in s.left
  BY <1>1, MinOfIs
<1>3. CompactOne(s, pinned).left = s.left \ {MinOf(s.left)}
  BY DEF CompactOne
<1> QED
  BY <1>2, <1>3

CompactStart(others, pinned) == [slot |-> [r \in pinned |-> r], fresh |-> 0, left |-> others]

Compacts(g, others, pinned, n) ==
  g = [k \in 0 .. n |-> IF k = 0 THEN CompactStart(others, pinned) ELSE CompactOne(g[k - 1], pinned)]

LEMMA CompactsExist ==
  ASSUME NEW others, NEW pinned
  PROVE  \A n \in Nat : \E g : Compacts(g, others, pinned, n)
<1> DEFINE first == CompactStart(others, pinned)
           onward(s) == CompactOne(s, pinned)
           S == {n \in Nat : \E g : Compacts(g, others, pinned, n)}
<1>1. \A n, g : Compacts(g, others, pinned, n) <=> g = [k \in 0 .. n |-> IF k = 0 THEN first ELSE onward(g[k - 1])]
  BY DEF Compacts
<1> HIDE DEF onward, first
<1>2. 0 \in S
  <2> DEFINE g == [k \in 0 .. 0 |-> first]
  <2>1. g = [k \in 0 .. 0 |-> IF k = 0 THEN first ELSE onward(g[k - 1])]
    OBVIOUS
  <2>2. Compacts(g, others, pinned, 0)
    BY <1>1, <2>1
  <2> QED
    BY <2>2
<1>3. ASSUME NEW n \in Nat, n \in S PROVE n + 1 \in S
  <2>1. PICK g : Compacts(g, others, pinned, n)
    BY <1>3
  <2> DEFINE h == [k \in 0 .. n + 1 |-> IF k = n + 1 THEN onward(g[k - 1]) ELSE g[k]]
  <2>2. \A k \in 0 .. n : g[k] = IF k = 0 THEN first ELSE onward(g[k - 1])
    BY <1>1, <2>1
  <2>3. ASSUME NEW k \in 0 .. n + 1 PROVE h[k] = IF k = 0 THEN first ELSE onward(h[k - 1])
    <3>1. CASE k = n + 1
      <4>1. k - 1 \in 0 .. n + 1 /\ k - 1 # n + 1 /\ k # 0
        BY <3>1
      <4> QED
        BY <3>1, <4>1
    <3>2. CASE k # n + 1
      <4>1. h[k] = g[k] /\ k \in 0 .. n
        BY <3>2
      <4>2. k # 0 => k - 1 \in 0 .. n + 1 /\ k - 1 # n + 1
        BY <3>2
      <4> QED
        BY <2>2, <4>1, <4>2
    <3> QED
      BY <3>1, <3>2
  <2>4. h = [k \in 0 .. n + 1 |-> IF k = 0 THEN first ELSE onward(h[k - 1])]
    BY <2>3
  <2>5. Compacts(h, others, pinned, n + 1)
    BY <1>1, <2>4
  <2> QED
    BY <2>5
<1>4. \A n \in Nat : n \in S
  BY <1>2, <1>3, Induction
<1> QED
  BY <1>4

LEMMA CompactSlotsAre ==
  ASSUME NEW others, others \subseteq Nat, IsFiniteSet(others),
         NEW pinned, IsFiniteSet(pinned), \A r \in others : r \notin pinned
  PROVE  LET slot == CompactSlots(others, pinned)
         IN /\ DOMAIN slot = pinned \cup others /\ \A r \in pinned : slot[r] = r
            /\ \A r \in others : slot[r] \in Nat /\ slot[r] \notin pinned
            /\ \A q, r \in others : slot[q] = slot[r] => q = r
<1> DEFINE n == Cardinality(others)
           g == CHOOSE x : Compacts(x, others, pinned, n)
<1>1. n \in Nat
  BY FS_CardinalityType
<1>2. CompactSlots(others, pinned) = g[n].slot
  BY DEF CompactSlots, Compacts, CompactStart
<1>3. Compacts(g, others, pinned, n)
  BY <1>1, CompactsExist
<1> HIDE DEF g
<1> DEFINE S == {k \in Nat : k <= n =>
                   CompactInv(others, pinned, g[k]) /\ Cardinality(g[k].left) = n - k}
<1>4. \A k \in 0 .. n : g[k] = IF k = 0 THEN CompactStart(others, pinned) ELSE CompactOne(g[k - 1], pinned)
  BY <1>3 DEF Compacts
<1>5. 0 \in S
  <2>1. g[0] = CompactStart(others, pinned)
    BY <1>1, <1>4
  <2>2. g[0].slot = [r \in pinned |-> r] /\ g[0].fresh = 0 /\ g[0].left = others
    BY <2>1 DEF CompactStart
  <2>3. CompactInv(others, pinned, g[0])
    BY <2>2 DEF CompactInv
  <2>4. Cardinality(g[0].left) = n - 0
    BY <1>1, <2>2
  <2> QED
    BY <2>3, <2>4
<1> HIDE DEF n
<1>6. ASSUME NEW k \in Nat, k \in S PROVE k + 1 \in S
  <2>1. SUFFICES ASSUME k + 1 <= n
                 PROVE  CompactInv(others, pinned, g[k + 1]) /\ Cardinality(g[k + 1].left) = n - (k + 1)
    OBVIOUS
  <2>2. /\ k + 1 \in 0 .. n /\ k + 1 # 0 /\ k + 1 - 1 = k
        /\ CompactInv(others, pinned, g[k]) /\ Cardinality(g[k].left) = n - k
    BY <1>1, <1>6, <2>1
  <2>3. g[k + 1] = CompactOne(g[k], pinned)
    BY <1>4, <2>2
  <2>4. IsFiniteSet(g[k].left)
    BY <2>2, FS_Subset DEF CompactInv
  <2>5. g[k].left # {}
    <3>1. n - k # 0
      BY <1>1, <2>1
    <3> QED
      BY <2>2, <3>1, FS_EmptySet
  <2>6. /\ CompactInv(others, pinned, g[k + 1])
        /\ \E r \in g[k].left : g[k + 1].left = g[k].left \ {r}
    <3> DEFINE s == g[k]
    <3>1. CompactInv(others, pinned, s) /\ s.left # {}
      BY <2>2, <2>5
    <3> HIDE DEF s
    <3>2. CompactInv(others, pinned, CompactOne(s, pinned))
      BY <3>1, CompactOneKeeps
    <3>3. /\ MinOf(s.left) \in s.left
          /\ CompactOne(s, pinned).left = s.left \ {MinOf(s.left)}
      BY <3>1, CompactOneTakes
    <3> QED
      BY <2>3, <3>2, <3>3 DEF s
  <2>7. Cardinality(g[k + 1].left) = Cardinality(g[k].left) - 1
    BY <2>4, <2>6, FS_RemoveElement, ZenonT(60)
  <2>8. Cardinality(g[k + 1].left) = n - (k + 1)
    BY <1>1, <2>2, <2>7
  <2> QED
    BY <2>6, <2>8
<1>7. \A k \in Nat : k \in S
  BY <1>5, <1>6, Induction
<1>8. CompactInv(others, pinned, g[n]) /\ Cardinality(g[n].left) = n - n
  BY <1>1, <1>7
<1>9. g[n].left = {}
  <2>1. IsFiniteSet(g[n].left)
    BY <1>8, FS_Subset DEF CompactInv
  <2>2. Cardinality(g[n].left) = 0
    BY <1>1, <1>8
  <2> QED
    BY <2>1, <2>2, FS_EmptySet
<1> QED
  BY <1>2, <1>8, <1>9 DEF CompactInv

-----------------------------------------------------------------------------
(* Compaction is a renaming too, and no two of its slots are one: whatever   *)
(* is read is kept.                                                          *)
CompactOf(c) == CompactSlots(RegistersOf(c.code) \ Pinned(c), Pinned(c))

LEMMA CompactionRenames ==
  ASSUME NEW c, Allocatable(c), RegistersOf(c.code) # {}
  PROVE  /\ IsRenaming(c, CompactOf(c), CompactRegs(c))
         /\ Alone(CompactOf(c)) = RegistersOf(c.code) \cup 0 .. c.params - 1
<1> DEFINE pinned == Pinned(c)
           others == RegistersOf(c.code) \ pinned
           regs == RegistersOf(c.code) \cup 0 .. c.params - 1
           slot == CompactOf(c)
<1>1. DOMAIN Intervals(c) = regs /\ IsFiniteSet(regs) /\ regs \subseteq Nat
  <2>1. DOMAIN Intervals(c) = regs /\ IsFiniteSet(regs)
    BY IntervalsCover DEF Covers, AreIntervals
  <2>2. c.regs - 1 \in Int /\ c.params - 1 \in Int /\ RegistersOf(c.code) \subseteq 0 .. c.regs - 1
    BY DEF Allocatable, IsChunk
  <2>3. regs \subseteq Nat
    BY <2>2
  <2> QED
    BY <2>1, <2>3
<1>2. pinned \subseteq regs /\ pinned \cup others = regs
  <2>1. pinned \subseteq regs
    BY DEF Pinned, RegistersOf, InstructionRegisters
  <2>2. 0 .. c.params - 1 \subseteq pinned
    BY DEF Pinned
  <2> QED
    BY <2>1, <2>2
<1>3. IsFiniteSet(pinned) /\ IsFiniteSet(others) /\ others \subseteq Nat /\ pinned \subseteq Nat
  BY <1>1, <1>2, FS_Subset
<1>4. \A r \in others : r \notin pinned
  OBVIOUS
<1> HIDE DEF pinned, others
<1>5. /\ DOMAIN CompactSlots(others, pinned) = pinned \cup others
      /\ \A r \in pinned : CompactSlots(others, pinned)[r] = r
      /\ \A r \in others : /\ CompactSlots(others, pinned)[r] \in Nat
                           /\ CompactSlots(others, pinned)[r] \notin pinned
      /\ \A q, r \in others :
           CompactSlots(others, pinned)[q] = CompactSlots(others, pinned)[r] => q = r
  BY <1>3, <1>4, CompactSlotsAre
<1>6. slot = CompactSlots(others, pinned)
  BY DEF CompactOf, others, pinned
<1> HIDE DEF slot
<1>7. /\ DOMAIN slot = regs /\ \A r \in pinned : slot[r] = r
      /\ \A r \in others : slot[r] \in Nat /\ slot[r] \notin pinned
      /\ \A q, r \in others : slot[q] = slot[r] => q = r
  BY <1>2, <1>5, <1>6
<1> HIDE DEF regs
<1>8. \A q, r \in regs : slot[q] = slot[r] => q = r
  BY <1>2, <1>4, <1>7
<1>9. \A r \in regs : slot[r] \in Nat /\ (r \in pinned => slot[r] = r) /\ (slot[r] \in pinned => r \in pinned)
  BY <1>2, <1>3, <1>7
<1>10. IsAllocation(slot, Intervals(c), pinned)
  BY <1>1, <1>7, <1>8, <1>9 DEF IsAllocation
<1>11. DOMAIN slot # {}
  BY <1>7 DEF regs
<1>12. CompactRegs(c) = [c EXCEPT !.code = Renamed(c.code, slot), !.regs = FrameSize(slot)]
  BY DEF CompactRegs, slot, CompactOf
<1>13. Alone(slot) = regs
  BY <1>7, <1>8 DEF Alone
<1> QED
  BY <1>10, <1>11, <1>12, <1>13 DEF IsRenaming, pinned, slot, regs

LEMMA OrderlyIsCovered ==
  ASSUME NEW c, Allocatable(c), RegistersOf(c.code) # {}, NEW input, StaysOrderly(c, input)
  PROVE  StaysCovered(c, CompactOf(c), input)
<1> DEFINE slot == CompactOf(c)
<1> SUFFICES ASSUME NEW states, IsExecution(c, input, states),
                    NEW k \in DOMAIN states, Executes(c.code, states[k])
             PROVE  Fits(c, Kept(c, slot, states, k), states[k])
  BY DEF StaysCovered
<1> DEFINE m == states[k]
           i == c.code[m.pc]
           K == Kept(c, slot, states, k)
<1>1. Orderly(c, m)
  BY DEF StaysOrderly
<1>2. Blocks(c.code) \subseteq Pinned(c)
  BY BlocksAreUsed
<1>3. RegistersOf(c.code) \subseteq K /\ Pinned(c) \subseteq K
  BY CompactionRenames DEF Kept
<1>4. m.pc \in DOMAIN c.code
  BY DEF Executes
<1>5. InstrUses(i) \subseteq K
  BY <1>3, <1>4 DEF RegistersOf, InstructionRegisters
<1>6. i.op \in ZeroJumps => i.d \in K
  <2>1. i.d \in RegistersOf(c.code) \cup {0}
    BY <1>4 DEF Allocatable
  <2> QED
    BY <1>1, <1>3, <2>1 DEF Orderly
<1>7. ReadBy(i) \subseteq K
  BY <1>5, <1>6 DEF ReadBy
<1> HIDE DEF K
<1> QED
  BY <1>1, <1>2, <1>7 DEF Orderly, Fits, K

LEMMA AgreeWithMore ==
  ASSUME NEW a, NEW b, NEW z, Agree(a, b), Len(a.seen) \in 0 .. Len(b.seen),
         GrowsInto(b.seen, z.seen), b.status # "running" => z = b
  PROVE  Agree(a, z)
<1>1. PICK S : b.seen \in Seq(S) /\ z.seen \in Seq(S)
  BY DEF GrowsInto
<1>2. /\ Len(b.seen) \in Nat /\ Len(z.seen) \in Nat /\ Len(a.seen) \in Nat
      /\ Len(b.seen) <= Len(z.seen) /\ \A k \in 1 .. Len(b.seen) : z.seen[k] = b.seen[k]
  BY <1>1, LenProperties DEF GrowsInto
<1>3. SubSeq(b.seen, 1, Len(a.seen)) = a.seen
  BY <1>2 DEF Agree
<1>4. SubSeq(z.seen, 1, Len(a.seen)) = SubSeq(b.seen, 1, Len(a.seen))
  <2> DEFINE n == Len(a.seen)
  <2>1. n \in Nat /\ n <= Len(b.seen) /\ n <= Len(z.seen)
    BY <1>2
  <2> HIDE DEF n
  <2>2. SubSeq(z.seen, 1, n) = [k \in 1 .. n |-> z.seen[k]]
    BY <1>1, <1>2, <2>1
  <2>3. SubSeq(b.seen, 1, n) = [k \in 1 .. n |-> b.seen[k]]
    BY <1>1, <1>2, <2>1
  <2>4. \A k \in 1 .. n : z.seen[k] = b.seen[k]
    BY <1>2, <2>1
  <2> QED
    BY <2>2, <2>3, <2>4 DEF n
<1>5. a.status # "running" => z = a
  BY DEF Agree
<1>6. Len(z.seen) <= Len(a.seen) => SubSeq(a.seen, 1, Len(z.seen)) = z.seen
  <2>1. SUFFICES ASSUME Len(z.seen) <= Len(a.seen) PROVE SubSeq(a.seen, 1, Len(z.seen)) = z.seen
    OBVIOUS
  <2>2. Len(z.seen) = Len(a.seen)
    BY <1>2, <2>1
  <2>3. z.seen = a.seen
    <3>1. SubSeq(z.seen, 1, Len(z.seen)) = z.seen
      BY <1>1, <1>2
    <3> QED
      BY <1>3, <1>4, <2>2, <3>1
  <2> QED
    BY <1>1, <1>2, <2>3
<1> QED
  BY <1>3, <1>4, <1>5, <1>6 DEF Agree

(* The elimination of dead registers, rounds of it and the compaction after  *)
(* them, changes no outcome.  The executions of the stripped chunk keep to   *)
(* what the pass takes for granted, no division it takes away faults, and    *)
(* twice the steps bring an unfinished execution at least as far as it was.  *)
THEOREM EliminationPreservesBehaviour ==
  ASSUME PassesPreserveBehaviour, EliminateDead, Strippable(chunk),
         \A input \in Inputs :
           /\ StaysOrderly(Stripped(chunk), input) /\ RemovesNoFault(chunk, input)
           /\ Len(expected[input].seen) \in 0 .. Len(Outcome(chunk, input, 2 * Fuel).seen)
  PROVE  PassesPreserveBehaviour'
<1> DEFINE s == Stripped(chunk)
           z == CompactRegs(s)
<1>1. phase = "folded" /\ phase' = "eliminated" /\ chunk' = z /\ UNCHANGED expected
  BY DEF EliminateDead, Pass, ElimDeadRegs, Stripped
<1>2. \A input \in Inputs : Agree(expected[input], Outcome(chunk, input, 2 * Fuel))
  BY <1>1 DEF PassesPreserveBehaviour, Passes
<1>3. 2 * Fuel \in Nat
  BY FuelAssumption
<1>4. /\ Allocatable(s) /\ RegistersOf(s.code) # {}
      /\ \A k \in DOMAIN s.code :
           s.code[k].op \in Jumps => s.code[k].imm \in 1 .. Len(s.code) + 1
  BY StrippedIsAllocatable
<1>5. IsRenaming(s, CompactOf(s), z)
  BY <1>4, CompactionRenames
<1> HIDE DEF z, s
<1>6. ASSUME NEW input \in Inputs PROVE Agree(expected[input], Outcome(z, input, 2 * Fuel))
  <2>1. StaysOrderly(s, input) /\ RemovesNoFault(chunk, input)
    BY DEF s
  <2>2. StaysCovered(s, CompactOf(s), input)
    BY <1>4, <2>1, OrderlyIsCovered
  <2>3. Outcome(z, input, 2 * Fuel) = Outcome(s, input, 2 * Fuel)
    BY <1>3, <1>4, <1>5, <2>2, RenamedOutcome
  <2>4. /\ GrowsInto(Outcome(chunk, input, 2 * Fuel).seen, Outcome(s, input, 2 * Fuel).seen)
        /\ Outcome(chunk, input, 2 * Fuel).status # "running" =>
             Outcome(s, input, 2 * Fuel) = Outcome(chunk, input, 2 * Fuel)
    BY <1>3, <2>1, StrippedOutcome DEF s
  <2> QED
    BY <1>2, <2>3, <2>4, AgreeWithMore
<1>7. /\ z.params <= z.regs
      /\ RegistersOf(z.code) \subseteq 0 .. z.regs - 1
      /\ DOMAIN z.code = DOMAIN s.code /\ Len(z.code) = Len(s.code)
      /\ \A k \in DOMAIN s.code : z.code[k].op = s.code[k].op /\ z.code[k].imm = s.code[k].imm
  BY <1>4, <1>5, RenamedIsValid
<1>8. \A k \in DOMAIN s.code : s.code[k].op \in Ops
  <2>1. s.code \in Seq([op : Ops, d : Nat, x : Nat, y : Nat, imm : Nat, n : Nat])
    BY <1>4 DEF Allocatable, IsCode
  <2>2. DOMAIN s.code = 1 .. Len(s.code)
    BY <2>1
  <2>3. \A k \in DOMAIN s.code : s.code[k] \in [op : Ops, d : Nat, x : Nat, y : Nat, imm : Nat, n : Nat]
    BY <2>1, <2>2, ElementOfSeq
  <2> QED
    BY <2>3
<1>9. ChunkIsValid'
  BY <1>1, <1>4, <1>7, <1>8 DEF ChunkIsValid
<1> QED
  BY <1>1, <1>6, <1>9 DEF PassesPreserveBehaviour
=============================================================================
