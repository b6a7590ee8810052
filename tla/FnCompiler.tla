----------------------------- MODULE FnCompiler -----------------------------
(* One function on its way through the code generator: its statements are    *)
(* compiled in order (FnCompiler in src/bytecode/codegen.rs), and the chunk  *)
(* then passes through inlining, constant propagation, dead-register         *)
(* elimination and register allocation, as compile_program orders them.      *)
(*                                                                           *)
(* A program is a sequence of statements; blocks are bracketed by "if",      *)
(* "else", "for", "range" and "end".  An operand is <<"lit", n>> or          *)
(* <<"var", v>>; variables are numbered, the parameters first.               *)
EXTENDS ConstProp, RegAlloc, ProgramMeaning, TLC

CONSTANTS Programs,   \* the functions compiled: [params, body]
          Inputs,     \* what they are run with: [args, answers]
          Fuel        \* instructions after which an execution is given up

ASSUME FuelAssumption == Fuel \in Nat

VARIABLES program,    \* the function being compiled
          next,       \* the next of its statements
          fc,         \* the compiler: code, bound registers, open blocks
          chunk,      \* the finished chunk
          expected,   \* the outcomes of the chunk before any pass
          phase       \* "compile", then the last pass that ran

vars == <<program, next, fc, chunk, expected, phase>>

-----------------------------------------------------------------------------
Emit(c, i) == [c EXCEPT !.code = Append(@, i)]
PatchJump(c, at, target) == [c EXCEPT !.code[at].imm = target]
Here(c) == Len(c.code) + 1

(* A compiler state whose last expression is in register r.                  *)
Result(c, r) == [c EXCEPT !.result = r]
AllocReg(c) == [c EXCEPT !.result = c.next, !.next = @ + 1]
Bind(c, v) == [AllocReg(c) EXCEPT !.reg = (v :> c.next) @@ @]
EmitNew(c, i) == Emit(AllocReg(c), [i EXCEPT !.d = c.next])

(* A literal takes a register of its own, a variable is its register.        *)
Operand(c, a) ==
  IF a[1] = "lit" THEN EmitNew(c, Ri16("MovI", 0, a[2])) ELSE Result(c, c.reg[a[2]])

(* Both operands, left then right, and what to do with their registers.      *)
With2(c, a, b, do(_, _, _)) ==
  LET left == Operand(c, a)
      right == Operand(left, b)
  IN do(right, left.result, right.result)

EmitArgs(c, regs) ==
  [c EXCEPT !.code = @ \o [k \in DOMAIN regs |-> Rrr("Arg", regs[k], 0, 0)]]

(* The callee's result goes to a register allocated after its arguments.     *)
EmitCall(c, f, regs) ==
  LET dst == AllocReg(c)
  IN Emit(EmitArgs(dst, regs), Ri16("Call", dst.result, f))

(* Integer division panics on zero before it divides.                        *)
EmitDivision(c, x, y) ==
  LET guarded == Emit(Emit(AllocReg(c), Ri16("Jnz", y, 0)), Rrr("Trap", 0, 0, 0))
  IN Emit(PatchJump(guarded, Here(c), Here(guarded)), Rrr("Div", c.next, x, y))

(* dst = 1, skipped over dst = 0 if the jump is taken.                       *)
EmitFlag(c, jump) ==
  LET one == EmitNew(c, Ri16("MovI", 0, 1))
      zero == Emit(Emit(one, jump), Ri16("MovI", one.result, 0))
  IN PatchJump(zero, Here(one), Here(zero))

(* A call in the source: the register allocated before the arguments stays   *)
(* unused.                                                                   *)
EmitUserCall(c, e) ==
  With2(AllocReg(c), e[3], e[4], LAMBDA s, x, y : EmitCall(s, e[2], <<x, y>>))

EmitAnd(c, a, b) ==
  LET left == Operand(c, a)
      dst == AllocReg(left)
      tested == Emit(dst, Ri16("Jz", left.result, 0))
      right == IF b[1] = "call" THEN EmitUserCall(tested, b) ELSE Operand(tested, b)
      moved == Emit(Emit(right, Rrr("Mov", dst.result, right.result, 0)), Ri16("Jmp", 0, 0))
      false == Emit(PatchJump(moved, Here(dst), Here(moved)), Ri16("MovI", dst.result, 0))
  IN Result(PatchJump(false, Here(moved) - 1, Here(false)), dst.result)

(* A reference to a variable is the address of its slot.                     *)
EmitRef(c, v) == EmitNew(c, LeaBlock(0, c.reg[v], 1))

(* The variable arguments of a call are copied to slots of their own.        *)
EmitSpread(c, a, b) ==
  With2(AllocReg(c), a, b, LAMBDA e, x, y :
    LET slots == Emit(Emit([e EXCEPT !.next = @ + 2], Rrr("Mov", e.next, x, 0)),
                      Rrr("Mov", e.next + 1, y, 0))
        address == EmitNew(slots, LeaBlock(0, e.next, 2))
        length == EmitNew(address, Ri16("MovI", 0, 2))
    IN EmitCall(length, Spread, <<address.result, length.result>>))

CompileExpr(c, e) ==
  CASE e[1] \in {"lit", "var"} -> Operand(c, e)
    [] e[1] = "add" -> With2(c, e[2], e[3], LAMBDA s, x, y : EmitNew(s, Rrr("Add", 0, x, y)))
    [] e[1] = "div" -> With2(c, e[2], e[3], EmitDivision)
    [] e[1] = "less" -> With2(c, e[2], e[3], LAMBDA s, x, y :
                          EmitFlag(Emit(s, Rrr("Cmp", 0, x, y)), Ri16("Jl", 0, 0)))
    [] e[1] = "not" -> LET s == Operand(c, e[2]) IN EmitFlag(s, Ri16("Jz", s.result, 0))
    [] e[1] = "and" -> EmitAnd(c, e[2], e[3])
    [] e[1] = "call" -> EmitUserCall(c, e)
    [] e[1] = "ref" -> LET s == EmitRef(AllocReg(c), e[3]) IN EmitCall(s, e[2], <<s.result>>)
    [] e[1] = "spread" -> EmitSpread(c, e[2], e[3])

(* Jump if the condition is false; the jump is the last instruction.         *)
CompileConditionJump(c, e) ==
  CASE e[1] = "less" -> With2(c, e[2], e[3], LAMBDA s, x, y :
                          Emit(Emit(s, Rrr("Cmp", 0, x, y)), Ri16("Jge", 0, 0)))
    [] e[1] = "equal" -> With2(c, e[2], e[3], LAMBDA s, x, y :
                           Emit(Emit(s, Rrr("Cmp", 0, x, y)), Ri16("Jne", 0, 0)))
    [] OTHER -> LET s == CompileExpr(c, e) IN Emit(s, Ri16("Jz", s.result, 0))

MoveTo(c, r) == IF c.result = r THEN c ELSE Emit(c, Rrr("Mov", r, c.result, 0))

-----------------------------------------------------------------------------
(* Open blocks, innermost last: the jump that leaves it when its condition   *)
(* is false, where a loop begins, and the jumps of its breaks and continues. *)
OpenBlock(c, kind, exit, top, v) ==
  [c EXCEPT !.open = Append(@, [kind |-> kind, exit |-> exit, top |-> top, var |-> v,
                                breaks |-> {}, continues |-> {}])]

Innermost(c) == c.open[Len(c.open)]
CloseBlock(c) == [c EXCEPT !.open = SubSeq(@, 1, Len(@) - 1)]
Loops == {"for", "range"}
LoopOf(c) == MaxOf({k \in DOMAIN c.open : c.open[k].kind \in Loops})

PatchAll(c, jumps, target) ==
  [c EXCEPT !.code = [i \in DOMAIN @ |-> IF i \in jumps THEN [@[i] EXCEPT !.imm = target]
                                                         ELSE @[i]]]

Statement == program.body[next]
Compiling(kind) ==
  /\ phase = "compile"
  /\ next <= Len(program.body)
  /\ Statement[1] = kind

Compiled(c) ==
  /\ fc' = c
  /\ next' = next + 1
  /\ UNCHANGED <<program, chunk, expected, phase>>

(* A variable is a register of its own, even when it copies another.         *)
CompileVar ==
  /\ Compiling("let")
  /\ LET value == CompileExpr(fc, Statement[3])
         bound == Bind(value, Statement[2])
     IN Compiled(Emit(bound, Rrr("Mov", bound.result, value.result, 0)))

CompileAssign ==
  /\ Compiling("set")
  /\ Compiled(MoveTo(CompileExpr(fc, Statement[3]), fc.reg[Statement[2]]))

(* v++ copies the old value first, though nobody uses it.                    *)
CompileIncDec ==
  /\ Compiling("bump")
  /\ LET r == fc.reg[Statement[2]]
     IN Compiled(Emit(EmitNew(fc, Rrr("Mov", 0, r, 0)), Rrr("Inc", r, r, 0)))

CompileExprStmt ==
  /\ Compiling("do")
  /\ Compiled(CompileExpr(fc, Statement[2]))

CompileIf ==
  /\ Compiling("if")
  /\ LET c == CompileConditionJump(fc, Statement[2])
     IN Compiled(OpenBlock(c, "if", Len(c.code), 0, 0))

(* The end of the first block jumps over the second.                         *)
CompileElse ==
  /\ Compiling("else")
  /\ LET c == Emit(fc, Ri16("Jmp", 0, 0))
         skipped == PatchJump(c, Innermost(fc).exit, Here(c))
     IN Compiled(OpenBlock(CloseBlock(skipped), "else", Len(c.code), 0, 0))

CompileLoop ==
  /\ Compiling("for")
  /\ LET c == CompileConditionJump(fc, Statement[2])
     IN Compiled(OpenBlock(c, "for", Len(c.code), Here(fc), 0))

CompileRange ==
  /\ Compiling("range")
  /\ LET bound == Bind(fc, Statement[2])
         first == MoveTo(Operand(bound, Statement[3]), bound.result)
         last == Operand(first, Statement[4])
         test == Emit(Emit(last, Rrr("Cmp", 0, bound.result, last.result)), Ri16("Jge", 0, 0))
     IN Compiled(OpenBlock(test, "range", Len(test.code), Here(last), bound.result))

(* Without an else, the first block still ends in a jump.                    *)
EndIf(c) ==
  LET end == Emit(c, Ri16("Jmp", 0, Here(c) + 1))
  IN PatchJump(end, Innermost(c).exit, Here(end))

\* Mutant: the range does not count on.
ContinueAtTop(c) == Innermost(c).top

(* A range counts on before it tests again.                                  *)
ContinueTarget(c) ==
  IF Innermost(c).kind = "range" THEN Here(c) ELSE Innermost(c).top

EndLoop(c) ==
  LET loop == Innermost(c)
      continued == PatchAll(c, loop.continues, ContinueTarget(c))
      stepped == IF loop.kind = "range" THEN Emit(continued, Rrr("Inc", loop.var, loop.var, 0))
                                        ELSE continued
      back == Emit(stepped, Ri16("Jmp", 0, loop.top))
  IN PatchAll(back, loop.breaks \cup {loop.exit}, Here(back))

CompileEnd ==
  /\ Compiling("end")
  /\ LET kind == Innermost(fc).kind
     IN Compiled(CloseBlock(
          CASE kind = "if" -> EndIf(fc)
            [] kind = "else" -> PatchJump(fc, Innermost(fc).exit, Here(fc))
            [] kind \in Loops -> EndLoop(fc)))

CompileBreak ==
  /\ Compiling("break")
  /\ Compiled(Emit([fc EXCEPT !.open[LoopOf(fc)].breaks = @ \cup {Here(fc)}], Ri16("Jmp", 0, 0)))

CompileContinue ==
  /\ Compiling("continue")
  /\ Compiled(Emit([fc EXCEPT !.open[LoopOf(fc)].continues = @ \cup {Here(fc)}], Ri16("Jmp", 0, 0)))

CompileReturn ==
  /\ Compiling("return")
  /\ Compiled(Emit(MoveTo(CompileExpr(fc, Statement[2]), 0), Rrr("Ret", 0, 0, 0)))

-----------------------------------------------------------------------------
Returning(c) == c.code # <<>> /\ c.code[Len(c.code)].op = "Ret"

(* A function that may fall off its end returns 0.                           *)
FinishFunction ==
  /\ phase = "compile"
  /\ next > Len(program.body)
  /\ LET code == IF Returning(fc) THEN fc.code
                 ELSE fc.code \o <<Ri16("MovI", 0, 0), Rrr("Ret", 0, 0, 0)>>
     IN /\ chunk' = [code |-> code, params |-> program.params, regs |-> fc.next]
        /\ expected' = [input \in Inputs |-> Outcome(chunk', input, Fuel)]
  /\ phase' = "emitted"
  /\ UNCHANGED <<program, next, fc>>

(* The chunk of the small function: its arguments are r0 and r1.             *)
SmallBody == <<Rrr("Add", 2, 0, 1), Rrr("Mov", 0, 2, 0)>>
SmallParams == 2
SmallRegs == 3

(* A call is replaced together with the arguments right before it; jumps     *)
(* behind it move with the instructions they lead to.                        *)
Inlinable(code, i) ==
  /\ code[i].op = "Call" /\ code[i].imm = Small
  /\ i > SmallParams
  /\ \A k \in i - SmallParams .. i - 1 : code[k].op = "Arg"

InlineAt(c, i) ==
  LET first == i - SmallParams
      copies == [k \in 1 .. SmallParams |-> Rrr("Mov", c.regs + k - 1, c.code[first + k - 1].d, 0)]
      own == [r \in 0 .. SmallRegs - 1 |-> c.regs + r]
      body == [k \in DOMAIN SmallBody |-> RemapInstr(SmallBody[k], own)]
      inlined == copies \o body \o <<Rrr("Mov", c.code[i].d, c.regs, 0)>>
      delta == Len(inlined) - (SmallParams + 1)
      move(j) == IF j.op \in Jumps /\ j.imm > i THEN [j EXCEPT !.imm = @ + delta] ELSE j
      spliced == SubSeq(c.code, 1, first - 1) \o inlined \o SubSeq(c.code, i + 1, Len(c.code))
  IN [c EXCEPT !.code = [k \in DOMAIN spliced |-> move(spliced[k])],
               !.regs = @ + SmallRegs]

Inlined(c) ==
  LET calls == {i \in DOMAIN c.code : Inlinable(c.code, i)}
      after[n \in 0 .. Cardinality(calls)] ==
        IF n = 0 THEN c
        ELSE LET d == after[n - 1]
             IN InlineAt(d, MinOf({i \in DOMAIN d.code : Inlinable(d.code, i)}))
  IN after[Cardinality(calls)]

Pass(from, to, result) ==
  /\ phase = from
  /\ chunk' = result
  /\ phase' = to
  /\ UNCHANGED <<program, next, fc, expected>>

InlineCalls == Pass("emitted", "inlined", Inlined(chunk))
FoldConstants == Pass("inlined", "folded", ConstPropFold(chunk))
EliminateDead == Pass("folded", "eliminated", ElimDeadRegs(chunk))
AllocateRegisters == Pass("eliminated", "allocated", LinearScanAlloc(chunk))

-----------------------------------------------------------------------------
NewCompiler(params) ==
  [code |-> <<>>, reg |-> [p \in 0 .. params - 1 |-> p], next |-> params, result |-> 0,
   open |-> <<>>]

Init ==
  /\ program \in Programs
  /\ next = 1
  /\ fc = NewCompiler(program.params)
  /\ chunk = [code |-> <<>>, params |-> program.params, regs |-> 0]
  /\ expected = <<>>
  /\ phase = "compile"

Next ==
  \/ CompileVar \/ CompileAssign \/ CompileIncDec \/ CompileExprStmt
  \/ CompileIf \/ CompileElse \/ CompileLoop \/ CompileRange \/ CompileEnd
  \/ CompileBreak \/ CompileContinue \/ CompileReturn
  \/ FinishFunction
  \/ InlineCalls \/ FoldConstants \/ EliminateDead \/ AllocateRegisters

Spec == Init /\ [][Next]_vars

-----------------------------------------------------------------------------
Passes == {"emitted", "inlined", "folded", "eliminated", "allocated"}

(* Two outcomes of one function: the same if the first halted.  What did not *)
(* halt is compared as far as it came; the second is given more steps.       *)
Agree(a, b) ==
  /\ a.status # "running" => b = a
  /\ Len(a.seen) <= Len(b.seen) => SubSeq(b.seen, 1, Len(a.seen)) = a.seen
  /\ Len(b.seen) <= Len(a.seen) => SubSeq(a.seen, 1, Len(b.seen)) = b.seen

(* Every chunk between two passes is one the QZI validation accepts: known   *)
(* opcodes, jumps within the chunk, registers within its frame, and no       *)
(* fewer registers than parameters.                                          *)
ChunkIsValid ==
  phase \in Passes =>
    /\ chunk.params <= chunk.regs
    /\ RegistersOf(chunk.code) \subseteq 0 .. chunk.regs - 1
    /\ \A i \in DOMAIN chunk.code :
         /\ chunk.code[i].op \in Ops
         /\ chunk.code[i].op \in Jumps => chunk.code[i].imm \in 1 .. Len(chunk.code) + 1

(* The chunk of a function does what its statements say: the same calls with *)
(* the same values in the same order, the same result, the same panics.      *)
CodeMeansProgram ==
  phase = "emitted" =>
    \A input \in Inputs : Agree(expected[input], Meaning(program, input, 2 * Fuel))

(* No pass changes what a function does: given the same arguments and the    *)
(* same answers, it calls the same functions with the same values in the     *)
(* same order, and returns or panics alike, and its registers and jumps stay *)
(* inside the chunk.  A pass may at most double the instructions executed.   *)
PassesPreserveBehaviour ==
  /\ ChunkIsValid
  /\ phase \in Passes =>
       \A input \in Inputs : Agree(expected[input], Outcome(chunk, input, 2 * Fuel))

(* What constant propagation takes for the value of a register, where an     *)
(* instruction reads it, is its value in every execution that comes there;   *)
(* and its worklist empties.                                                 *)
ConstantsHold ==
  phase = "inlined" =>
    LET facts == Analysis(chunk.code)
    IN /\ facts.settled
       /\ \A input \in Inputs :
            LET states == Execution(chunk, input, Fuel)
            IN \A k \in DOMAIN states :
                 LET m == states[k] IN
                 m.status = "running" /\ m.pc \in DOMAIN chunk.code =>
                   \A r \in ReadBy(chunk.code[m.pc]) :
                     facts.before[m.pc][r] \in {m.slot[r], Top, Bottom}
=============================================================================
