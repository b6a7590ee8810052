----------------------------- MODULE DropScopes -----------------------------
(***************************************************************************)
(* Where the code generator (bytecode/codegen.rs) puts the destruction of  *)
(* owned locals, and what the code does when it runs.  The functions are   *)
(* those of module Borrow; of an instruction only what it does to owned    *)
(* values is kept, conditions are open, and a jump leads to a label.       *)
(*                                                                         *)
(*   "make" r | "mov" d s | "use" r | "take" r (the callee owns and        *)
(*   destroys its argument) | "release" r (free(), which leaves the value  *)
(*   empty) | "drop" r | "branch" l | "jmp" l | "label" l | "ret" r        *)
(***************************************************************************)
EXTENDS Borrow

NoReg == <<"none">>

\* A compiler as FnCompiler::new leaves it: drop_scopes with the scope of the
\* parameters, loop_stack, the next label and temporary.
DropLocal(x, active) == [name |-> x, active |-> active]
Compiler(params) ==
  [code |-> <<>>, drops |-> <<[i \in DOMAIN params |-> DropLocal(params[i], TRUE)]>>, loops |-> <<>>,
   next |-> 0, reg |-> NoReg, exits |-> FALSE]

Emit(g, i) == [g EXCEPT !.code = Append(@, i)]
Temp(g) == [g EXCEPT !.next = @ + 1, !.reg = <<"t", g.next>>]
Label(g) == <<"l", g.next>>
NewLabel(g) == [g EXCEPT !.next = @ + 1]
Droppable(x) == x \notin References

\* register_drop_local and register_uninitialized_drop_local
Register(g, x, active) ==
  IF Droppable(x) THEN [g EXCEPT !.drops[Len(g.drops)] = Append(@, DropLocal(x, active))] ELSE g

Flag(g, x, active) ==
  [g EXCEPT !.drops = [i \in DOMAIN @ |-> [k \in DOMAIN @[i] |->
     IF @[i][k].name = x THEN DropLocal(x, active) ELSE @[i][k]]]]
IsActive(g, x) == \E i \in DOMAIN g.drops : \E k \in DOMAIN g.drops[i] : g.drops[i][k] = DropLocal(x, TRUE)

Deactivate(g, x) == Flag(g, x, FALSE)
Reactivate(g, x) == Flag(g, x, TRUE)
\* Mutant: an assignment overwrites an owner without destroying it.
OverwriteLocal(g, x) == g
DropLocalNow(g, x) == IF IsActive(g, x) THEN Emit(Deactivate(g, x), <<"drop", x>>) ELSE g

ActiveIn(scope) == Reverse(SelectSeq(scope, LAMBDA l : l.active))
DropsOf(scope) == [i \in DOMAIN ActiveIn(scope) |-> <<"drop", ActiveIn(scope)[i].name>>]
Inactive(scope) == [i \in DOMAIN scope |-> DropLocal(scope[i].name, FALSE)]

ScopeCleanup(g) ==
  LET top == Len(g.drops)
  IN [g EXCEPT !.code = @ \o DropsOf(g.drops[top]), !.drops[top] = Inactive(@)]
AllCleanup(g) ==
  [g EXCEPT !.code = FoldLeft(LAMBDA c, scope : c \o DropsOf(scope), @, Reverse(g.drops))]
HasActiveDrops(g) == \E i \in DOMAIN g.drops : ActiveIn(g.drops[i]) # <<>>

RECURSIVE MarkConsumed(_, _)
MarkConsumed(g, e) ==
  CASE e[1] = "var" -> Deactivate(g, e[2])
    [] e[1] = "try" -> MarkConsumed(g, e[2])
    [] e[1] = "build" -> FoldLeft(LAMBDA h, x : MarkConsumed(h, x), g, e[2])
    [] OTHER -> g

RECURSIVE CompileExpr(_, _), Consumed(_, _), Pass(_, _), Skippable(_, _)
Consumed(g, e) == CompileExpr(MarkConsumed(g, e), e)
Lent(e) == e[1] \in {"ref", "refmut"} \/ (e[1] = "var" /\ e[2] \in References)
Pass(g, es) ==
  FoldLeft(LAMBDA h, e : LET v == Consumed(h, e) IN Emit(v, <<IF Lent(e) THEN "use" ELSE "take", v.reg>>), g, es)
Make(g) == LET t == Temp(g) IN Emit(t, <<"make", t.reg>>)
Read(g, x) == [Emit(g, <<"use", x>>) EXCEPT !.reg = x]
Move(g, d) == IF g.reg \in {d, NoReg} THEN g ELSE Emit(g, <<"mov", d, g.reg>>)
Nothing(g) == [g EXCEPT !.reg = NoReg]

\* The operand or arm a condition may jump over, and the early return of `?`.
Skippable(g, e) ==
  LET l == Label(g)
  IN Emit(CompileExpr(Emit(NewLabel(g), <<"branch", l>>), e), <<"label", l>>)
Propagate(g) ==
  LET l == Label(g)
  IN Emit(Emit(Emit(NewLabel(g), <<"branch", l>>), <<"ret", NoReg>>), <<"label", l>>)

CompileExpr(g, e) ==
  CASE e[1] = "var" -> [g EXCEPT !.reg = e[2]]
    [] e[1] \in {"field", "ref", "refmut"} -> Read(g, e[2])
    [] e[1] \in {"make", "closure"} -> Make(g)
    [] e[1] = "assign" ->
         LET v == Consumed(g, e[3])
             r == Move([DropLocalNow(v, e[2]) EXCEPT !.reg = v.reg], e[2])
         IN [Reactivate(r, e[2]) EXCEPT !.reg = e[2]]
    [] e[1] = "update" -> Read(CompileExpr(g, e[3]), e[2])
    [] e[1] = "call" -> Nothing(Pass(g, e[2]))
    [] e[1] = "pass" -> Make(Pass(g, e[2]))
    [] e[1] = "method" -> Nothing(Pass(Read(g, e[3]), e[4]))
    [] e[1] = "free" -> Nothing(Deactivate(Emit(Read(g, e[2]), <<"release", e[2]>>), e[2]))
    [] e[1] = "and" -> Nothing(Skippable(CompileExpr(g, e[2]), e[3]))
    [] e[1] = "build" -> Make(Pass(g, e[2]))      \* the aggregate destroys what it was built from
    [] e[1] = "match" ->
         Nothing(FoldLeft(LAMBDA h, arm : Skippable(h, arm), CompileExpr(g, e[2]), e[3]))
    [] e[1] = "try" -> Propagate(CompileExpr(g, e[2]))
    [] OTHER -> Nothing(g)

RECURSIVE CompileStmt(_, _), CompileStmts(_, _), CompileBlock(_, _), CompileLoop(_, _)
\* A statement that leaves the function or the round ends its block.
CompileStmts(g, block) == FoldLeft(LAMBDA h, s : IF h.exits THEN h ELSE CompileStmt(h, s), g, block)
PopScope(g) == [g EXCEPT !.drops = Front(@)]
CompileBlock(g, block) ==
  LET inner == CompileStmts([g EXCEPT !.drops = Append(@, <<>>), !.exits = FALSE], block)
  IN PopScope(IF inner.exits THEN inner ELSE ScopeCleanup(inner))

CompileLoop(g, body) ==
  LET top == Label(g)
      out == Label(NewLabel(g))
      head == Emit(Emit(NewLabel(NewLabel(g)), <<"label", top>>), <<"branch", out>>)
      round == CompileBlock([head EXCEPT !.loops = Append(@, [top |-> top, out |-> out])], body)
      tail == Emit(Emit(round, <<"jmp", top>>), <<"label", out>>)
  IN [tail EXCEPT !.loops = Front(@), !.exits = FALSE]

CompileStmt(g, s) ==
  CASE s[1] = "let" -> Register(Move(Consumed(g, s[3]), s[2]), s[2], TRUE)
    [] s[1] = "declare" -> Register(g, s[2], FALSE)
    [] s[1] = "ret" ->
         LET v == Consumed(g, s[2])
             t == Temp(v)
         IN IF HasActiveDrops(v)
            THEN [Emit(AllCleanup(Emit(t, <<"mov", t.reg, v.reg>>)), <<"ret", t.reg>>) EXCEPT !.exits = TRUE]
            ELSE [Emit(v, <<"ret", v.reg>>) EXCEPT !.exits = TRUE]
    [] s[1] = "retvoid" -> [Emit(AllCleanup(g), <<"ret", NoReg>>) EXCEPT !.exits = TRUE]
    [] s[1] = "do" -> CompileExpr(g, s[2])
    [] s[1] = "if" ->
         LET else == Label(g)
             end == Label(NewLabel(g))
             then == CompileBlock(Emit(NewLabel(NewLabel(g)), <<"branch", else>>), s[2])
             rest == CompileBlock(Emit(Emit(then, <<"jmp", end>>), <<"label", else>>), s[3])
         IN [Emit(rest, <<"label", end>>) EXCEPT !.exits = then.exits /\ rest.exits]
    [] s[1] = "while" -> CompileLoop(g, s[2])
    [] s[1] = "each" ->
         LET value == Consumed(g, s[2])
             iter == Temp(value)
         IN CompileLoop(Register(Emit(iter, <<"mov", iter.reg, value.reg>>), iter.reg, TRUE), s[3])
    [] s[1] = "break" -> [Emit(g, <<"jmp", Last(g.loops).out>>) EXCEPT !.exits = TRUE]
    [] OTHER -> [Emit(g, <<"jmp", Last(g.loops).top>>) EXCEPT !.exits = TRUE]

IsLabel(i) == i[1] = "label"
EndsInReturn(code) ==
  LET kept == SelectSeq(code, LAMBDA i : ~IsLabel(i)) IN kept # <<>> /\ Last(kept)[1] = "ret"

\* The parameters are destroyed behind the body unless it ends in a return; the
\* encoder returns where a jump leads behind the last instruction.
Finished(g) == Append((IF EndsInReturn(g.code) THEN g ELSE ScopeCleanup(g)).code, <<"ret", NoReg>>)
CompileFunction(params, body) == Finished(CompileBlock(Compiler(params), body))
=============================================================================
