------------------------------- MODULE Borrow -------------------------------
(***************************************************************************)
(* The borrow checker (semantic/borrow.rs) over the body of one function.  *)
(* A statement or an expression is a tuple whose first element names it:   *)
(*                                                                         *)
(*   "let" x e | "declare" x | "ret" e | "retvoid" | "do" e | "if" then    *)
(*   else | "while" body | "each" e body | "break" | "continue"            *)
(*                                                                         *)
(*   "var" x | "make" (a new owner) | "value" (owned by nobody) | "assign" *)
(*   x e | "update" x e | "ref" x | "refmut" x | "call" es | "pass" es (it *)
(*   returns an owner) | "method" receiver x es | "free" x | "and" e e |   *)
(*   "build" es | "match" e es | "closure" e | "field" x | "try" e         *)
(*                                                                         *)
(* A name says what it holds: an owner, a function owner or a reference.   *)
(***************************************************************************)
EXTENDS Naturals, Sequences, FiniteSets, SequencesExt

CONSTANTS FnOwners, References

NoLoan == 0

OwnedVar(env) == [moved |-> FALSE, loop |-> env.loop, control |-> env.control, shared |-> NoLoan, exclusive |-> NoLoan]

MoveEnv == [scopes |-> << <<>> >>, loop |-> 0, control |-> 0, reassign |-> {}, ok |-> TRUE]

EnterScope(env) == [env EXCEPT !.scopes = Append(@, <<>>)]

ExitScope(env) ==
  LET depth == Len(env.scopes)
      Ended(loan) == IF loan >= depth THEN NoLoan ELSE loan
  IN [env EXCEPT !.scopes = [i \in 1..(depth - 1) |-> [x \in DOMAIN @[i] |->
        [@[i][x] EXCEPT !.shared = Ended(@), !.exclusive = Ended(@)]]]]

Declare(env, x) == [env EXCEPT !.scopes[Len(env.scopes)] = (x :> OwnedVar(env)) @@ @]

Depths(env, x) == {i \in DOMAIN env.scopes : x \in DOMAIN env.scopes[i]}
Known(env, x) == Depths(env, x) # {}
Innermost(env, x) == CHOOSE i \in Depths(env, x) : \A j \in Depths(env, x) : j <= i
Lookup(env, x) == env.scopes[Innermost(env, x)][x]

MarkMoved(env, x) == [env EXCEPT !.scopes[Innermost(env, x)][x].moved = TRUE]
Reinit(env, x) == IF Known(env, x) THEN [env EXCEPT !.scopes[Innermost(env, x)][x].moved = FALSE] ELSE env
FirstLoan(env, loan) == IF loan = NoLoan THEN Len(env.scopes) ELSE loan
MarkShared(env, x) == IF Known(env, x) THEN [env EXCEPT !.scopes[Innermost(env, x)][x].shared = FirstLoan(env, @)] ELSE env
MarkExclusive(env, x) == IF Known(env, x) THEN [env EXCEPT !.scopes[Innermost(env, x)][x].exclusive = FirstLoan(env, @)] ELSE env

\* What a branch moved or lent counts as moved or lent behind it.
Merge(env, branch, x) ==
  LET v == Lookup(branch, x)
      e1 == IF v.moved THEN MarkMoved(env, x) ELSE env
      e2 == IF v.shared # NoLoan THEN MarkShared(e1, x) ELSE e1
  IN IF v.exclusive # NoLoan THEN MarkExclusive(e2, x) ELSE e2
Names(env) == UNION {DOMAIN env.scopes[i] : i \in DOMAIN env.scopes}
ApplyBranchMoves(env, branch) ==
  FoldLeft(LAMBDA e, x : Merge(e, branch, x), [env EXCEPT !.ok = @ /\ branch.ok],
           SetToSeq(Names(env) \intersect Names(branch)))

Error(env) == [env EXCEPT !.ok = FALSE]
InBranch(env) == [env EXCEPT !.control = @ + 1]

\* Mutant: what was moved may be used again.
ConflictIgnoresMoves(env, x, v, consumed) ==
  v.exclusive # NoLoan \/ (x \notin References /\ consumed /\ (v.shared # NoLoan \/ (x \in FnOwners /\ env.control > v.control)))

Conflict(env, x, v, consumed) ==
  \/ v.exclusive # NoLoan
  \/ /\ x \notin References
     /\ \/ v.moved
        \/ consumed /\ (v.shared # NoLoan \/ (x \in FnOwners /\ env.control > v.control))

MovedInLoop(env, x, v) == env.loop > v.loop /\ x \notin env.reassign

Ident(env, x, consumed) ==
  IF ~Known(env, x) THEN env
  ELSE LET v == Lookup(env, x)
       IN IF Conflict(env, x, v, consumed) THEN Error(env)
          ELSE IF x \in References \/ ~consumed THEN env
          ELSE MarkMoved(IF MovedInLoop(env, x, v) THEN Error(env) ELSE env, x)

RejectBorrowedWrite(env, x) ==
  IF Known(env, x) /\ (Lookup(env, x).shared # NoLoan \/ Lookup(env, x).exclusive # NoLoan) THEN Error(env) ELSE env

Lend(env, x, op) ==
  LET v == Lookup(env, x)
  IN CASE ~Known(env, x) -> env
       [] op = "ref" -> IF v.exclusive # NoLoan THEN Error(env) ELSE MarkShared(env, x)
       [] OTHER -> IF v.shared # NoLoan \/ v.exclusive # NoLoan THEN Error(env) ELSE MarkExclusive(env, x)

RECURSIVE Expr(_, _, _)
Args(env, es) == FoldLeft(LAMBDA e, arg : Expr(e, arg, TRUE), env, es)
ScopedArgs(env, es) == ExitScope(Args(env, es))

Expr(env, e, consumed) ==
  CASE e[1] = "var" -> Ident(env, e[2], consumed)
    [] e[1] = "assign" ->
         LET start == RejectBorrowedWrite(IF consumed /\ e[2] \in FnOwners THEN Error(env) ELSE env, e[2])
             value == Expr([start EXCEPT !.reassign = @ \cup {e[2]}], e[3], TRUE)
         IN Reinit([value EXCEPT !.reassign = @ \ {e[2]}], e[2])
    [] e[1] = "update" -> Expr(Ident(RejectBorrowedWrite(env, e[2]), e[2], FALSE), e[3], FALSE)
    [] e[1] \in {"call", "pass"} -> ScopedArgs(EnterScope(env), e[2])
    [] e[1] = "method" ->
         LET start == Ident(IF e[2] = "shared" THEN env ELSE RejectBorrowedWrite(env, e[3]), e[3], FALSE)
         IN CASE e[2] = "shared" -> ScopedArgs(MarkShared(EnterScope(start), e[3]), e[4])
              [] e[2] = "exclusive" -> ScopedArgs(MarkExclusive(EnterScope(start), e[3]), e[4])
              [] OTHER -> Args(start, e[4])
    [] e[1] = "free" -> Ident(RejectBorrowedWrite(env, e[2]), e[2], FALSE)
    [] e[1] = "and" ->
         LET left == Expr(env, e[2], FALSE)
         IN ApplyBranchMoves(left, Expr(InBranch(left), e[3], FALSE))
    [] e[1] \in {"ref", "refmut"} -> Lend(Ident(env, e[2], FALSE), e[2], e[1])
    [] e[1] = "field" -> Ident(env, e[2], FALSE)
    [] e[1] = "build" -> Args(env, e[2])
    [] e[1] = "match" ->
         LET base == Expr(env, e[2], TRUE)
         IN FoldLeft(LAMBDA v, arm : ApplyBranchMoves(v, Expr(InBranch(base), arm, consumed)), base, e[3])
    [] e[1] = "try" -> Expr(env, e[2], consumed)
    [] e[1] = "closure" -> [env EXCEPT !.ok = @ /\ Expr(EnterScope(env), e[2], TRUE).ok]
    [] OTHER -> env

RECURSIVE Stmt(_, _)
Stmts(env, block) == FoldLeft(LAMBDA v, s : Stmt(v, s), env, block)
Block(env, block) == ExitScope(Stmts(EnterScope(env), block))

Loop(env, body) ==
  LET round == Block([InBranch(env) EXCEPT !.loop = @ + 1], body)
  IN ApplyBranchMoves(env, round)


Stmt(env, s) ==
  CASE s[1] = "let" -> Declare(Expr(env, s[3], TRUE), s[2])
    [] s[1] = "declare" -> Declare(env, s[2])
    [] s[1] = "ret" -> [env EXCEPT !.ok = Expr([env EXCEPT !.loop = 0], s[2], TRUE).ok]
    [] s[1] = "do" -> Expr(env, s[2], FALSE)
    [] s[1] = "if" -> LET then == Block(InBranch(env), s[2])
                          else == Block(InBranch(env), s[3])
                      IN ApplyBranchMoves(ApplyBranchMoves(env, then), else)
    [] s[1] = "while" -> Loop(env, s[2])
    [] s[1] = "each" -> Loop(Expr(env, s[2], TRUE), s[3])
    [] OTHER -> env

\* The checker reports nothing about a function with these parameters.
Accepts(params, body) == Block(FoldLeft(Declare, MoveEnv, params), body).ok
=============================================================================
