----------------------------- MODULE Ownership ------------------------------
(***************************************************************************)
(* Functions with owned locals, checked by module Borrow, compiled by      *)
(* module DropScopes and executed on every path.                           *)
(***************************************************************************)
EXTENDS DropScopes

CONSTANTS OwnedFunctions,   \* functions: <<parameters, body>>
          MaxRounds         \* bound on the conditions of one execution that come out true

VARIABLES fn,      \* the function
          stage,   \* written, rejected by the checker, or compiled
          run      \* its execution

ownVars == <<fn, stage, run>>

(***************************************************************************)
(* Execution: registers hold values, numbered as they are made, and each   *)
(* value is live, empty (free() was called), freed or given to the caller. *)
(***************************************************************************)
Execution(f) ==
  [code |-> CompileFunction(f[1], f[2]), pc |-> 1, reg |-> [k \in {f[1][i] : i \in DOMAIN f[1]} |-> CHOOSE i \in DOMAIN f[1] : f[1][i] = k],
   value |-> [i \in DOMAIN f[1] |-> "live"], rounds |-> 0, fault |-> "none"]

Held(x, r) == IF r \in DOMAIN x.reg THEN x.reg[r] ELSE 0
State(x, r) == IF Held(x, r) = 0 THEN "garbage" ELSE x.value[Held(x, r)]
Fails(x, kind) == [x EXCEPT !.fault = IF @ = "none" THEN kind ELSE @]
Becomes(x, r, state) == IF Held(x, r) = 0 THEN x ELSE [x EXCEPT !.value[Held(x, r)] = state]

Target(code, l) == CHOOSE k \in DOMAIN code : code[k] = <<"label", l>>

Destroy(x, r) == IF State(x, r) \in {"live", "empty"} THEN Becomes(x, r, "freed") ELSE Fails(x, "destroyed " \o State(x, r))
Access(x, r, state) == IF State(x, r) \in {"live", "empty"} THEN Becomes(x, r, state) ELSE Fails(x, "used " \o State(x, r))

After(x, i) ==
  CASE i[1] = "make" -> [x EXCEPT !.value = Append(@, "live"), !.reg = (i[2] :> (Len(x.value) + 1)) @@ @]
    [] i[1] = "mov" -> [x EXCEPT !.reg = (i[2] :> Held(x, i[3])) @@ @]
    [] i[1] = "use" -> Access(x, i[2], State(x, i[2]))
    [] i[1] = "take" -> Access(x, i[2], "freed")
    [] i[1] = "release" -> Access(x, i[2], "empty")
    [] i[1] = "drop" -> Destroy(x, i[2])
    [] i[1] = "ret" -> IF i[2] = NoReg THEN x ELSE Access(x, i[2], "returned")
    [] OTHER -> x

\* The executions one instruction later; none when it is over.
Executed(x) ==
  LET i == x.code[x.pc]
      next == [After(x, i) EXCEPT !.pc = IF i[1] = "ret" THEN 0 ELSE x.pc + 1]
  IN CASE x.pc = 0 -> {}
       [] i[1] = "jmp" -> {[x EXCEPT !.pc = Target(x.code, i[2])]}
       [] i[1] = "branch" -> {[x EXCEPT !.pc = Target(x.code, i[2])]}
                             \cup (IF x.rounds < MaxRounds THEN {[next EXCEPT !.rounds = @ + 1]} ELSE {})
       [] OTHER -> {next}

Init == fn \in OwnedFunctions /\ stage = "written" /\ run = <<>>

Check ==
  /\ stage = "written"
  /\ IF Accepts(fn[1], fn[2]) THEN stage' = "compiled" /\ run' = Execution(fn)
     ELSE stage' = "rejected" /\ UNCHANGED run
  /\ UNCHANGED fn

Execute ==
  /\ stage = "compiled"
  /\ run' \in Executed(run)
  /\ UNCHANGED <<fn, stage>>

Next == Check \/ Execute
Spec == Init /\ [][Next]_ownVars
-----------------------------------------------------------------------------
(***************************************************************************)
(* Neutral: no part of the body that a path may leave out changes which    *)
(* locals are owners behind it.  Only such functions are destroyed         *)
(* correctly: the generator keeps one flag for each local, not one for     *)
(* each path.  Owners are followed along the text.                         *)
(***************************************************************************)
Flow(owned) == [owned |-> owned, neutral |-> TRUE]
Gain(fl, x) == IF x \in References THEN fl ELSE [fl EXCEPT !.owned = @ \cup {x}]

RECURSIVE FlowExpr(_, _, _)
FlowArgs(fl, es) == FoldLeft(LAMBDA h, e : FlowExpr(h, e, TRUE), fl, es)
Optional(fl, e) ==
  LET inside == FlowExpr(fl, e, FALSE)
  IN [fl EXCEPT !.neutral = inside.neutral /\ inside.owned = fl.owned]
FlowExpr(fl, e, consumed) ==
  CASE e[1] = "var" -> IF consumed THEN [fl EXCEPT !.owned = @ \ {e[2]}] ELSE fl
    [] e[1] = "assign" -> Gain(FlowExpr(fl, e[3], TRUE), e[2])
    [] e[1] \in {"call", "pass", "build"} -> FlowArgs(fl, e[2])
    [] e[1] = "method" -> FlowArgs(fl, e[4])
    [] e[1] = "free" -> [fl EXCEPT !.owned = @ \ {e[2]}]
    [] e[1] = "and" -> Optional(FlowExpr(fl, e[2], FALSE), e[3])
    [] e[1] = "match" -> FoldLeft(Optional, fl, e[3])
    [] e[1] = "try" -> [FlowExpr(fl, e[2], consumed) EXCEPT !.neutral = @ /\ fl.owned = {}]
    [] OTHER -> fl

RECURSIVE FlowStmt(_, _, _)
FlowStmts(fl, block, entry) == FoldLeft(LAMBDA h, s : FlowStmt(h, s, entry), fl, block)
Iterated == <<"iterated">>
Declared(block) == {block[k][2] : k \in {k \in DOMAIN block : block[k][1] \in {"let", "declare"}}} 
                   \cup {Iterated : k \in {k \in DOMAIN block : block[k][1] = "each"}}
OptionalBlock(fl, block, entry) ==
  LET inside == FlowStmts(fl, block, entry)
  IN [fl EXCEPT !.neutral = inside.neutral /\ inside.owned \ Declared(block) = fl.owned]
FlowStmt(fl, s, entry) ==
  CASE s[1] = "let" -> Gain(FlowExpr(fl, s[3], TRUE), s[2])
    [] s[1] = "ret" -> FlowExpr(fl, s[2], TRUE)
    [] s[1] = "do" -> FlowExpr(fl, s[2], FALSE)
    [] s[1] = "if" -> OptionalBlock(OptionalBlock(fl, s[2], entry), s[3], entry)
    [] s[1] = "while" -> OptionalBlock(fl, s[2], fl.owned)
    [] s[1] = "each" -> LET iter == Gain(FlowExpr(fl, s[2], TRUE), Iterated)
                        IN OptionalBlock(iter, s[3], iter.owned)
    [] s[1] \in {"break", "continue"} -> [fl EXCEPT !.neutral = @ /\ fl.owned = entry]
    [] OTHER -> fl
Neutral(f) == FlowStmts(Flow({f[1][i] : i \in DOMAIN f[1]} \ References), f[2], {}).neutral

\* Assignments in parts that a path may leave out, and leaving a round early.
RECURSIVE Inside(_)
Inside(block) ==
  UNION {LET s == block[k] IN
         CASE s[1] = "if" -> {s[2], s[3]} \cup Inside(s[2]) \cup Inside(s[3])
           [] s[1] = "while" -> {s[2]} \cup Inside(s[2])
           [] s[1] = "each" -> {s[3]} \cup Inside(s[3])
           [] OTHER -> {} : k \in DOMAIN block}
AssignsInside(f) == \E b \in Inside(f[2]) : \E k \in DOMAIN b : b[k][1] = "do" /\ b[k][2][1] = "assign"
LeavesEarly(f) ==
  \/ \E b \in Inside(f[2]) : \E k \in DOMAIN b : b[k][1] \in {"break", "continue"}
  \/ \E k \in DOMAIN f[2] : f[2][k][1] = "do" /\ f[2][k][2][1] = "try"

Compiled == stage = "compiled"
Over == Compiled /\ run.pc = 0

\* Every owner a neutral function makes or is given is destroyed once on every
\* path, or returned; what is destroyed holds a value.
OwnersDestroyedOnce ==
  (Compiled /\ Neutral(fn)) =>
     /\ run.fault = "none"
     /\ Over => \A v \in DOMAIN run.value : run.value[v] # "live"

Dead == {"used freed", "used returned"}

\* A function the borrow checker accepts reads no value that was destroyed or
\* given away, unless it assigns an owner on some paths only.
AcceptedUsesAreLive == (Compiled /\ ~AssignsInside(fn)) => run.fault \notin Dead

\* Function owners need not be followed path by path: the checker accepts no move
\* of one that only some paths take.
FnMovesAreNeutral ==
  (Compiled /\ Range(fn[1]) \subseteq FnOwners /\ ~AssignsInside(fn) /\ ~LeavesEarly(fn)) => Neutral(fn)

\* As the documentation has it: assignment destroys a value only where the
\* variable still owns it, and a returned owner is the caller's.
OwnersStayAlive == Compiled => run.fault \notin Dead
=============================================================================
