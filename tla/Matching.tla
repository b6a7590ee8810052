------------------------------ MODULE Matching ------------------------------
(***************************************************************************)
(* match expressions: the checks of type_check_expr and of the             *)
(* exhaustiveness pass, the code compile_expr emits, and its run.          *)
(*                                                                         *)
(* A value is a bool <<"bool", n>> or an enum <<"enum", variant, payload>>;*)
(* a pattern is <<"any">>, <<"bind", x>>, <<"lit", n>> or <<"variant", v,  *)
(* patterns>>; a guard is <<"none">>, <<"is", x>> (a bool bound by the     *)
(* pattern) or <<"on">> (a parameter).  A type is "bool" or the name of an *)
(* enum in Enums, which gives the types of each variant's payload.         *)
(***************************************************************************)
EXTENDS Naturals, Sequences, FiniteSets, SequencesExt

CONSTANT Enums

(***************************************************************************)
(* The checks.                                                             *)
(***************************************************************************)
RECURSIVE Bindings(_)
Bindings(pattern) ==
  CASE pattern[1] = "bind" -> {pattern[2]}
    [] pattern[1] = "variant" -> UNION {Bindings(pattern[3][i]) : i \in DOMAIN pattern[3]}
    [] OTHER -> {}

ArmKind(pattern) == IF pattern[1] = "variant" THEN pattern[2] ELSE "wildcard"

\* validate_match_pattern looks at the outermost variant only.
ValidPattern(pattern, type) ==
  pattern[1] = "variant" => /\ type \in DOMAIN Enums
                            /\ pattern[2] \in DOMAIN Enums[type]
                            /\ Len(Enums[type][pattern[2]]) = Len(pattern[3])

\* The type of a name bound directly under a variant: wildcards to its left are
\* not counted.
BindingType(pattern, type, i) ==
  LET before == Cardinality({k \in 1..(i - 1) : pattern[3][k][1] # "any"})
  IN Enums[type][pattern[2]][before + 1]

Unguarded(arm) == arm.guard = <<"none">>

\* Every unguarded arm covers its whole variant, whatever is inside; a literal is
\* taken for a wildcard.
Covered(arms) == {ArmKind(arms[i].pattern) : i \in {i \in DOMAIN arms : Unguarded(arms[i])}}

Exhaustive(arms, type) ==
  type \in DOMAIN Enums => ("wildcard" \in Covered(arms) \/ DOMAIN Enums[type] \subseteq Covered(arms))

\* W05: an unguarded arm after what covers it.
Unreachable(arms, type) ==
  {i \in DOMAIN arms : /\ Unguarded(arms[i])
                       /\ type \in DOMAIN Enums
                       /\ LET earlier == Covered(SubSeq(arms, 1, i - 1))
                          IN "wildcard" \in earlier \/ (ArmKind(arms[i].pattern) # "wildcard" /\ ArmKind(arms[i].pattern) \in earlier)}

AcceptsMatch(arms, type) ==
  /\ arms # <<>>
  /\ \A i \in DOMAIN arms : ValidPattern(arms[i].pattern, type)
  /\ Exhaustive(arms, type)

(***************************************************************************)
(* The code.  Register 0 is the first parameter; the scrutinee and the     *)
(* guard's parameter are given in registers, later ones are allocated in   *)
(* turn.  A jump leads to <<"arm", k>>, the start of arm k, or <<"end">>.  *)
(***************************************************************************)
Instr(c, i) == [c EXCEPT !.code = Append(@, i)]
Alloc(c) == [c EXCEPT !.next = @ + 1]
LoadInto(c, what) == Instr(Alloc(c), <<"load", c.next, what>>)
Differs(c, x, y, l) == Instr(Instr(c, <<"cmp", x, y>>), <<"jne", l>>)

\* compile_pattern_match
RECURSIVE CompilePattern(_, _, _, _)
CompilePayload(c, pattern, reg, l) ==
  FoldLeft(LAMBDA d, i : CompilePattern(LoadInto(d, <<"payload", reg, i>>), pattern[3][i], d.next, l),
           c, [i \in DOMAIN pattern[3] |-> i])
\* Mutant: the variant of the value is not compared.
TagIgnored(c, pattern, reg, l) ==
  IF pattern[1] = "bind" THEN [Instr(Alloc(c), <<"mov", c.next, reg>>) EXCEPT !.regs = (pattern[2] :> c.next) @@ @]
  ELSE IF pattern[1] = "variant" THEN CompilePayload(c, pattern, reg, l) ELSE c
CompilePattern(c, pattern, reg, l) ==
  CASE pattern[1] = "bind" -> [Instr(Alloc(c), <<"mov", c.next, reg>>) EXCEPT !.regs = (pattern[2] :> c.next) @@ @]
    [] pattern[1] = "lit" -> Differs(LoadInto(c, <<"imm", <<"bool", pattern[2]>>>>), reg, c.next, l)
    [] pattern[1] = "variant" ->
         LET tags == LoadInto(LoadInto(c, <<"tag", reg>>), <<"imm", pattern[2]>>)
         IN CompilePayload(Differs(tags, c.next, c.next + 1, l), pattern, reg, l)
    [] OTHER -> c

GuardReg(c, guard) == IF guard[1] = "is" THEN c.regs[guard[2]] ELSE c.condition

\* A guard is compared with register 0, not with zero.
CompileGuard(c, guard, l) ==
  IF guard = <<"none">> THEN c
  ELSE Instr(Instr(c, <<"cmp", GuardReg(c, guard), 0>>), <<"je", l>>)

CompileMatch(arms, scrutinee, condition) ==
  LET start == [code |-> <<>>, next |-> 3, regs |-> <<>>, condition |-> condition]
      Arm(c, k) ==
        LET next == IF k = Len(arms) THEN <<"end">> ELSE <<"arm", k + 1>>
            tested == CompilePattern(Instr(c, <<"arm", k>>), arms[k].pattern, scrutinee, next)
        IN Instr(Instr(CompileGuard(tested, arms[k].guard, next), <<"result", k>>), <<"jmp", <<"end">>>>)
  IN Instr(FoldLeft(Arm, start, [k \in DOMAIN arms |-> k]), <<"end">>).code

(***************************************************************************)
(* Its run, and what the source means.                                     *)
(***************************************************************************)
NoArm == 0

Loaded(regs, what) ==
  CASE what[1] = "imm" -> what[2]
    [] what[1] = "tag" -> regs[what[2]][2]
    [] OTHER -> regs[what[2]][3][what[3]]

Place(code, l) == CHOOSE k \in DOMAIN code : code[k] = l

RECURSIVE RunMatch(_, _, _, _)
RunMatch(code, pc, regs, equal) ==
  LET i == code[pc]
  IN CASE i[1] = "load" -> RunMatch(code, pc + 1, (i[2] :> Loaded(regs, i[3])) @@ regs, equal)
       [] i[1] = "mov" -> RunMatch(code, pc + 1, (i[2] :> regs[i[3]]) @@ regs, equal)
       [] i[1] = "cmp" -> RunMatch(code, pc + 1, regs, regs[i[2]] = regs[i[3]])
       [] i[1] = "jne" -> RunMatch(code, IF equal THEN pc + 1 ELSE Place(code, i[2]), regs, equal)
       [] i[1] = "je" -> RunMatch(code, IF equal THEN Place(code, i[2]) ELSE pc + 1, regs, equal)
       [] i[1] = "jmp" -> RunMatch(code, Place(code, i[2]), regs, equal)
       [] i[1] = "result" -> i[2]
       [] i[1] = "end" -> NoArm
       [] OTHER -> RunMatch(code, pc + 1, regs, equal)

RECURSIVE Matches(_, _)
Matches(pattern, value) ==
  CASE pattern[1] = "lit" -> value = <<"bool", pattern[2]>>
    [] pattern[1] = "variant" -> /\ pattern[2] = value[2]
                                 /\ \A i \in DOMAIN pattern[3] : Matches(pattern[3][i], value[3][i])
    [] OTHER -> TRUE

RECURSIVE Bound(_, _, _)
Bound(pattern, value, x) ==
  IF pattern = <<"bind", x>> THEN value
  ELSE LET i == CHOOSE i \in DOMAIN pattern[3] : x \in Bindings(pattern[3][i])
       IN Bound(pattern[3][i], value[3][i], x)

GuardHolds(arm, value, on) ==
  CASE arm.guard[1] = "is" -> Bound(arm.pattern, value, arm.guard[2]) = <<"bool", 1>>
    [] arm.guard[1] = "on" -> on = <<"bool", 1>>
    [] OTHER -> TRUE

FirstArm(arms, value, on) ==
  LET takes == {k \in DOMAIN arms : Matches(arms[k].pattern, value) /\ GuardHolds(arms[k], value, on)}
  IN IF takes = {} THEN NoArm ELSE CHOOSE k \in takes : \A j \in takes : k <= j

\* A pattern that nothing of its variant escapes.
Total(pattern) ==
  CASE pattern[1] = "variant" -> \A i \in DOMAIN pattern[3] : pattern[3][i][1] \in {"any", "bind"}
    [] OTHER -> pattern[1] # "lit"

(***************************************************************************)
(* A match as a task: <<arms, type, value, condition, register>>.          *)
(***************************************************************************)
Parameters(task) == (task[5] :> task[3]) @@ ((1 - task[5]) :> task[4])
TakenArm(task) == RunMatch(CompileMatch(task[1], task[5], 1 - task[5]), 1, Parameters(task), FALSE)

\* A match the checks accept takes the first arm that matches, and one without
\* guards and refutable payloads always takes one, and never one that W05 calls
\* unreachable.  Guards are asked for only if register 0 holds false.
TakesFirstArm(task, taken) ==
  LET arms == task[1]
      plain == \A i \in DOMAIN arms : Unguarded(arms[i])
  IN /\ plain \/ Parameters(task)[0] = <<"bool", 0>> => taken = FirstArm(arms, task[3], task[4])
     /\ plain /\ (\A i \in DOMAIN arms : Total(arms[i].pattern)) =>
          taken # NoArm /\ taken \notin Unreachable(arms, task[2])

\* As the documentation has it, guards included.
GuardsDecide(task, taken) == taken = FirstArm(task[1], task[3], task[4])
=============================================================================
