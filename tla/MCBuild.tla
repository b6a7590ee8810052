------------------------------ MODULE MCBuild -------------------------------
(***************************************************************************)
(* The parts of one build that share no state, checked in one run: each    *)
(* behaviour is one part at work and leaves the variables of the others at *)
(* rest.                                                                   *)
(***************************************************************************)
EXTENDS FunctionTable, Packages, BuildCases, TypeCases, TLC

CONSTANT Parts      \* the parts at work: of "functions", "packages", "owners", "matching",
                    \* "linking", "loading", "typing"

CONSTANTS OwnedFunctions, FnOwners, References, MaxRounds

VARIABLES part, fn, stage, run, task, answer

Own == INSTANCE Ownership

ASSUME TableParameters /\ PackagesParameters /\ CommandParameters

-----------------------------------------------------------------------------
(* A project of five functions; packages of two names. *)

CONSTANTS main, small, hook, other, extern, nick, shell, editor, repo, page

Calls(names) == [calls |-> names, takes |-> <<>>]
Taking(kind, to, names) == [calls |-> names, takes |-> <<[kind |-> kind, to |-> to]>>]

MCItems == <<other, small, hook, extern, main>>

MCSource == [f \in {main, small, hook, other, extern} |->
               CASE f \in {main, extern} -> "main.qz" [] f \in {hook, small} -> "hook.qz" [] OTHER -> "other.qz"]

MCAlias == [a \in {nick} |-> extern]

Simple == [f \in {main, small, hook, other, extern} |->
    CASE f = main -> {Calls(<<small, hook>>), Taking("vtable", hook, <<other, nick>>), Taking("closure", other, <<hook>>)}
      [] f = small -> {Calls(<<>>), Calls(<<extern>>), Calls(<<other>>)}
      [] f = hook -> {Calls(<<small, small>>), Taking("value", other, <<extern>>)}
      [] f = other -> {Calls(<<>>), Calls(<<small>>)}
      [] f = extern -> {Calls(<<>>)}]

\* main takes hook's address for C while another function comes and goes.
Callbacks == [f \in {main, small, hook, other, extern} |->
    CASE f = main -> {Taking("callback", hook, <<>>)}
      [] f = hook -> {Calls(<<>>), Calls(<<other>>)}
      [] OTHER -> {Calls(<<>>)}]

TwoNames == <<"json", "math">>

MCWanted ==
    [a \in {"json", "math"} |->
        IF a = "json" THEN {[url |-> repo, sel |-> Default], [url |-> repo, sel |-> Latest]}
        ELSE {[url |-> repo, sel |-> 0], [url |-> page, sel |-> Default]}]

OneDependency == [a \in {"json"} |-> [url |-> repo, sel |-> Default]]

TwoDependencies ==
    {[a \in {"json", "math"} |-> [url |-> IF a = "json" THEN repo ELSE page, sel |-> Default]]}

NoneNamed == <<>>

Together == [w \in {shell, editor} |-> IF w = shell THEN {"build", "edit"} ELSE {"analyse"}]

\* Functions that assign an owner in a loop.
Assigns(block) == \E k \in DOMAIN block : block[k][1] = "do" /\ block[k][2][1] = "assign"
Assigning == {f \in MCFunctions : Len(f[2]) = 3 /\ \E k \in DOMAIN f[2] : f[2][k][1] = "while" /\ Assigns(f[2][k][2])}
-----------------------------------------------------------------------------
(* A part at rest is as it starts, or empty. *)

AtRest == <<>>
ownVars == <<fn, stage, run>>
taskVars == <<task, answer>>

TableAtRest ==
  /\ prog = AtRest /\ pc = "edited" /\ index = AtRest /\ chunks = {} /\ callees = {}
  /\ table = AtRest /\ relocs = {} /\ snapshot = {} /\ cache = {} /\ edits = 0
OwnersAtRest ==
  /\ fn = AtRest /\ stage = AtRest /\ run = AtRest

Start(which) ==
  /\ part = which
  /\ IF which = "functions" THEN TableInit ELSE TableAtRest
  /\ PackagesInit
  /\ IF which = "owners" THEN Own!Init ELSE OwnersAtRest
  /\ answer = AtRest
  /\ CASE which = "matching" -> task \in MatchTasks
       [] which = "linking" -> task \in QziTasks
       [] which = "loading" -> task \in LoadTasks
       [] which = "typing" -> task \in Tasks
       [] OTHER -> task = AtRest

Init == \E which \in Parts : Start(which)

Compilation == part = "functions" /\ TableNext /\ UNCHANGED <<part, packageVars, ownVars, taskVars>>
Resolution == part = "packages" /\ PackagesNext /\ UNCHANGED <<part, tableVars, ownVars, taskVars>>
Owners == part = "owners" /\ Own!Next /\ UNCHANGED <<part, tableVars, packageVars, taskVars>>

Answered(a) == answer = AtRest /\ answer' = <<a>> /\ UNCHANGED <<part, task, tableVars, packageVars, ownVars>>
Match == part = "matching" /\ Answered(Mat!TakenArm(task))
Linking == part = "linking" /\ Answered(Build(task))
Loading == part = "loading" /\ Answered(Loaded(task))
Expressions == part = "typing" /\ Answered(Checked(task))

Next == Compilation \/ Resolution \/ Owners \/ Match \/ Linking \/ Loading \/ Expressions
Spec == Init /\ [][Next]_<<part, tableVars, packageVars, ownVars, taskVars>>
-----------------------------------------------------------------------------
(* The properties, each of one part. *)

\* Every owner of a neutral function is destroyed once, on every path.
OwnersDestroyedOnce == part = "owners" => Own!OwnersDestroyedOnce

\* No function the borrow checker accepts reads a value destroyed or given away.
AcceptedUsesAreLive == part = "owners" => Own!AcceptedUsesAreLive

\* As the documentation has it, whatever assignments a function makes.
OwnersStayAlive == part = "owners" => Own!OwnersStayAlive

\* A match takes the first arm that matches, and takes one.
FirstArmIsTaken == (part = "matching" /\ answer # AtRest) => Mat!TakesFirstArm(task, answer[1])

\* Through its file, under whatever name, a library is read as it was written or
\* refused, and what is linked calls what its source calls.
LibrariesLinkAsBuilt ==
  (part = "linking" /\ answer # AtRest) =>
    ReadAsWritten(task, answer[1]) /\ (Redirects(task) \/ LinkedAsBuilt(task, answer[1]))

\* No file is loaded past the gateway that hides it, and each goes before those
\* that import it.
LoadingKeepsVisibility == (part = "loading" /\ answer # AtRest) => LoadsWhatIsVisible(task, answer[1])

\* An expression the checker accepts is compiled to code that does what it means.
CodeComputesMeaning == (part = "typing" /\ answer # AtRest) => ComputesMeaning(answer[1])

\* What it evaluates to has the type the checker gave it, and is the value the
\* checker knew.
TypesDescribeValues == (part = "typing" /\ answer # AtRest) => Described(answer[1])
=============================================================================
