--------------------------- MODULE FunctionTable ---------------------------
(***************************************************************************)
(* The function table of Codegen::compile_program (bytecode/codegen.rs)    *)
(* over the partial builds of one project.  A program is a list of         *)
(* functions; of a body only the calls and the addresses taken are kept.   *)
(* A call instruction holds an index into the table, so every pass that    *)
(* drops, restores or moves functions must keep the indices right.  Names  *)
(* and declarations never change here: when they do nothing is restored.   *)
(* Specialisations of generic functions are never restored and left out.   *)
(***************************************************************************)
EXTENDS Naturals, Sequences, FiniteSets, SequencesExt

CONSTANTS
    Items,       \* the functions, a sequence in declaration order
    Bodies,      \* the bodies each may have
    SourceOf,    \* the source file each is declared in
    Roots,       \* functions kept in any case: main, exports, destructors
    Exports,     \* functions with a C adapter
    Bodiless,    \* declared only: the code is in a QZI dependency
    Small,       \* functions whose body may be inlined
    AliasOf,     \* import aliases: the function each stands for
    MaxEdits     \* bound on edits

Functions == Range(Items)

Aliases == DOMAIN AliasOf

Names == Functions \union Aliases

Kinds == {"value", "callback", "closure", "vtable"}

Reference == [kind : Kinds, to : Names]

\* The names called and the addresses taken, each in their order.
Body == [calls : Seq(Names), takes : Seq(Reference)]

TableParameters ==
    /\ Items \in Seq(Functions) /\ IsInjective(Items)
    /\ Bodies \in [Functions -> SUBSET Body]
    /\ \A f \in Functions : \A body \in Bodies[f] :
         /\ \A k \in DOMAIN body.takes : body.takes[k].kind = "callback" => body.takes[k].to \in Exports
         /\ f \in Bodiless => body.calls = <<>> /\ body.takes = <<>>
    /\ Roots \subseteq Functions /\ Exports \subseteq Roots
    /\ Aliases \intersect Functions = {} /\ Range(AliasOf) \subseteq Functions
    /\ MaxEdits \in Nat

VARIABLES
    prog,        \* the body of every function
    pc,          \* the pass that comes next
    index,       \* fn_index
    chunks,      \* compiled functions
    callees,     \* what the inliner copies
    table,       \* the function table of the result
    relocs,      \* external_call_relocations
    snapshot,    \* function units of this build
    cache,       \* function units of the last stored build
    edits

tableVars == <<prog, pc, index, chunks, callees, table, relocs, snapshot, cache, edits>>

Phases == {"edited", "generate", "capture", "inline", "eliminate", "compact", "done", "failed"}

Programs == {p \in [Functions -> UNION Range(Bodies)] : \A f \in Functions : p[f] \in Bodies[f]}

Resolve(name) == IF name \in Aliases THEN AliasOf[name] ELSE name

Takes(body, kinds) == {k \in DOMAIN body.takes : body.takes[k].kind \in kinds}
-----------------------------------------------------------------------------
(* Which functions are compiled, and where they are in the table *)

\* Dependency edges.  Coercing a value to a trait object makes none.
Edges(f) ==
    {Resolve(prog[f].calls[k]) : k \in DOMAIN prog[f].calls} \union
      {Resolve(prog[f].takes[k].to) : k \in Takes(prog[f], Kinds \ {"vtable"})}

\* The least set with S that is closed under the edges.
Closure(S) ==
    {f \in Functions :
       \A T \in SUBSET Functions :
          S \subseteq T /\ (\A g \in T : Edges(g) \subseteq T) => f \in T}

Live == Closure(Roots)

Candidates == {f \in Small : f \notin Closure(Edges(f))}

Position(f) == CHOOSE n \in DOMAIN Items : Items[n] = f

\* How many members of S come before it.
Rank(n, S) == Cardinality({m \in S : m < n})

AssignIndices ==
    /\ pc = "edited" /\ pc' = "generate"
    /\ LET live == Live IN
         index' = [name \in {name \in Names : Resolve(name) \in live} |->
                     Rank(Position(Resolve(name)), {Position(f) : f \in live})]
    /\ UNCHANGED <<prog, chunks, callees, table, relocs, snapshot, cache, edits>>
-----------------------------------------------------------------------------
(* Code generation *)

InTable == Functions \intersect DOMAIN index

\* A function, a forwarder to one, an export's adapter or a closure.
Function(f) == <<"function", f>>
Forwarder(f) == <<"forwarder", f>>
Adapter(f) == <<"adapter", f, index[f]>>
ClosureIn(f, k) == <<"closure", f, k>>

\* The target is kept beside the index: what the source says the call is to.
CallBy(name) == [idx |-> index[name], to |-> Resolve(name)]

\* Only the calls and the addresses taken are kept of the instructions.
Chunk(name, code, addresses) == [name |-> name, code |-> code, addresses |-> addresses]

TakenAddress(f, k) ==
    LET take == prog[f].takes[k]  to == Resolve(take.to) IN
    CASE take.kind = "value" -> Forwarder(to)
      [] take.kind = "callback" -> Adapter(to)
      [] take.kind = "closure" -> ClosureIn(f, k)
      [] take.kind = "vtable" -> Function(to)

Compiled(f) ==
    Chunk(Function(f), [k \in DOMAIN prog[f].calls |-> CallBy(prog[f].calls[k])],
          {TakenAddress(f, k) : k \in DOMAIN prog[f].takes})

\* Forwarders and closures are compiled with the function that uses them.
Companions(f) ==
    {Chunk(TakenAddress(f, k), <<CallBy(prog[f].takes[k].to)>>, {}) : k \in Takes(prog[f], {"value", "closure"})}

Adapters(f) ==
    IF f \in Exports THEN {Chunk(Adapter(f), <<CallBy(f)>>, {})} ELSE {}

Fresh(f) ==
    (IF f \in Bodiless THEN {} ELSE {Compiled(f)} \union Companions(f)) \union Adapters(f)

\* A source file is the bodies of its functions; its hash stands for them.
Source(f) ==
    [g \in {g \in Functions : SourceOf[g] = SourceOf[f]} |-> prog[g]]

\* Mutant: the source's hash is not compared.
RestorableByName(unit, f) ==
    /\ unit.name = Function(f)
    /\ \A k \in DOMAIN unit.calls : unit.calls[k] \in DOMAIN index

RestorableFrom(unit, f) ==
    /\ unit.name = Function(f) /\ unit.source = Source(f)
    /\ \A k \in DOMAIN unit.calls : unit.calls[k] \in DOMAIN index

\* Mutant: the calls are left as they were stored.
RestoredAsStored(unit) == Chunk(unit.name, unit.calls, unit.addresses)

\* restore_codegen_unit looks every call up in the new table.
RestoredUnit(unit) ==
    Chunk(unit.name, [k \in DOMAIN unit.calls |-> CallBy(unit.calls[k])], unit.addresses)

Generated(f) ==
    LET units == {unit \in cache : RestorableFrom(unit, f)} IN
    IF units = {} THEN Fresh(f) ELSE {RestoredUnit(unit) : unit \in units} \union Adapters(f)

Generate ==
    /\ pc = "generate" /\ pc' = "capture"
    /\ chunks' = UNION {Generated(f) : f \in InTable}
    /\ UNCHANGED <<prog, index, callees, table, relocs, snapshot, cache, edits>>

\* Mutant: forwarders are overlooked.
NeedsClosures(c) == \E a \in c.addresses : a[1] = "closure"

\* A chunk that refers to companions cannot be restored without them.
NeedsCompanions(c) == \E a \in c.addresses : a[1] \in {"closure", "forwarder"}

\* The name a call is stored under: that of a chunk, or any if there is none.
NameOf(i, avoided) ==
    LET all == {name \in DOMAIN index : index[name] = i}
        chunked == {name \in all : \E c \in chunks : c.name = Function(name)}
        names == IF chunked = {} THEN all ELSE chunked
    IN
    CHOOSE name \in names : names \subseteq avoided \/ name \notin avoided

UnitOf(c, avoided) ==
    [name |-> c.name, source |-> Source(c.name[2]), addresses |-> c.addresses,
     calls |-> [k \in DOMAIN c.code |-> NameOf(c.code[k].idx, avoided)]]

Capture ==
    /\ pc = "capture" /\ pc' = "inline"
    /\ \E avoided \in SUBSET (Bodiless \union Aliases) :
         snapshot' = {UnitOf(c, avoided) : c \in {c \in chunks :
                        c.name[1] = "function" /\ ~ NeedsCompanions(c)}}
    /\ callees' = {c \in chunks : c.name[1] = "function" /\ c.name[2] \in Candidates}
    /\ UNCHANGED <<prog, index, chunks, table, relocs, cache, edits>>
-----------------------------------------------------------------------------
(* Whole-program passes *)

\* Mutant: the last instruction of the callee is taken for its return.
InlineCallCutShort ==
    /\ pc = "inline"
    /\ \E c \in chunks, callee \in callees : \E k \in DOMAIN c.code :
         /\ c.code[k].idx = index[callee.name[2]] /\ callee.code # <<>>
         /\ chunks' = (chunks \ {c}) \union
              {Chunk(c.name, ReplaceSubSeqAt(k, Front(callee.code), <<c.code[k]>>, c.code),
                     c.addresses \union callee.addresses)}
    /\ UNCHANGED <<prog, pc, index, callees, table, relocs, snapshot, cache, edits>>

\* A call is replaced by the body of its callee.  The code may decline any call:
\* for jumps, large results, and too many registers or constants.
InlineCall ==
    /\ pc = "inline"
    /\ \E c \in chunks, callee \in callees : \E k \in DOMAIN c.code :
         /\ c.code[k].idx = index[callee.name[2]]
         /\ chunks' = (chunks \ {c}) \union
              {Chunk(c.name, ReplaceSubSeqAt(k, callee.code, <<c.code[k]>>, c.code),
                     c.addresses \union callee.addresses)}
    /\ UNCHANGED <<prog, pc, index, callees, table, relocs, snapshot, cache, edits>>

EndInlining ==
    /\ pc = "inline" /\ pc' = "eliminate"
    /\ UNCHANGED <<prog, index, chunks, callees, table, relocs, snapshot, cache, edits>>

Inlined == {c.name[2] : c \in callees}

Called == UNION {{c.code[k].idx : k \in DOMAIN c.code} : c \in chunks}

\* Mutant: functions move and calls do not follow.
RenumberNothing(c, new) == c

Renumber(c, new) ==
    [c EXCEPT !.code = [k \in DOMAIN c.code |->
        [c.code[k] EXCEPT !.idx = IF @ \in DOMAIN new THEN new[@] ELSE @]]]

\* Without holes, in the order they had.
Dense(S) == [i \in S |-> Rank(i, S)]

\* Inlined functions that nothing calls any more go; the rest move up.
Eliminate ==
    /\ pc = "eliminate" /\ pc' = "compact"
    /\ LET dead == {index[f] : f \in Inlined} \ Called
           kept == {name \in DOMAIN index : index[name] \notin dead}
           new == Dense({index[name] : name \in kept})
       IN
         /\ index' = [name \in kept |-> new[index[name]]]
         /\ chunks' = {Renumber(c, new) : c \in
                         {c \in chunks : c.name[1] = "function" => c.name[2] \in kept}}
    /\ UNCHANGED <<prog, callees, table, relocs, snapshot, cache, edits>>

Placed == {c \in chunks : c.name[1] = "function"}

\* Each function goes to its index, less the holes left by functions without
\* code; calls to those become relocations by name.
Compact ==
    /\ pc = "compact"
    /\ LET filled == {index[c.name[2]] : c \in Placed}
           external == Called \ filled
           new == [i \in Called \union filled |-> IF i \in filled THEN Rank(i, filled) ELSE 0]
       IN
         IF Cardinality(Placed) # Cardinality(filled) \/ ~ external \subseteq Range(index)
           THEN pc' = "failed" /\ UNCHANGED <<index, chunks, table, relocs, cache>>
           ELSE
             /\ pc' = "done"
             /\ index' = [name \in {name \in DOMAIN index : index[name] \in filled} |->
                            new[index[name]]]
             /\ chunks' = {Renumber(c, new) : c \in chunks}
             /\ table' = [i \in 1..Cardinality(filled) |->
                            (CHOOSE c \in Placed : new[index[c.name[2]]] = i - 1).name]
             /\ \E symbol \in [external -> DOMAIN index] :
                  /\ \A i \in external : index[symbol[i]] = i
                  /\ relocs' = UNION {{[caller |-> c.name, at |-> k, symbol |-> symbol[c.code[k].idx]] :
                                         k \in {k \in DOMAIN c.code : c.code[k].idx \in external}} :
                                        c \in chunks}
             /\ cache' = snapshot
    /\ UNCHANGED <<prog, callees, snapshot, edits>>
-----------------------------------------------------------------------------
Pass == AssignIndices \/ Generate \/ Capture \/ InlineCall \/ EndInlining \/ Eliminate \/ Compact

\* The next process starts with the cache alone.
EditBody(f, body) ==
    /\ pc = "done" /\ edits < MaxEdits
    /\ prog' = [prog EXCEPT ![f] = body]
    /\ edits' = edits + 1
    /\ pc' = "edited"
    /\ index' = [name \in {} |-> 0] /\ chunks' = {} /\ callees' = {}
    /\ table' = <<>> /\ relocs' = {} /\ snapshot' = {}
    /\ UNCHANGED cache

TableInit ==
    /\ prog \in Programs
    /\ pc = "edited"
    /\ index = [name \in {} |-> 0] /\ chunks = {} /\ callees = {}
    /\ table = <<>> /\ relocs = {} /\ snapshot = {} /\ cache = {}
    /\ edits = 0

TableNext ==
    \/ Pass
    \/ \E f \in Functions : \E body \in Bodies[f] \ {prog[f]} : EditBody(f, body)

TableSpec == TableInit /\ [][TableNext]_tableVars
-----------------------------------------------------------------------------
(* Properties *)

Label == {<<kind, f>> : kind \in {"function", "forwarder"}, f \in Functions}
           \union {<<"adapter", f, i>> : f \in Exports, i \in 0..Len(Items)}
           \union UNION {{ClosureIn(f, k) : k \in DOMAIN body.takes} :
                           f \in Functions, body \in UNION Range(Bodies)}

Instruction == [idx : 0..Len(Items), to : Functions]

TableTypeOK ==
    /\ prog \in Programs /\ pc \in Phases /\ edits \in 0..MaxEdits
    /\ DOMAIN index \subseteq Names /\ Range(index) \subseteq 0..Len(Items)
    /\ \A c \in chunks \union callees :
         /\ c.name \in Label /\ c.addresses \subseteq Label
         /\ Range(c.code) \subseteq Instruction
    /\ \A unit \in snapshot \union cache :
         Range(unit.calls) \subseteq Names /\ unit.name \in Label

\* Through every pass, a call's index denotes the function the source calls; in
\* the result that is the function placed at that index, or the relocated symbol.
\* No pass meets a call to an index it does not know.
CallsFindTheirFunction ==
  /\ pc # "failed"
  /\ \A c \in chunks : \A k \in DOMAIN c.code :
        LET call == c.code[k]
            relocated == {r \in relocs : r.caller = c.name /\ r.at = k}
        IN
        IF pc = "done"
          THEN IF relocated = {}
                 THEN table[call.idx + 1] = Function(call.to)
                 ELSE \A r \in relocated : Resolve(r.symbol) = call.to
          ELSE call.to \in DOMAIN index /\ index[call.to] = call.idx

\* Every address a function of the result takes is that of code in the result,
\* or of a function of a dependency.
AddressesExist ==
    pc = "done" => \A c \in chunks : \A a \in c.addresses :
        \/ \E d \in chunks : d.name = a
        \/ \E f \in Bodiless : a = Function(f)

\* What is restored and what is compiled make the chunks of a full compilation.
PartialIsFull ==
    pc = "capture" => chunks = UNION {Fresh(f) : f \in InTable}

CalledBy(f) == {Resolve(prog[f].calls[k]) : k \in DOMAIN prog[f].calls}

\* A function's code still makes its own calls, less those replaced by the calls
\* of functions that may be inlined.
InliningKeepsCalls ==
    pc \in {"inline", "eliminate", "compact", "done"} =>
        \A c \in Placed :
            LET calls == {c.code[k].to : k \in DOMAIN c.code} f == c.name[2] IN
            \E inlined \in SUBSET Inlined :
                calls \union inlined
                  = inlined \union UNION {CalledBy(g) : g \in {f} \union inlined}

\* Through every pass of compile_program a call reaches the function its source
\* names, and inlining loses none.
CallsReachTheirFunction == CallsFindTheirFunction /\ InliningKeepsCalls
=============================================================================
