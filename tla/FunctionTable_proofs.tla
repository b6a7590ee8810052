------------------------ MODULE FunctionTable_proofs -------------------------
(***************************************************************************)
(* Theorems about module FunctionTable, for any program, any cache and any *)
(* number of partial builds: every call reaches the function its source    *)
(* names, and a partial build generates the chunks of a full one.          *)
(***************************************************************************)
EXTENDS FunctionTable, FiniteSetTheorems, SequenceTheorems, TLAPS

-----------------------------------------------------------------------------
(* Names, bodies and reachability. *)

\* A name stands for one function, a function for itself.
LEMMA ResolveGives ==
    ASSUME TableParameters
    PROVE  /\ \A a \in Names : Resolve(a) \in Functions
           /\ \A f \in Functions : Resolve(f) = f /\ f \in Names
  BY DEF TableParameters, Resolve, Names, Aliases, Range

LEMMA BodyGives ==
    ASSUME TableParameters, prog \in Programs, NEW f \in Functions
    PROVE  /\ prog[f] \in Bodies[f] /\ prog[f] \in UNION Range(Bodies)
           /\ prog[f].calls \in Seq(Names) /\ prog[f].takes \in Seq(Reference)
           /\ \A k \in DOMAIN prog[f].takes : prog[f].takes[k].kind = "callback" => prog[f].takes[k].to \in Exports
           /\ f \in Bodiless => prog[f].calls = <<>> /\ prog[f].takes = <<>>
<1>1. prog[f] \in Bodies[f] /\ Bodies[f] \in SUBSET Body
  BY DEF Programs, TableParameters
<1>2. Bodies[f] \in Range(Bodies)
  BY DEF TableParameters, Range
<1>3. prog[f] \in Body
  BY <1>1
<1> QED
  BY <1>1, <1>2, <1>3 DEF TableParameters, Body

LEMMA TakeGives ==
    ASSUME TableParameters, prog \in Programs, NEW f \in Functions, NEW k \in DOMAIN prog[f].takes
    PROVE  prog[f].takes[k].kind \in Kinds /\ prog[f].takes[k].to \in Names
<1>1. prog[f].takes[k] \in Reference
  BY BodyGives
<1> QED
  BY <1>1 DEF Reference

LEMMA EdgesGive ==
    ASSUME TableParameters, prog \in Programs, NEW f \in Functions
    PROVE  /\ Edges(f) \subseteq Functions
           /\ \A k \in DOMAIN prog[f].calls : Resolve(prog[f].calls[k]) \in Edges(f)
           /\ \A k \in DOMAIN prog[f].takes :
                prog[f].takes[k].kind # "vtable" => Resolve(prog[f].takes[k].to) \in Edges(f)
<1>1. \A k \in DOMAIN prog[f].calls : prog[f].calls[k] \in Names
  BY BodyGives
<1>2. \A k \in DOMAIN prog[f].takes : prog[f].takes[k].kind \in Kinds /\ prog[f].takes[k].to \in Names
  BY TakeGives
<1> QED
  BY <1>1, <1>2, ResolveGives DEF Edges, Takes

\* What is reachable is closed under the edges.
LEMMA ClosureGives ==
    ASSUME TableParameters, prog \in Programs, NEW S
    PROVE  Closure(S) \subseteq Functions /\ \A f \in Closure(S) : Edges(f) \subseteq Closure(S)
  BY EdgesGive DEF Closure

LEMMA PositionGives ==
    ASSUME NEW f \in Functions
    PROVE  Position(f) \in DOMAIN Items /\ Items[Position(f)] = f
  BY DEF Functions, Range, Position

-----------------------------------------------------------------------------
(* Ranks. *)

LEMMA RankType ==
    ASSUME NEW S \in SUBSET Nat, IsFiniteSet(S), NEW i \in Nat
    PROVE  /\ {m \in S : m < i} \in SUBSET S /\ IsFiniteSet({m \in S : m < i})
           /\ Rank(i, S) \in Nat /\ Cardinality(S) \in Nat /\ Rank(i, S) <= Cardinality(S)
<1>1. {m \in S : m < i} \in SUBSET S
  OBVIOUS
<1>2. IsFiniteSet({m \in S : m < i}) /\ Cardinality({m \in S : m < i}) <= Cardinality(S)
  BY <1>1, FS_Subset
<1>3. Cardinality({m \in S : m < i}) \in Nat /\ Cardinality(S) \in Nat
  BY <1>2, FS_CardinalityType
<1> QED
  BY <1>1, <1>2, <1>3 DEF Rank

\* A member of S comes before fewer than all of them.
LEMMA RankIsBelow ==
    ASSUME NEW S \in SUBSET Nat, IsFiniteSet(S), NEW i \in S
    PROVE  Rank(i, S) < Cardinality(S)
<1>1. i \in Nat /\ i \notin {m \in S : m < i}
  OBVIOUS
<1>2. Cardinality({m \in S : m < i}) # Cardinality(S)
  BY <1>1, RankType, FS_Subset
<1> QED
  BY <1>1, <1>2, RankType DEF Rank

LEMMA RankGrows ==
    ASSUME NEW S \in SUBSET Nat, IsFiniteSet(S), NEW i \in S, NEW j \in Nat, i < j
    PROVE  Rank(i, S) < Rank(j, S)
<1> DEFINE T == {m \in S : m < j}
<1>1. T \in SUBSET Nat /\ IsFiniteSet(T) /\ i \in T /\ i \in Nat
  BY RankType
<1>2. {m \in T : m < i} = {m \in S : m < i}
  <2>1. \A m \in S : m < i => m < j
    BY <1>1
  <2> QED
    BY <2>1
<1>3. Rank(i, T) < Cardinality(T)
  BY <1>1, RankIsBelow
<1> QED
  BY <1>2, <1>3 DEF Rank

\* Different members have different ranks.
LEMMA RankIsInjective ==
    ASSUME NEW S \in SUBSET Nat, IsFiniteSet(S), NEW i \in S, NEW j \in S, Rank(i, S) = Rank(j, S)
    PROVE  i = j
<1>1. i \in Nat /\ j \in Nat /\ Rank(i, S) \in Nat
  BY RankType
<1>2. ~ (i < j) /\ ~ (j < i)
  BY <1>1, RankGrows
<1> QED
  BY <1>1, <1>2

LEMMA IntervalsAreFinite ==
    ASSUME NEW n \in Nat, NEW S \in SUBSET (0..n)
    PROVE  S \in SUBSET Nat /\ IsFiniteSet(S) /\ Cardinality(S) <= n + 1
<1>1. IsFiniteSet(0..n) /\ Cardinality(0..n) = n + 1
  BY FS_Interval
<1>2. IsFiniteSet(S) /\ Cardinality(S) <= Cardinality(0..n)
  BY <1>1, FS_Subset
<1> QED
  BY <1>1, <1>2

-----------------------------------------------------------------------------
(***************************************************************************)
(* The inductive invariant behind CallsReachTheirFunction: the index maps  *)
(* exactly the names of one function to one number; every call in a chunk  *)
(* holds the number of its function; and a name denotes one chunk.         *)
(***************************************************************************)

IndexInv ==
    /\ DOMAIN index \subseteq Names /\ \A a \in DOMAIN index : index[a] \in 0..Len(Items)
    /\ \A a \in DOMAIN index : Resolve(a) \in DOMAIN index /\ index[Resolve(a)] = index[a]
    /\ \A a, b \in DOMAIN index : index[a] = index[b] => Resolve(a) = Resolve(b)

\* What an indexed function refers to is indexed, under all its names.
LiveInv ==
    pc = "generate" =>
        /\ \A a \in Names : Resolve(a) \in DOMAIN index => a \in DOMAIN index
        /\ \A f \in InTable : Edges(f) \subseteq DOMAIN index

Known(c) == \A k \in DOMAIN c.code : c.code[k].to \in DOMAIN index /\ index[c.code[k].to] = c.code[k].idx

\* A function's chunk is named by the function, which is in the index.
Named(c) == c.name[1] = "function" => \E f \in Functions \intersect DOMAIN index : c.name = Function(f)

IsChunk(c) ==
    /\ c = Chunk(c.name, c.code, c.addresses)
    /\ c.name \in Label /\ c.code \in Seq(Instruction) /\ c.addresses \in SUBSET Label

Distinct(S) == \A c, d \in S : c.name = d.name => c = d

ChunksInv ==
    /\ \A c \in chunks \union callees : IsChunk(c)
    /\ Distinct(chunks)
    /\ pc \in {"edited", "generate"} => chunks = {} /\ callees = {}
    /\ pc \in Phases \ {"done", "failed"} => \A c \in chunks : Known(c) /\ Named(c)
    /\ pc = "inline" => \A c \in callees : Known(c)

IsUnit(unit) ==
    /\ unit.calls \in Seq(Names) /\ unit.addresses \in SUBSET Label
    /\ \E f \in Functions : unit.name = Function(f)

UnitsInv == /\ \A unit \in snapshot \union cache : IsUnit(unit)
            /\ Distinct(snapshot) /\ Distinct(cache)

Placements == prog \in Programs /\ pc \in Phases /\ edits \in 0..MaxEdits

TableInv == Placements /\ IndexInv /\ LiveInv /\ ChunksInv /\ UnitsInv /\ CallsFindTheirFunction

LEMMA ChunkGives ==
    ASSUME NEW name, NEW code, NEW addresses
    PROVE  /\ Chunk(name, code, addresses).name = name /\ Chunk(name, code, addresses).code = code
           /\ Chunk(name, code, addresses).addresses = addresses
  BY DEF Chunk

LEMMA FunctionGives ==
    ASSUME NEW f
    PROVE  /\ Function(f)[1] = "function" /\ Function(f)[2] = f
           /\ \A g : Function(f) = Function(g) => f = g
  BY DEF Function

LEMMA LabelGives ==
    ASSUME NEW f \in Functions
    PROVE  Function(f) \in Label /\ Forwarder(f) \in Label
  BY DEF Label, Function, Forwarder

LEMMA ClosureLabel ==
    ASSUME NEW f \in Functions, NEW body \in UNION Range(Bodies), NEW k \in DOMAIN body.takes
    PROVE  ClosureIn(f, k) \in Label
<1> DEFINE Of(g, b) == {ClosureIn(g, n) : n \in DOMAIN b.takes}
           All == {Of(g, b) : g \in Functions, b \in UNION Range(Bodies)}
<1>1. ClosureIn(f, k) \in Of(f, body) /\ Of(f, body) \in All
  OBVIOUS
<1>2. UNION All \subseteq Label
  BY DEF Label
<1> HIDE DEF Of, All
<1> QED
  BY <1>1, <1>2

\* Calls by a name in the index.
LEMMA CallGives ==
    ASSUME TableParameters, IndexInv, NEW a \in DOMAIN index
    PROVE  /\ CallBy(a) \in Instruction /\ CallBy(a).to = Resolve(a) /\ CallBy(a).idx = index[a]
           /\ CallBy(a).to \in DOMAIN index /\ index[CallBy(a).to] = CallBy(a).idx
<1>1. index[a] \in 0..Len(Items) /\ Resolve(a) \in Functions /\ Resolve(a) \in DOMAIN index /\ index[Resolve(a)] = index[a]
  BY ResolveGives DEF IndexInv
<1> QED
  BY <1>1 DEF CallBy, Instruction

LEMMA TypesFollow == ASSUME TableInv PROVE TableTypeOK
<1>1. \A c \in chunks \union callees : c.name \in Label /\ c.addresses \subseteq Label /\ Range(c.code) \subseteq Instruction
  BY DEF TableInv, ChunksInv, IsChunk, Range
<1>2. \A unit \in snapshot \union cache : Range(unit.calls) \subseteq Names /\ unit.name \in Label
  BY LabelGives DEF TableInv, UnitsInv, IsUnit, Range
<1>3. DOMAIN index \subseteq Names /\ Range(index) \subseteq 0..Len(Items)
  BY DEF TableInv, IndexInv, Range
<1> QED
  BY <1>1, <1>2, <1>3 DEF TableInv, Placements, TableTypeOK

\* In every phase but the last, CallsReachTheirFunction follows from Known.
LEMMA KnownReach ==
    ASSUME pc \notin {"done", "failed"}, \A c \in chunks : Known(c)
    PROVE  CallsFindTheirFunction
  BY DEF CallsFindTheirFunction, Known

-----------------------------------------------------------------------------
(* Each pass keeps the invariant. *)

LEMMA InitTable == ASSUME TableParameters, TableInit PROVE TableInv
<1>1. pc = "edited" /\ prog \in Programs /\ chunks = {} /\ callees = {} /\ snapshot = {} /\ cache = {} /\ edits = 0
      /\ DOMAIN index = {}
  BY DEF TableInit
<1>2. MaxEdits \in Nat
  BY DEF TableParameters
<1>3. Placements /\ IndexInv /\ LiveInv
  BY <1>1, <1>2 DEF Placements, Phases, IndexInv, LiveInv
<1>4. ChunksInv /\ UnitsInv
  BY <1>1 DEF ChunksInv, UnitsInv, Distinct
<1>5. CallsFindTheirFunction
  BY <1>1, KnownReach
<1> QED
  BY <1>3, <1>4, <1>5 DEF TableInv

LEMMA EditTable ==
    ASSUME TableParameters, TableInv, NEW f \in Functions, NEW body \in Bodies[f], EditBody(f, body)
    PROVE  TableInv'
<1>1. pc' = "edited" /\ chunks' = {} /\ callees' = {} /\ snapshot' = {} /\ cache' = cache /\ DOMAIN index' = {}
      /\ edits' = edits + 1 /\ edits < MaxEdits /\ prog' = [prog EXCEPT ![f] = body]
  BY DEF EditBody
<1>2. prog' \in Programs
  <2>1. body \in UNION Range(Bodies)
    BY DEF TableParameters, Range
  <2> QED
    BY <1>1, <2>1 DEF TableInv, Placements, Programs
<1>3. edits' \in 0..MaxEdits
  BY <1>1 DEF TableInv, Placements, TableParameters
<1>4. Placements' /\ IndexInv' /\ LiveInv'
  BY <1>1, <1>2, <1>3 DEF Placements, Phases, IndexInv, LiveInv
<1>5. ChunksInv' /\ UnitsInv'
  BY <1>1 DEF ChunksInv, UnitsInv, Distinct, TableInv, IsUnit
<1>6. CallsFindTheirFunction'
  BY <1>1 DEF CallsFindTheirFunction
<1> QED
  BY <1>4, <1>5, <1>6 DEF TableInv

\* Live functions get the places they have among each other.
LEMMA AssignTable == ASSUME TableParameters, TableInv, AssignIndices PROVE TableInv'
<1> DEFINE live == Live
           S == {Position(f) : f \in live}
<1>1. /\ pc = "edited" /\ pc' = "generate" /\ chunks = {} /\ callees = {}
      /\ UNCHANGED <<prog, chunks, callees, snapshot, cache, edits>>
      /\ index' = [a \in {a \in Names : Resolve(a) \in live} |-> Rank(Position(Resolve(a)), S)]
  BY DEF AssignIndices, TableInv, ChunksInv
<1>2. live \subseteq Functions /\ \A f \in live : Edges(f) \subseteq live
  BY ClosureGives DEF Live, TableInv, Placements
<1> HIDE DEF live
<1>3. /\ Len(Items) \in Nat /\ S \in SUBSET (0..Len(Items)) /\ 0 \notin S
      /\ \A f \in live : Position(f) \in S
      /\ \A f, g \in live : Position(f) = Position(g) => f = g
  <2>1. Items \in Seq(Functions) /\ DOMAIN Items = 1..Len(Items) /\ Len(Items) \in Nat
    BY DEF TableParameters
  <2>2. \A f \in live : Position(f) \in 1..Len(Items) /\ Items[Position(f)] = f
    BY <1>2, <2>1, PositionGives
  <2> QED
    BY <2>1, <2>2
<1>4. S \in SUBSET Nat /\ IsFiniteSet(S) /\ Cardinality(S) <= Len(Items) /\ Cardinality(S) \in Nat
  <2>1. S \in SUBSET (1..Len(Items)) /\ Len(Items) \in Nat
    BY <1>3
  <2>2. IsFiniteSet(1..Len(Items)) /\ Cardinality(1..Len(Items)) = Len(Items)
    <3>1. 1 \in Int /\ Len(Items) \in Int
      BY <2>1
    <3>2. /\ IsFiniteSet(1..Len(Items))
          /\ Cardinality(1..Len(Items)) = IF 1 > Len(Items) THEN 0 ELSE Len(Items) - 1 + 1
      BY <3>1, FS_Interval
    <3> QED
      BY <2>1, <3>2
  <2>3. IsFiniteSet(S) /\ Cardinality(S) <= Len(Items)
    BY <2>1, <2>2, FS_Subset
  <2> QED
    BY <2>1, <2>3, FS_CardinalityType
<1> HIDE DEF S
<1>5. \A a \in Names : Resolve(a) \in Functions /\ Resolve(Resolve(a)) = Resolve(a) /\ Resolve(a) \in Names
  BY ResolveGives
<1>6. IndexInv'
  <2>1. DOMAIN index' = {a \in Names : Resolve(a) \in live}
    BY <1>1
  <2>2. \A a \in DOMAIN index' : index'[a] = Rank(Position(Resolve(a)), S) /\ Position(Resolve(a)) \in S
    BY <1>1, <1>3
  <2>3. \A a \in DOMAIN index' : index'[a] \in 0..Len(Items)
    <3> TAKE a \in DOMAIN index'
    <3>1. Rank(Position(Resolve(a)), S) \in Nat /\ Rank(Position(Resolve(a)), S) <= Cardinality(S)
      BY <1>4, <2>2, RankType
    <3> QED
      BY <1>3, <1>4, <2>2, <3>1
  <2>4. \A a \in DOMAIN index' : Resolve(a) \in DOMAIN index' /\ index'[Resolve(a)] = index'[a]
    BY <1>5, <2>1, <2>2
  <2>5. \A a, b \in DOMAIN index' : index'[a] = index'[b] => Resolve(a) = Resolve(b)
    <3> TAKE a, b \in DOMAIN index'
    <3> HAVE index'[a] = index'[b]
    <3>1. Position(Resolve(a)) = Position(Resolve(b))
      BY <1>4, <2>2, RankIsInjective
    <3> QED
      BY <1>3, <2>1, <3>1
  <2> QED
    BY <2>1, <2>3, <2>4, <2>5 DEF IndexInv
<1>7. LiveInv'
  <2>1. DOMAIN index' = {a \in Names : Resolve(a) \in live}
    BY <1>1
  <2>2. \A f \in Functions \intersect DOMAIN index' : f \in live
    BY <2>1, ResolveGives
  <2>3. \A f \in live : f \in DOMAIN index'
    BY <1>2, <2>1, ResolveGives
  <2>4. \A f \in Functions \intersect DOMAIN index' : Edges(f) \subseteq DOMAIN index'
    BY <1>2, <2>2, <2>3
  <2>5. \A a \in Names : Resolve(a) \in DOMAIN index' => a \in DOMAIN index'
    BY <1>5, <2>1
  <2> QED
    BY <1>1, <2>4, <2>5 DEF LiveInv, InTable, Edges, Takes
<1>8. Placements' /\ ChunksInv' /\ UnitsInv'
  BY <1>1 DEF TableInv, Placements, Phases, ChunksInv, UnitsInv, Distinct, IsUnit
<1>9. CallsFindTheirFunction'
  BY <1>1 DEF CallsFindTheirFunction
<1> QED
  BY <1>6, <1>7, <1>8, <1>9 DEF TableInv

-----------------------------------------------------------------------------
(* Generation: what each chunk looks like when it is made. *)

IsForwarder(c) == \E t \in InTable : c = Chunk(Forwarder(t), <<[idx |-> index[t], to |-> t]>>, {})

IsAdapter(c) == \E t \in InTable \intersect Exports : c = Chunk(Adapter(t), <<CallBy(t)>>, {})

IsClosure(c) ==
    \E f \in InTable : \E k \in DOMAIN prog[f].takes :
        c = Chunk(ClosureIn(f, k), <<CallBy(prog[f].takes[k].to)>>, {})

Units(f) == {unit \in cache : RestorableFrom(unit, f)}

IsBody(c, f) ==
    \/ Units(f) = {} /\ f \notin Bodiless /\ c = Compiled(f)
    \/ \E unit \in Units(f) : c = RestoredUnit(unit)

\* The name an address or a call refers to is in the index.
LEMMA ReferencesAreIndexed ==
    ASSUME TableParameters, TableInv, pc = "generate", NEW f \in InTable
    PROVE  /\ \A k \in DOMAIN prog[f].calls : prog[f].calls[k] \in DOMAIN index
           /\ \A k \in DOMAIN prog[f].takes :
                prog[f].takes[k].kind # "vtable" => prog[f].takes[k].to \in DOMAIN index
<1>1. f \in Functions /\ prog \in Programs /\ Edges(f) \subseteq DOMAIN index
      /\ \A a \in Names : Resolve(a) \in DOMAIN index => a \in DOMAIN index
  BY DEF InTable, TableInv, LiveInv, Placements
<1>2. \A k \in DOMAIN prog[f].calls : prog[f].calls[k] \in Names
  BY <1>1, BodyGives
<1>3. \A k \in DOMAIN prog[f].takes : prog[f].takes[k].to \in Names
  BY <1>1, TakeGives
<1> QED
  BY <1>1, <1>2, <1>3, EdgesGive

\* One address of a body.
LEMMA AddressGives ==
    ASSUME TableParameters, TableInv, pc = "generate", NEW f \in InTable, NEW k \in DOMAIN prog[f].takes
    PROVE  /\ TakenAddress(f, k) \in Label
           /\ prog[f].takes[k].kind = "value" => TakenAddress(f, k) = Forwarder(Resolve(prog[f].takes[k].to))
           /\ prog[f].takes[k].kind = "closure" => TakenAddress(f, k) = ClosureIn(f, k)
<1> DEFINE take == prog[f].takes[k]
           to == Resolve(take.to)
<1>1. f \in Functions /\ prog \in Programs /\ IndexInv
  BY DEF InTable, TableInv, Placements
<1>2. take.kind \in Kinds /\ take.to \in Names /\ to \in Functions
  BY <1>1, TakeGives, ResolveGives
<1>3. take.kind = "callback" => to \in Exports /\ index[to] \in 0..Len(Items)
  <2> HAVE take.kind = "callback"
  <2>1. take.to \in Exports /\ take.to \in DOMAIN index
    BY <1>1, BodyGives, ReferencesAreIndexed
  <2>2. take.to \in Functions /\ to = take.to
    BY <2>1, ResolveGives DEF TableParameters
  <2> QED
    BY <1>1, <2>1, <2>2 DEF IndexInv
<1>4. prog[f] \in UNION Range(Bodies)
  BY <1>1, BodyGives
<1>5. ClosureIn(f, k) \in Label
  BY <1>1, <1>4, ClosureLabel
<1>6. take.kind = "callback" => Adapter(to) \in Label
  BY <1>3 DEF Adapter, Label
<1>7. Function(to) \in Label /\ Forwarder(to) \in Label
  BY <1>2, LabelGives
<1>8. TakenAddress(f, k) = CASE take.kind = "value" -> Forwarder(to)
      [] take.kind = "callback" -> Adapter(to)
      [] take.kind = "closure" -> ClosureIn(f, k)
      [] take.kind = "vtable" -> Function(to)
  BY DEF TakenAddress
<1> HIDE DEF take, to
<1> QED
  BY <1>2, <1>5, <1>6, <1>7, <1>8 DEF Kinds, take, to

LEMMA ForwarderShape ==
    ASSUME TableParameters, TableInv, NEW c, IsForwarder(c)
    PROVE  IsChunk(c) /\ Known(c) /\ c.name[1] = "forwarder"
<1>1. PICK t \in InTable : c = Chunk(Forwarder(t), <<[idx |-> index[t], to |-> t]>>, {})
  BY DEF IsForwarder
<1>2. t \in Functions /\ t \in DOMAIN index /\ index[t] \in 0..Len(Items)
  BY DEF InTable, TableInv, IndexInv
<1>3. <<[idx |-> index[t], to |-> t]>> \in Seq(Instruction)
  BY <1>2 DEF Instruction
<1>4. IsChunk(c)
  BY <1>1, <1>2, <1>3, LabelGives DEF IsChunk, Chunk
<1>5. Known(c)
  BY <1>1, <1>2 DEF Known, Chunk
<1> QED
  BY <1>1, <1>4, <1>5 DEF Chunk, Forwarder

LEMMA AdapterShape ==
    ASSUME TableParameters, TableInv, NEW c, IsAdapter(c)
    PROVE  IsChunk(c) /\ Known(c) /\ c.name[1] = "adapter"
<1>1. PICK t \in InTable \intersect Exports : c = Chunk(Adapter(t), <<CallBy(t)>>, {})
  BY DEF IsAdapter
<1>2. t \in Functions /\ t \in DOMAIN index /\ index[t] \in 0..Len(Items) /\ IndexInv
  BY DEF InTable, TableInv, IndexInv
<1>3. CallBy(t) \in Instruction /\ CallBy(t).to \in DOMAIN index /\ index[CallBy(t).to] = CallBy(t).idx
  BY <1>2, CallGives
<1>4. Adapter(t) \in Label
  BY <1>2 DEF Adapter, Label
<1>5. IsChunk(c)
  BY <1>1, <1>3, <1>4 DEF IsChunk, Chunk
<1>6. Known(c)
  BY <1>1, <1>3 DEF Known, Chunk
<1> QED
  BY <1>1, <1>5, <1>6 DEF Chunk, Adapter

LEMMA ClosureShape ==
    ASSUME TableParameters, TableInv, NEW c, NEW f \in InTable, NEW k \in DOMAIN prog[f].takes,
           prog[f].takes[k].to \in DOMAIN index,
           c = Chunk(ClosureIn(f, k), <<CallBy(prog[f].takes[k].to)>>, {})
    PROVE  IsChunk(c) /\ Known(c) /\ c.name[1] = "closure"
<1> DEFINE call == CallBy(prog[f].takes[k].to)
<1>1. f \in Functions /\ prog \in Programs /\ IndexInv
  BY DEF InTable, TableInv, Placements
<1>2. call \in Instruction /\ call.to \in DOMAIN index /\ index[call.to] = call.idx
  BY <1>1, CallGives
<1>3. prog[f] \in UNION Range(Bodies)
  BY <1>1, BodyGives
<1>4. ClosureIn(f, k) \in Label
  BY <1>1, <1>3, ClosureLabel
<1> HIDE DEF call
<1>5. c = Chunk(ClosureIn(f, k), <<call>>, {})
  BY DEF call
<1>6. IsChunk(c)
  BY <1>2, <1>4, <1>5 DEF IsChunk, Chunk
<1>7. Known(c)
  BY <1>2, <1>5 DEF Known, Chunk
<1> QED
  BY <1>5, <1>6, <1>7 DEF Chunk, ClosureIn

\* A chunk that calls a list of names.
LEMMA CallsShape ==
    ASSUME TableParameters, IndexInv, NEW calls \in Seq(Names), \A k \in DOMAIN calls : calls[k] \in DOMAIN index,
           NEW name \in Label, NEW addresses \in SUBSET Label,
           NEW c, c = Chunk(name, [k \in DOMAIN calls |-> CallBy(calls[k])], addresses)
    PROVE  IsChunk(c) /\ Known(c) /\ c.name = name
<1> DEFINE code == [k \in DOMAIN calls |-> CallBy(calls[k])]
<1>1. \A k \in DOMAIN calls : /\ CallBy(calls[k]) \in Instruction
                              /\ CallBy(calls[k]).to \in DOMAIN index
                              /\ index[CallBy(calls[k]).to] = CallBy(calls[k]).idx
  BY CallGives
<1>2. DOMAIN calls = 1..Len(calls) /\ Len(calls) \in Nat
  OBVIOUS
<1>3. code \in [1..Len(calls) -> Instruction]
  BY <1>1, <1>2
<1>4. code \in Seq(Instruction)
  BY <1>2, <1>3
<1>5. \A k \in DOMAIN code : code[k].to \in DOMAIN index /\ index[code[k].to] = code[k].idx
  BY <1>1
<1> HIDE DEF code
<1>6. c = Chunk(name, code, addresses)
  BY DEF code
<1> QED
  BY <1>4, <1>5, <1>6 DEF Chunk, IsChunk, Known

LEMMA BodyShape ==
    ASSUME TableParameters, TableInv, pc = "generate", NEW f \in InTable, NEW c, IsBody(c, f)
    PROVE  IsChunk(c) /\ Known(c) /\ c.name = Function(f)
<1>1. f \in Functions /\ prog \in Programs /\ IndexInv /\ Function(f) \in Label
  BY LabelGives DEF InTable, TableInv, Placements
<1>2. CASE c = Compiled(f)
  <2>1. prog[f].calls \in Seq(Names) /\ \A k \in DOMAIN prog[f].calls : prog[f].calls[k] \in DOMAIN index
    BY <1>1, BodyGives, ReferencesAreIndexed
  <2>2. {TakenAddress(f, k) : k \in DOMAIN prog[f].takes} \in SUBSET Label
    BY AddressGives
  <2> QED
    BY <1>1, <1>2, <2>1, <2>2, CallsShape DEF Compiled
<1>3. ASSUME NEW unit \in Units(f), c = RestoredUnit(unit) PROVE IsChunk(c) /\ Known(c) /\ c.name = Function(f)
  <2>1. unit \in cache /\ unit.name = Function(f) /\ \A k \in DOMAIN unit.calls : unit.calls[k] \in DOMAIN index
    BY DEF Units, RestorableFrom
  <2>2. unit.calls \in Seq(Names) /\ unit.addresses \in SUBSET Label
    BY <2>1 DEF TableInv, UnitsInv, IsUnit
  <2> QED
    BY <1>1, <1>3, <2>1, <2>2, CallsShape DEF RestoredUnit
<1> QED
  BY <1>2, <1>3 DEF IsBody

\* Only one chunk can be made of a function's body.
LEMMA OneBody ==
    ASSUME TableInv, NEW f \in InTable, NEW c, NEW d, IsBody(c, f), IsBody(d, f)
    PROVE  c = d
<1>1. \A u, v \in Units(f) : u = v
  BY DEF Units, RestorableFrom, TableInv, UnitsInv, Distinct
<1> QED
  BY <1>1 DEF IsBody

LEMMA GeneratedShape ==
    ASSUME TableParameters, TableInv, pc = "generate", NEW f \in InTable, NEW c \in Generated(f)
    PROVE  \/ IsBody(c, f) \/ IsForwarder(c) \/ IsAdapter(c)
           \/ \E k \in DOMAIN prog[f].takes :
                /\ prog[f].takes[k].to \in DOMAIN index
                /\ c = Chunk(ClosureIn(f, k), <<CallBy(prog[f].takes[k].to)>>, {})
<1>1. f \in Functions /\ prog \in Programs /\ IndexInv
  BY DEF InTable, TableInv, Placements
<1>2. \/ Units(f) = {} /\ f \notin Bodiless /\ c = Compiled(f)
      \/ \E unit \in Units(f) : c = RestoredUnit(unit)
      \/ c \in Companions(f)
      \/ c \in Adapters(f)
  BY DEF Generated, Fresh, Units
<1>3. c \in Adapters(f) => IsAdapter(c)
  BY DEF Adapters, IsAdapter
<1>4. CASE c \in Companions(f)
  <2>1. PICK k \in Takes(prog[f], {"value", "closure"}) : c = Chunk(TakenAddress(f, k), <<CallBy(prog[f].takes[k].to)>>, {})
    BY <1>4 DEF Companions
  <2> DEFINE take == prog[f].takes[k]
  <2>2. k \in DOMAIN prog[f].takes /\ take.kind \in {"value", "closure"}
    BY DEF Takes
  <2>3. take.to \in DOMAIN index
    BY <2>2, ReferencesAreIndexed
  <2>4. CASE take.kind = "closure"
    BY <2>1, <2>2, <2>3, <2>4, AddressGives
  <2>5. CASE take.kind = "value"
    <3>1. TakenAddress(f, k) = Forwarder(Resolve(take.to))
      BY <2>2, <2>5, AddressGives
    <3>2. /\ Resolve(take.to) \in InTable /\ index[Resolve(take.to)] = index[take.to]
      BY <1>1, <2>2, <2>3, TakeGives, ResolveGives DEF IndexInv, InTable
    <3>3. CallBy(take.to) = [idx |-> index[Resolve(take.to)], to |-> Resolve(take.to)]
      BY <3>2 DEF CallBy
    <3>4. c = Chunk(Forwarder(Resolve(take.to)), <<[idx |-> index[Resolve(take.to)], to |-> Resolve(take.to)]>>, {})
      BY <2>1, <3>1, <3>3
    <3> QED
      BY <3>2, <3>4 DEF IsForwarder
  <2> QED
    BY <2>2, <2>4, <2>5
<1> QED
  BY <1>2, <1>3, <1>4 DEF IsBody

\* What is generated knows its calls, and a name denotes one chunk.
LEMMA GenerateTable == ASSUME TableParameters, TableInv, Generate PROVE TableInv'
<1>1. /\ pc = "generate" /\ pc' = "capture" /\ chunks' = UNION {Generated(f) : f \in InTable}
      /\ UNCHANGED <<prog, index, callees, table, relocs, snapshot, cache, edits>>
      /\ callees = {}
  BY DEF Generate, TableInv, ChunksInv
<1>2. ASSUME NEW c \in chunks'
      PROVE  \/ \E f \in InTable : IsBody(c, f)
             \/ IsForwarder(c) \/ IsAdapter(c) \/ IsClosure(c)
  <2>1. PICK f \in InTable : c \in Generated(f)
    BY <1>1
  <2> QED
    BY <1>1, <2>1, GeneratedShape DEF IsClosure
<1>3. ASSUME NEW c \in chunks', IsClosure(c), ~ IsForwarder(c), ~ IsAdapter(c), \A f \in InTable : ~ IsBody(c, f)
      PROVE  IsChunk(c) /\ Known(c) /\ c.name[1] = "closure"
  <2>1. PICK f \in InTable : c \in Generated(f)
    BY <1>1
  <2>2. PICK k \in DOMAIN prog[f].takes : /\ prog[f].takes[k].to \in DOMAIN index
                                          /\ c = Chunk(ClosureIn(f, k), <<CallBy(prog[f].takes[k].to)>>, {})
    BY <1>1, <1>3, <2>1, GeneratedShape
  <2> QED
    BY <2>2, ClosureShape
<1>4. ASSUME NEW c \in chunks' PROVE IsChunk(c) /\ Known(c) /\ Named(c)
  <2>1. CASE \E f \in InTable : IsBody(c, f)
    <3>1. PICK f \in InTable : IsBody(c, f)
      BY <2>1
    <3>2. IsChunk(c) /\ Known(c) /\ c.name = Function(f)
      BY <1>1, <3>1, BodyShape
    <3> QED
      BY <3>2 DEF Named, InTable
  <2>2. CASE IsForwarder(c)
    BY <2>2, ForwarderShape DEF Named
  <2>3. CASE IsAdapter(c)
    BY <2>3, AdapterShape DEF Named
  <2>4. CASE IsClosure(c) /\ ~ IsForwarder(c) /\ ~ IsAdapter(c) /\ \A f \in InTable : ~ IsBody(c, f)
    BY <2>4, <1>3 DEF Named
  <2> QED
    BY <1>2, <2>1, <2>2, <2>3, <2>4
<1>5. ASSUME NEW c \in chunks', NEW d \in chunks', c.name = d.name PROVE c = d
  <2> DEFINE Closed(e) == IsClosure(e) /\ ~ IsForwarder(e) /\ ~ IsAdapter(e) /\ \A f \in InTable : ~ IsBody(e, f)
  <2>1. \A e \in chunks' : (\E f \in InTable : IsBody(e, f)) \/ IsForwarder(e) \/ IsAdapter(e) \/ Closed(e)
    BY <1>2
  <2>2. \A e \in chunks' : /\ (\E f \in InTable : IsBody(e, f)) => e.name[1] = "function"
                           /\ IsForwarder(e) => e.name[1] = "forwarder"
                           /\ IsAdapter(e) => e.name[1] = "adapter"
                           /\ Closed(e) => e.name[1] = "closure"
    BY <1>1, <1>3, BodyShape, ForwarderShape, AdapterShape, FunctionGives
  <2>3. CASE (\E f \in InTable : IsBody(c, f)) /\ (\E f \in InTable : IsBody(d, f))
    <3>1. PICK f \in InTable, g \in InTable : IsBody(c, f) /\ IsBody(d, g)
      BY <2>3
    <3>2. f = g
      BY <1>1, <1>5, <3>1, BodyShape, FunctionGives
    <3> QED
      BY <3>1, <3>2, OneBody
  <2>4. CASE IsForwarder(c) /\ IsForwarder(d)
    BY <1>5, <2>4 DEF IsForwarder, Chunk, Forwarder
  <2>5. CASE IsAdapter(c) /\ IsAdapter(d)
    BY <1>5, <2>5 DEF IsAdapter, Chunk, Adapter
  <2>6. CASE IsClosure(c) /\ IsClosure(d)
    <3>1. PICK f \in InTable : \E k \in DOMAIN prog[f].takes :
                                  c = Chunk(ClosureIn(f, k), <<CallBy(prog[f].takes[k].to)>>, {})
      BY <2>6 DEF IsClosure
    <3>2. PICK g \in InTable : \E k \in DOMAIN prog[g].takes :
                                  d = Chunk(ClosureIn(g, k), <<CallBy(prog[g].takes[k].to)>>, {})
      BY <2>6 DEF IsClosure
    <3>3. PICK k \in DOMAIN prog[f].takes : c = Chunk(ClosureIn(f, k), <<CallBy(prog[f].takes[k].to)>>, {})
      BY <3>1
    <3>4. PICK n \in DOMAIN prog[g].takes : d = Chunk(ClosureIn(g, n), <<CallBy(prog[g].takes[n].to)>>, {})
      BY <3>2
    <3>5. f = g /\ k = n
      BY <1>5, <3>3, <3>4 DEF Chunk, ClosureIn
    <3> QED
      BY <3>3, <3>4, <3>5
  <2> HIDE DEF Closed
  <2>7. \A e \in chunks' : Closed(e) => IsClosure(e)
    BY DEF Closed
  <2> QED
    BY <1>5, <2>1, <2>2, <2>3, <2>4, <2>5, <2>6, <2>7
<1>6. ChunksInv'
  <2>1. \A c \in chunks' : IsChunk(c)' /\ Known(c)' /\ Named(c)'
    BY <1>1, <1>4 DEF IsChunk, Known, Named
  <2>2. Distinct(chunks')
    BY <1>5 DEF Distinct
  <2> QED
    BY <1>1, <2>1, <2>2 DEF ChunksInv, Distinct
<1>7. Placements' /\ IndexInv' /\ LiveInv' /\ UnitsInv'
  BY <1>1 DEF TableInv, Placements, Phases, IndexInv, LiveInv, UnitsInv, Distinct, IsUnit
<1>8. CallsFindTheirFunction'
  <2>1. pc' \notin {"done", "failed"} /\ \A c \in chunks' : Known(c)'
    BY <1>1, <1>4 DEF Known
  <2> QED
    BY <2>1 DEF CallsFindTheirFunction, Known
<1> QED
  BY <1>6, <1>7, <1>8 DEF TableInv

-----------------------------------------------------------------------------
(* Capture and inlining. *)

LEMMA NameGives ==
    ASSUME NEW a \in DOMAIN index, NEW avoided
    PROVE  NameOf(index[a], avoided) \in DOMAIN index /\ index[NameOf(index[a], avoided)] = index[a]
<1> DEFINE all == {name \in DOMAIN index : index[name] = index[a]}
           chunked == {name \in all : \E c \in chunks : c.name = Function(name)}
           names == IF chunked = {} THEN all ELSE chunked
<1>1. NameOf(index[a], avoided) = CHOOSE name \in names : names \subseteq avoided \/ name \notin avoided
  BY DEF NameOf
<1>2. names \subseteq all /\ names # {}
  OBVIOUS
<1> HIDE DEF names
<1>3. \E name \in names : names \subseteq avoided \/ name \notin avoided
  BY <1>2
<1> QED
  BY <1>1, <1>2, <1>3

LEMMA UnitGives ==
    ASSUME TableParameters, TableInv, NEW c \in chunks, NEW avoided, Known(c), Named(c), c.name[1] = "function"
    PROVE  /\ IsUnit(UnitOf(c, avoided)) /\ UnitOf(c, avoided).name = c.name
<1> DEFINE calls == [k \in DOMAIN c.code |-> NameOf(c.code[k].idx, avoided)]
<1>1. IsChunk(c) /\ IndexInv
  BY DEF TableInv, ChunksInv
<1>2. c.code \in Seq(Instruction) /\ c.addresses \in SUBSET Label
  BY <1>1 DEF IsChunk
<1>3. \A k \in DOMAIN c.code : NameOf(c.code[k].idx, avoided) \in Names
  BY <1>1, NameGives DEF Known, IndexInv
<1>4. DOMAIN c.code = 1..Len(c.code) /\ Len(c.code) \in Nat
  BY <1>2
<1>5. calls \in [1..Len(c.code) -> Names]
  BY <1>3, <1>4
<1>6. calls \in Seq(Names)
  BY <1>4, <1>5
<1>7. \E f \in Functions : c.name = Function(f)
  BY DEF Named
<1>8. /\ UnitOf(c, avoided).calls = calls /\ UnitOf(c, avoided).name = c.name
      /\ UnitOf(c, avoided).addresses = c.addresses
  BY DEF UnitOf
<1> QED
  BY <1>2, <1>6, <1>7, <1>8 DEF IsUnit

LEMMA CaptureTable == ASSUME TableParameters, TableInv, Capture PROVE TableInv'
<1>1. /\ pc = "capture" /\ pc' = "inline"
      /\ UNCHANGED <<prog, index, chunks, table, relocs, cache, edits>>
      /\ callees' \subseteq chunks
      /\ \A c \in chunks : IsChunk(c) /\ Known(c) /\ Named(c)
      /\ Distinct(chunks)
  BY DEF Capture, TableInv, ChunksInv, Phases
<1>2. PICK avoided \in SUBSET (Bodiless \union Aliases) :
         snapshot' = {UnitOf(c, avoided) : c \in {c \in chunks : c.name[1] = "function" /\ ~ NeedsCompanions(c)}}
  BY DEF Capture
<1>3. \A unit \in snapshot' : IsUnit(unit)
  BY <1>1, <1>2, UnitGives
<1>4. Distinct(snapshot')
  BY <1>1, <1>2, UnitGives DEF Distinct
<1>5. UnitsInv'
  BY <1>1, <1>3, <1>4 DEF UnitsInv, IsUnit, TableInv
<1>6. ChunksInv'
  BY <1>1 DEF ChunksInv, TableInv, IsChunk, Known, Named
<1>7. Placements' /\ IndexInv' /\ LiveInv'
  BY <1>1 DEF TableInv, Placements, Phases, IndexInv, LiveInv
<1>8. CallsFindTheirFunction'
  BY <1>1 DEF CallsFindTheirFunction, Known
<1> QED
  BY <1>5, <1>6, <1>7, <1>8 DEF TableInv

\* Replacing one element of a sequence by several.
LEMMA SpliceGives ==
    ASSUME NEW S, NEW t \in Seq(S), NEW r \in Seq(S), NEW k \in DOMAIN t
    PROVE  ReplaceSubSeqAt(k, r, <<t[k]>>, t) \in Seq(S)
<1>1. Len(t) \in Nat /\ DOMAIN t = 1..Len(t) /\ Len(<<t[k]>>) = 1
  OBVIOUS
<1>2. SubSeq(t, 1, k - 1) \in Seq(S) /\ SubSeq(t, k + 1, Len(t)) \in Seq(S)
  BY <1>1
<1> QED
  BY <1>1, <1>2 DEF ReplaceSubSeqAt

KnownCalls == {call \in Instruction : call.to \in DOMAIN index /\ index[call.to] = call.idx}

LEMMA KnownIsSeq ==
    ASSUME NEW code
    PROVE  code \in Seq(KnownCalls)
             <=> /\ code \in Seq(Instruction)
                 /\ \A k \in DOMAIN code : code[k].to \in DOMAIN index /\ index[code[k].to] = code[k].idx
<1>1. ASSUME code \in Seq(KnownCalls)
      PROVE  /\ code \in Seq(Instruction)
             /\ \A k \in DOMAIN code : code[k].to \in DOMAIN index /\ index[code[k].to] = code[k].idx
  <2>1. KnownCalls \subseteq Instruction
    BY DEF KnownCalls
  <2>2. \A k \in DOMAIN code : code[k] \in KnownCalls
    BY <1>1
  <2>3. DOMAIN code = 1..Len(code) /\ Len(code) \in Nat /\ code \in [1..Len(code) -> Instruction]
    BY <1>1, <2>1
  <2> QED
    BY <2>2, <2>3 DEF KnownCalls
<1>2. ASSUME code \in Seq(Instruction),
             \A k \in DOMAIN code : code[k].to \in DOMAIN index /\ index[code[k].to] = code[k].idx
      PROVE  code \in Seq(KnownCalls)
  <2>1. DOMAIN code = 1..Len(code) /\ Len(code) \in Nat /\ \A k \in DOMAIN code : code[k] \in Instruction
    BY <1>2
  <2>2. code \in [1..Len(code) -> KnownCalls]
    BY <1>2, <2>1 DEF KnownCalls
  <2> QED
    BY <2>1, <2>2
<1> QED
  BY <1>1, <1>2

\* The calls of a callee and of its caller hold the numbers of their functions.
LEMMA InlineTable == ASSUME TableParameters, TableInv, InlineCall PROVE TableInv'
<1>1. pc = "inline" /\ UNCHANGED <<prog, pc, index, callees, table, relocs, snapshot, cache, edits>>
      /\ (\A c \in chunks : IsChunk(c) /\ Known(c) /\ Named(c)) /\ Distinct(chunks)
      /\ \A c \in callees : IsChunk(c) /\ Known(c)
  BY DEF InlineCall, TableInv, ChunksInv, Phases
<1>2. PICK c \in chunks, callee \in callees : \E k \in DOMAIN c.code :
         /\ c.code[k].idx = index[callee.name[2]]
         /\ chunks' = (chunks \ {c}) \union
              {Chunk(c.name, ReplaceSubSeqAt(k, callee.code, <<c.code[k]>>, c.code),
                     c.addresses \union callee.addresses)}
  BY DEF InlineCall
<1>3. PICK k \in DOMAIN c.code :
         chunks' = (chunks \ {c}) \union
              {Chunk(c.name, ReplaceSubSeqAt(k, callee.code, <<c.code[k]>>, c.code),
                     c.addresses \union callee.addresses)}
  BY <1>2
<1> DEFINE code == ReplaceSubSeqAt(k, callee.code, <<c.code[k]>>, c.code)
           spliced == Chunk(c.name, code, c.addresses \union callee.addresses)
<1>4. c.code \in Seq(KnownCalls) /\ callee.code \in Seq(KnownCalls)
  BY <1>1, KnownIsSeq DEF IsChunk, Known
<1>5. code \in Seq(KnownCalls)
  BY <1>4, SpliceGives
<1> HIDE DEF code
<1>6. code \in Seq(Instruction) /\ \A n \in DOMAIN code : code[n].to \in DOMAIN index /\ index[code[n].to] = code[n].idx
  BY <1>5, KnownIsSeq
<1>7. c.name \in Label /\ c.addresses \union callee.addresses \in SUBSET Label /\ Named(c)
  BY <1>1 DEF IsChunk
<1>8. IsChunk(spliced) /\ Known(spliced) /\ Named(spliced) /\ spliced.name = c.name
  BY <1>6, <1>7 DEF IsChunk, Known, Named, Chunk
<1>9. chunks' = (chunks \ {c}) \union {spliced}
  BY <1>3 DEF code
<1> HIDE DEF spliced
<1>10. (\A d \in chunks' : IsChunk(d) /\ Known(d) /\ Named(d)) /\ Distinct(chunks')
  BY <1>1, <1>8, <1>9 DEF Distinct
<1>11. ChunksInv'
  BY <1>1, <1>10 DEF ChunksInv, TableInv, IsChunk, Known, Named
<1>12. Placements' /\ IndexInv' /\ LiveInv' /\ UnitsInv'
  BY <1>1 DEF TableInv, Placements, IndexInv, LiveInv, UnitsInv, Distinct, IsUnit
<1>13. CallsFindTheirFunction'
  BY <1>1, <1>10 DEF CallsFindTheirFunction, Known
<1> QED
  BY <1>11, <1>12, <1>13 DEF TableInv

LEMMA EndInliningTable == ASSUME TableParameters, TableInv, EndInlining PROVE TableInv'
<1>1. pc = "inline" /\ pc' = "eliminate"
      /\ UNCHANGED <<prog, index, chunks, callees, table, relocs, snapshot, cache, edits>>
  BY DEF EndInlining
<1>2. ChunksInv'
  BY <1>1 DEF ChunksInv, TableInv, IsChunk, Known, Named, Phases
<1>3. Placements' /\ IndexInv' /\ LiveInv' /\ UnitsInv'
  BY <1>1 DEF TableInv, Placements, Phases, IndexInv, LiveInv, UnitsInv, Distinct, IsUnit
<1>4. CallsFindTheirFunction'
  BY <1>1 DEF CallsFindTheirFunction, TableInv
<1> QED
  BY <1>2, <1>3, <1>4 DEF TableInv

-----------------------------------------------------------------------------
(* Elimination and compaction: functions move, and the calls follow. *)

LEMMA RenumberGives ==
    ASSUME NEW c, IsChunk(c), NEW S, NEW new \in [S -> 0..Len(Items)]
    PROVE  /\ IsChunk(Renumber(c, new)) /\ Renumber(c, new).name = c.name
           /\ DOMAIN Renumber(c, new).code = DOMAIN c.code
           /\ \A k \in DOMAIN c.code :
                /\ Renumber(c, new).code[k].to = c.code[k].to
                /\ c.code[k].idx \in S => Renumber(c, new).code[k].idx = new[c.code[k].idx]
<1> DEFINE Moved(call) == [call EXCEPT !.idx = IF @ \in DOMAIN new THEN new[@] ELSE @]
           code == [k \in DOMAIN c.code |-> Moved(c.code[k])]
<1>1. c = Chunk(c.name, c.code, c.addresses) /\ c.code \in Seq(Instruction)
  BY DEF IsChunk
<1>2. ASSUME NEW call \in Instruction
      PROVE  /\ Moved(call) \in Instruction /\ Moved(call).to = call.to
             /\ call.idx \in S => Moved(call).idx = new[call.idx]
  BY DEF Instruction
<1> HIDE DEF Moved
<1>3. DOMAIN c.code = 1..Len(c.code) /\ Len(c.code) \in Nat /\ \A k \in DOMAIN c.code : c.code[k] \in Instruction
  BY <1>1
<1>4. code \in [1..Len(c.code) -> Instruction]
  BY <1>2, <1>3
<1>5. code \in Seq(Instruction)
  BY <1>3, <1>4
<1>6. Renumber(c, new) = [c EXCEPT !.code = code]
  BY DEF Renumber, Moved
<1>7. /\ DOMAIN code = DOMAIN c.code
      /\ \A k \in DOMAIN c.code : /\ code[k].to = c.code[k].to
                                  /\ c.code[k].idx \in S => code[k].idx = new[c.code[k].idx]
  BY <1>2, <1>3
<1> HIDE DEF code
<1>8. [c EXCEPT !.code = code] = Chunk(c.name, code, c.addresses)
  BY <1>1 DEF Chunk
<1>9. c.name \in Label /\ c.addresses \in SUBSET Label
  BY DEF IsChunk
<1> QED
  BY <1>5, <1>6, <1>7, <1>8, <1>9 DEF Chunk, IsChunk

\* The index after functions have been moved to their ranks in S.
LEMMA RanksKeepIndex ==
    ASSUME TableParameters, IndexInv, NEW S \in SUBSET (0..Len(Items)),
           index' = [a \in {a \in DOMAIN index : index[a] \in S} |-> Rank(index[a], S)]
    PROVE  IndexInv'
<1>1. Len(Items) \in Nat
  BY DEF TableParameters
<1>2. S \in SUBSET Nat /\ IsFiniteSet(S) /\ Cardinality(S) <= Len(Items) + 1
  BY <1>1, IntervalsAreFinite
<1>3. ASSUME NEW i \in S PROVE Rank(i, S) \in 0..Len(Items)
  <2>1. i \in Nat /\ Rank(i, S) < Cardinality(S)
    BY <1>2, RankIsBelow
  <2>2. Rank(i, S) \in Nat /\ Cardinality(S) \in Nat
    BY <1>2, <2>1, RankType
  <2> QED
    BY <1>1, <1>2, <2>1, <2>2
<1>4. DOMAIN index' = {a \in DOMAIN index : index[a] \in S}
      /\ \A a \in DOMAIN index' : index'[a] = Rank(index[a], S) /\ index[a] \in S
  OBVIOUS
<1>5. DOMAIN index' \subseteq Names /\ \A a \in DOMAIN index' : index'[a] \in 0..Len(Items)
  BY <1>3, <1>4 DEF IndexInv
<1>6. \A a \in DOMAIN index' : Resolve(a) \in DOMAIN index' /\ index'[Resolve(a)] = index'[a]
  BY <1>4 DEF IndexInv
<1>7. ASSUME NEW a \in DOMAIN index', NEW b \in DOMAIN index', index'[a] = index'[b]
      PROVE  Resolve(a) = Resolve(b)
  <2>1. index[a] = index[b]
    BY <1>2, <1>4, <1>7, RankIsInjective
  <2> QED
    BY <1>4, <2>1 DEF IndexInv
<1> QED
  BY <1>5, <1>6, <1>7 DEF IndexInv

LEMMA EliminateTable == ASSUME TableParameters, TableInv, Eliminate PROVE TableInv'
<1> DEFINE dead == {index[f] : f \in Inlined} \ Called
           kept == {name \in DOMAIN index : index[name] \notin dead}
           S == {index[name] : name \in kept}
           new == Dense(S)
<1>1. /\ pc = "eliminate" /\ pc' = "compact" /\ UNCHANGED <<prog, callees, table, relocs, snapshot, cache, edits>>
      /\ index' = [name \in kept |-> new[index[name]]]
      /\ chunks' = {Renumber(c, new) : c \in {c \in chunks : c.name[1] = "function" => c.name[2] \in kept}}
  BY DEF Eliminate
<1>2. (\A c \in chunks : IsChunk(c) /\ Known(c) /\ Named(c)) /\ Distinct(chunks) /\ IndexInv
  BY <1>1 DEF TableInv, ChunksInv, Phases
<1>3. \A c \in chunks : \A k \in DOMAIN c.code : c.code[k].to \in kept /\ c.code[k].idx \in S
  <2>1. \A c \in chunks : \A k \in DOMAIN c.code : c.code[k].idx \in Called
    BY DEF Called
  <2> QED
    BY <1>2, <2>1 DEF Known
<1>4. kept = {a \in DOMAIN index : index[a] \in S}
  OBVIOUS
<1>5. S \in SUBSET (0..Len(Items)) /\ kept \subseteq DOMAIN index /\ \A a \in kept : index[a] \in S
  BY <1>2 DEF IndexInv
<1> HIDE DEF kept
<1> HIDE DEF S
<1>6. new = [i \in S |-> Rank(i, S)]
  BY DEF Dense
<1>7. index' = [a \in {a \in DOMAIN index : index[a] \in S} |-> Rank(index[a], S)]
  BY <1>1, <1>4, <1>5, <1>6
<1>8. IndexInv'
  BY <1>2, <1>5, <1>7, RanksKeepIndex
<1>9. new \in [S -> 0..Len(Items)]
  <2>1. ASSUME NEW i \in S PROVE Rank(i, S) \in 0..Len(Items)
    <3>1. Len(Items) \in Nat
      BY DEF TableParameters
    <3>2. S \in SUBSET Nat /\ IsFiniteSet(S) /\ Cardinality(S) <= Len(Items) + 1
      BY <1>5, <3>1, IntervalsAreFinite
    <3>3. Rank(i, S) < Cardinality(S) /\ Rank(i, S) \in Nat /\ Cardinality(S) \in Nat
      BY <3>2, RankIsBelow, RankType
    <3> QED
      BY <3>1, <3>2, <3>3
  <2> QED
    BY <1>6, <2>1
<1> HIDE DEF new
<1>10. ASSUME NEW d \in chunks' PROVE IsChunk(d)' /\ Known(d)' /\ Named(d)'
  <2>1. PICK c \in chunks : d = Renumber(c, new) /\ (c.name[1] = "function" => c.name[2] \in kept)
    BY <1>1
  <2>2. /\ IsChunk(d) /\ d.name = c.name /\ DOMAIN d.code = DOMAIN c.code
        /\ \A k \in DOMAIN c.code :
             /\ d.code[k].to = c.code[k].to
             /\ c.code[k].idx \in S => d.code[k].idx = new[c.code[k].idx]
    BY <1>2, <1>9, <2>1, RenumberGives
  <2>3. Known(d)'
    <3> SUFFICES ASSUME NEW k \in DOMAIN d.code
                 PROVE  d.code[k].to \in DOMAIN index' /\ index'[d.code[k].to] = d.code[k].idx
      BY DEF Known
    <3>1. c.code[k].to \in kept /\ c.code[k].idx \in S /\ index[c.code[k].to] = c.code[k].idx
      BY <1>2, <1>3, <2>2 DEF Known
    <3> QED
      BY <1>1, <2>2, <3>1
  <2>4. Named(d)'
    <3> SUFFICES ASSUME d.name[1] = "function"
                 PROVE  \E f \in Functions \intersect DOMAIN index' : d.name = Function(f)
      BY DEF Named
    <3>1. PICK f \in Functions : c.name = Function(f)
      BY <1>2, <2>2 DEF Named
    <3>2. f \in kept
      BY <2>1, <2>2, <3>1, FunctionGives
    <3> QED
      BY <1>1, <2>2, <3>1, <3>2
  <2> QED
    BY <2>2, <2>3, <2>4 DEF IsChunk
<1>11. Distinct(chunks')
  <2>1. \A c \in chunks : Renumber(c, new).name = c.name
    BY <1>2, <1>9, RenumberGives
  <2> QED
    BY <1>1, <1>2, <2>1 DEF Distinct
<1>12. ChunksInv'
  BY <1>1, <1>10, <1>11 DEF ChunksInv, TableInv, IsChunk
<1>13. Placements' /\ LiveInv' /\ UnitsInv'
  BY <1>1 DEF TableInv, Placements, Phases, LiveInv, UnitsInv, Distinct, IsUnit
<1>14. CallsFindTheirFunction'
  BY <1>1, <1>10 DEF CallsFindTheirFunction, Known
<1> QED
  BY <1>8, <1>12, <1>13, <1>14 DEF TableInv

Filled == {index[c.name[2]] : c \in Placed}

\* A function's chunk is the only one at its index: nothing is placed twice.
LEMMA PlacedGives ==
    ASSUME TableParameters, TableInv, pc = "compact"
    PROVE  /\ Filled \in SUBSET (0..Len(Items))
           /\ \A c \in Placed : \E f \in Functions \intersect DOMAIN index : c.name = Function(f) /\ c.name[2] = f
           /\ \A c, d \in Placed : index[c.name[2]] = index[d.name[2]] => c = d
           /\ Cardinality(Placed) = Cardinality(Filled)
<1>1. (\A c \in chunks : Named(c)) /\ Distinct(chunks) /\ IndexInv
  BY DEF TableInv, ChunksInv, Phases
<1>2. Placed \subseteq chunks /\ \A c \in Placed : c.name[1] = "function"
  BY DEF Placed
<1>3. \A c \in Placed : \E f \in Functions \intersect DOMAIN index : c.name = Function(f) /\ c.name[2] = f
  BY <1>1, <1>2, FunctionGives DEF Named
<1>4. Filled \in SUBSET (0..Len(Items))
  BY <1>1, <1>3 DEF Filled, IndexInv
<1>5. ASSUME NEW c \in Placed, NEW d \in Placed, index[c.name[2]] = index[d.name[2]] PROVE c = d
  <2>1. PICK f \in Functions \intersect DOMAIN index : c.name = Function(f) /\ c.name[2] = f
    BY <1>3
  <2>2. PICK g \in Functions \intersect DOMAIN index : d.name = Function(g) /\ d.name[2] = g
    BY <1>3
  <2>3. f = g
    BY <1>1, <1>5, <2>1, <2>2, ResolveGives DEF IndexInv
  <2> QED
    BY <1>1, <1>2, <2>1, <2>2, <2>3 DEF Distinct
<1>6. Cardinality(Placed) = Cardinality(Filled)
  <2> DEFINE place == [c \in Placed |-> index[c.name[2]]]
  <2>1. place \in [Placed -> Filled] /\ \A i \in Filled : \E c \in Placed : place[c] = i
    BY DEF Filled
  <2>2. \A c, d \in Placed : place[c] = place[d] => c = d
    BY <1>5
  <2>3. place \in Injection(Placed, Filled) /\ place \in Surjection(Placed, Filled)
    BY <2>1, <2>2 DEF Injection, Surjection, IsInjective
  <2>4. IsFiniteSet(Filled)
    BY <1>4, IntervalsAreFinite DEF TableParameters
  <2> QED
    BY <2>3, <2>4, FS_Injection
<1> QED
  BY <1>3, <1>4, <1>5, <1>6

Moves == [i \in Called \union Filled |-> IF i \in Filled THEN Rank(i, Filled) ELSE 0]

\* The compaction of a table in which the invariant holds succeeds.
LEMMA CompactGives ==
    ASSUME TableParameters, TableInv, Compact
    PROVE  /\ pc = "compact" /\ pc' = "done"
           /\ UNCHANGED <<prog, callees, snapshot, edits>> /\ cache' = snapshot
           /\ index' = [a \in {a \in DOMAIN index : index[a] \in Filled} |-> Rank(index[a], Filled)]
           /\ chunks' = {Renumber(c, Moves) : c \in chunks}
           /\ table' = [i \in 1..Cardinality(Filled) |->
                          (CHOOSE c \in Placed : Moves[index[c.name[2]]] = i - 1).name]
           /\ \E symbol \in [Called \ Filled -> DOMAIN index] :
                /\ \A i \in Called \ Filled : index[symbol[i]] = i
                /\ relocs' = UNION {{[caller |-> c.name, at |-> k, symbol |-> symbol[c.code[k].idx]] :
                                       k \in {k \in DOMAIN c.code : c.code[k].idx \in Called \ Filled}} :
                                      c \in chunks}
<1>1. pc = "compact" /\ UNCHANGED <<prog, callees, snapshot, edits>>
  BY DEF Compact
<1>2. \A c \in chunks : Known(c)
  BY <1>1 DEF TableInv, ChunksInv, Phases
<1>3. Called \subseteq Range(index)
  BY <1>2 DEF Called, Known, Range
<1>4. ~ (Cardinality(Placed) # Cardinality(Filled) \/ ~ Called \ Filled \subseteq Range(index))
  BY <1>1, <1>3, PlacedGives
<1>5. /\ pc' = "done" /\ cache' = snapshot
      /\ index' = [a \in {a \in DOMAIN index : index[a] \in Filled} |-> Moves[index[a]]]
      /\ chunks' = {Renumber(c, Moves) : c \in chunks}
      /\ table' = [i \in 1..Cardinality(Filled) |->
                     (CHOOSE c \in Placed : Moves[index[c.name[2]]] = i - 1).name]
      /\ \E symbol \in [Called \ Filled -> DOMAIN index] :
           /\ \A i \in Called \ Filled : index[symbol[i]] = i
           /\ relocs' = UNION {{[caller |-> c.name, at |-> k, symbol |-> symbol[c.code[k].idx]] :
                                  k \in {k \in DOMAIN c.code : c.code[k].idx \in Called \ Filled}} :
                                 c \in chunks}
  BY <1>4 DEF Compact, Filled, Moves
<1>6. \A a \in DOMAIN index : index[a] \in Filled => Moves[index[a]] = Rank(index[a], Filled)
  BY DEF Moves
<1> QED
  BY <1>1, <1>5, <1>6

\* Every function's new place, as a number.
LEMMA MovesGive ==
    ASSUME TableParameters, TableInv, pc = "compact"
    PROVE  /\ Moves \in [Called \union Filled -> 0..Len(Items)]
           /\ Cardinality(Filled) \in Nat
           /\ \A i \in Filled : Moves[i] \in 0..(Cardinality(Filled) - 1)
           /\ \A i, j \in Filled : Moves[i] = Moves[j] => i = j
<1>1. Len(Items) \in Nat
  BY DEF TableParameters
<1>2. Filled \in SUBSET (0..Len(Items))
  BY PlacedGives
<1>3. Filled \in SUBSET Nat /\ IsFiniteSet(Filled) /\ Cardinality(Filled) <= Len(Items) + 1
  BY <1>1, <1>2, IntervalsAreFinite
<1>4. Cardinality(Filled) \in Nat
  BY <1>3, FS_CardinalityType
<1>5. ASSUME NEW i \in Filled PROVE Rank(i, Filled) \in Nat /\ Rank(i, Filled) < Cardinality(Filled)
  BY <1>3, RankType, RankIsBelow
<1>6. \A i \in Filled : Moves[i] = Rank(i, Filled)
  BY DEF Moves
<1>7. \A i \in Called \union Filled : (IF i \in Filled THEN Rank(i, Filled) ELSE 0) \in 0..Len(Items)
  <2>1. ASSUME NEW i \in Filled PROVE Rank(i, Filled) \in 0..Len(Items)
    <3>1. Rank(i, Filled) \in Nat /\ Rank(i, Filled) < Cardinality(Filled)
      BY <1>5
    <3> QED
      BY <1>1, <1>3, <1>4, <3>1
  <2>2. 0 \in 0..Len(Items)
    BY <1>1
  <2> QED
    BY <2>1, <2>2
<1> QED
  BY <1>3, <1>4, <1>5, <1>6, <1>7, RankIsInjective DEF Moves

\* What a call in the result denotes.
LEMMA CompactReaches ==
    ASSUME TableParameters, TableInv, Compact
    PROVE  CallsFindTheirFunction'
<1>1. /\ pc = "compact" /\ pc' = "done" /\ chunks' = {Renumber(c, Moves) : c \in chunks}
      /\ table' = [i \in 1..Cardinality(Filled) |->
                     (CHOOSE c \in Placed : Moves[index[c.name[2]]] = i - 1).name]
  BY CompactGives
<1>2. PICK symbol \in [Called \ Filled -> DOMAIN index] :
         /\ \A i \in Called \ Filled : index[symbol[i]] = i
         /\ relocs' = UNION {{[caller |-> c.name, at |-> k, symbol |-> symbol[c.code[k].idx]] :
                                k \in {k \in DOMAIN c.code : c.code[k].idx \in Called \ Filled}} :
                               c \in chunks}
  BY CompactGives
<1>3. (\A c \in chunks : IsChunk(c) /\ Known(c) /\ Named(c)) /\ Distinct(chunks) /\ IndexInv
  BY <1>1 DEF TableInv, ChunksInv, Phases
<1>4. SUFFICES ASSUME NEW d \in chunks', NEW k \in DOMAIN d.code
      PROVE  IF {r \in relocs' : r.caller = d.name /\ r.at = k} = {}
               THEN table'[d.code[k].idx + 1] = Function(d.code[k].to)
               ELSE \A r \in {r \in relocs' : r.caller = d.name /\ r.at = k} : Resolve(r.symbol) = d.code[k].to
  BY <1>1 DEF CallsFindTheirFunction
<1>5. PICK c \in chunks : d = Renumber(c, Moves)
  BY <1>1
<1> DEFINE i == c.code[k].idx
           to == c.code[k].to
<1>6. /\ d.name = c.name /\ k \in DOMAIN c.code /\ d.code[k].to = to
      /\ i \in Called \union Filled => d.code[k].idx = Moves[i]
  BY <1>1, <1>3, <1>5, MovesGive, RenumberGives
<1>7. i \in Called /\ to \in DOMAIN index /\ index[to] = i
  BY <1>3, <1>6 DEF Called, Known
<1>8. to \in Functions /\ Resolve(to) = to
  <2>1. c.code \in Seq(Instruction)
    BY <1>3 DEF IsChunk
  <2>2. c.code[k] \in Instruction
    BY <1>6, <2>1
  <2> QED
    BY <2>2, ResolveGives DEF Instruction
<1> HIDE DEF i, to
<1>9. \A r \in relocs' : r.caller = d.name /\ r.at = k => i \in Called \ Filled /\ r.symbol = symbol[i]
  <2>1. SUFFICES ASSUME NEW r \in relocs', r.caller = d.name, r.at = k
                 PROVE  i \in Called \ Filled /\ r.symbol = symbol[i]
    OBVIOUS
  <2>2. PICK e \in chunks : r \in {[caller |-> e.name, at |-> n, symbol |-> symbol[e.code[n].idx]] :
                                     n \in {n \in DOMAIN e.code : e.code[n].idx \in Called \ Filled}}
    BY <1>2
  <2>3. PICK n \in DOMAIN e.code : /\ e.code[n].idx \in Called \ Filled
                                   /\ r = [caller |-> e.name, at |-> n, symbol |-> symbol[e.code[n].idx]]
    BY <2>2
  <2>4. e = c /\ n = k
    BY <1>3, <1>6, <2>1, <2>3 DEF Distinct
  <2> QED
    BY <2>3, <2>4 DEF i
<1>10. CASE i \in Filled
  <2>1. {r \in relocs' : r.caller = d.name /\ r.at = k} = {}
    BY <1>9, <1>10
  <2>2. d.code[k].idx = Moves[i] /\ Moves[i] \in 0..(Cardinality(Filled) - 1) /\ Cardinality(Filled) \in Nat
    BY <1>1, <1>6, <1>10, MovesGive
  <2> DEFINE chosen == CHOOSE e \in Placed : Moves[index[e.name[2]]] = Moves[i]
  <2>3. table'[d.code[k].idx + 1] = chosen.name
    <3>1. Moves[i] + 1 \in 1..Cardinality(Filled) /\ Moves[i] + 1 - 1 = Moves[i]
      BY <2>2
    <3> QED
      BY <1>1, <2>2, <3>1
  <2>4. chosen \in Placed /\ Moves[index[chosen.name[2]]] = Moves[i]
    BY <1>10 DEF Filled
  <2> HIDE DEF chosen
  <2>5. PICK f \in Functions \intersect DOMAIN index : chosen.name = Function(f) /\ chosen.name[2] = f
    BY <1>1, <2>4, PlacedGives
  <2>6. index[f] \in Filled /\ Moves[index[f]] = Moves[i]
    BY <2>4, <2>5 DEF Filled
  <2>7. index[f] = i
    BY <1>1, <1>10, <2>6, MovesGive
  <2>8. f = to
    BY <1>3, <1>7, <1>8, <2>5, <2>7, ResolveGives DEF IndexInv
  <2> QED
    BY <1>6, <2>1, <2>3, <2>5, <2>8
<1>11. CASE i \notin Filled
  <2>1. i \in Called \ Filled /\ symbol[i] \in DOMAIN index /\ index[symbol[i]] = i
    BY <1>2, <1>7, <1>11
  <2>2. Resolve(symbol[i]) = to
    BY <1>3, <1>7, <1>8, <2>1 DEF IndexInv
  <2>3. [caller |-> c.name, at |-> k, symbol |-> symbol[c.code[k].idx]] \in relocs'
    BY <1>2, <1>6, <2>1 DEF i
  <2>4. {r \in relocs' : r.caller = d.name /\ r.at = k} # {}
    BY <1>6, <2>3
  <2> QED
    BY <1>6, <1>9, <2>2, <2>4
<1> QED
  BY <1>10, <1>11

LEMMA CompactTable == ASSUME TableParameters, TableInv, Compact PROVE TableInv'
<1>1. /\ pc = "compact" /\ pc' = "done"
      /\ UNCHANGED <<prog, callees, snapshot, edits>> /\ cache' = snapshot
      /\ index' = [a \in {a \in DOMAIN index : index[a] \in Filled} |-> Rank(index[a], Filled)]
      /\ chunks' = {Renumber(c, Moves) : c \in chunks}
  BY CompactGives
<1>2. (\A c \in chunks : IsChunk(c)) /\ Distinct(chunks) /\ IndexInv
  BY DEF TableInv, ChunksInv
<1>3. IndexInv'
  BY <1>1, <1>2, PlacedGives, RanksKeepIndex
<1>4. \A c \in chunks : IsChunk(Renumber(c, Moves)) /\ Renumber(c, Moves).name = c.name
  BY <1>1, <1>2, MovesGive, RenumberGives
<1>5. Distinct(chunks')
  BY <1>1, <1>2, <1>4 DEF Distinct
<1>6. ChunksInv'
  BY <1>1, <1>4, <1>5 DEF ChunksInv, TableInv, IsChunk
<1>7. Placements' /\ LiveInv' /\ UnitsInv'
  BY <1>1 DEF TableInv, Placements, Phases, LiveInv, UnitsInv, Distinct, IsUnit
<1>8. CallsFindTheirFunction'
  BY CompactReaches
<1> QED
  BY <1>3, <1>6, <1>7, <1>8 DEF TableInv

-----------------------------------------------------------------------------
LEMMA TableStays == ASSUME TableInv, UNCHANGED tableVars PROVE TableInv'
  BY DEF tableVars, TableInv, Placements, IndexInv, LiveInv, InTable, Edges, Takes, ChunksInv, IsChunk, Known, Named,
         UnitsInv, IsUnit, CallsFindTheirFunction

LEMMA NextTable == ASSUME TableParameters, TableInv, [TableNext]_tableVars PROVE TableInv'
<1>1. CASE AssignIndices
  BY <1>1, AssignTable
<1>2. CASE Generate
  BY <1>2, GenerateTable
<1>3. CASE Capture
  BY <1>3, CaptureTable
<1>4. CASE InlineCall
  BY <1>4, InlineTable
<1>5. CASE EndInlining
  BY <1>5, EndInliningTable
<1>6. CASE Eliminate
  BY <1>6, EliminateTable
<1>7. CASE Compact
  BY <1>7, CompactTable
<1>8. ASSUME NEW f \in Functions, NEW body \in Bodies[f] \ {prog[f]}, EditBody(f, body) PROVE TableInv'
  BY <1>8, EditTable
<1>9. CASE UNCHANGED tableVars
  BY <1>9, TableStays
<1> QED
  BY <1>1, <1>2, <1>3, <1>4, <1>5, <1>6, <1>7, <1>8, <1>9 DEF TableNext, Pass

\* The invariant holds of every number of partial builds.
THEOREM TableKeepsItsInvariant == ASSUME TableParameters PROVE TableSpec => []TableInv
<1>1. TableInit => TableInv
  BY InitTable
<1>2. TableInv /\ [TableNext]_tableVars => TableInv'
  BY NextTable
<1> QED
  BY <1>1, <1>2, PTL DEF TableSpec

\* Through every pass and every build, index, chunks and units keep their types.
THEOREM TableTypes == ASSUME TableParameters PROVE TableSpec => []TableTypeOK
<1>1. TableInv => TableTypeOK
  BY TypesFollow
<1> QED
  BY <1>1, TableKeepsItsInvariant, PTL

-----------------------------------------------------------------------------
(***************************************************************************)
(* Inlining loses no call: the calls of a chunk are those of its function, *)
(* or, of the callees copied into it, theirs.  A restored chunk makes the  *)
(* calls of today's body because its unit was stored with that source.     *)
(***************************************************************************)

Targets(c) == {c.code[k].to : k \in DOMAIN c.code}

CalledByAll(S) == UNION {CalledBy(g) : g \in S}

IsWhole(c) == Targets(c) = CalledBy(c.name[2])

\* The calls of functions spliced into c are all there.
Keeps(c, inlined) ==
    Targets(c) \union inlined = CalledByAll({c.name[2]} \union inlined) \union inlined

CallsStored(unit) ==
    \A f \in Functions : unit.name = Function(f) =>
        /\ f \in DOMAIN unit.source
        /\ {Resolve(unit.calls[k]) : k \in DOMAIN unit.calls}
             = {Resolve(unit.source[f].calls[k]) : k \in DOMAIN unit.source[f].calls}

CallsInv ==
    /\ pc = "capture" => \A c \in Placed : IsWhole(c)
    /\ pc = "inline" => \A c \in callees : IsWhole(c) /\ c.name[1] = "function" /\ Named(c)
    /\ InliningKeepsCalls
    /\ \A unit \in snapshot \union cache : CallsStored(unit)

KeepsCalls ==
    pc \in {"inline", "eliminate", "compact", "done"} =>
        \A c \in Placed : \E inlined \in SUBSET Inlined : Keeps(c, inlined)

LEMMA KeepsGives == (InliningKeepsCalls <=> KeepsCalls) /\ (InliningKeepsCalls <=> KeepsCalls)'
  BY DEF InliningKeepsCalls, KeepsCalls, Keeps, Targets, CalledByAll

\* These depend on the program alone.
LEMMA CallsStand ==
    ASSUME prog' = prog
    PROVE  /\ \A c, inlined : Keeps(c, inlined)' <=> Keeps(c, inlined)
           /\ \A c : IsWhole(c)' <=> IsWhole(c)
<1>1. \A f : CalledBy(f)' = CalledBy(f)
  BY DEF CalledBy
<1>2. \A S : CalledByAll(S)' = CalledByAll(S)
  BY DEF CalledByAll, CalledBy
<1> QED
  BY <1>1, <1>2 DEF Keeps, IsWhole, Targets

LEMMA GenerateKeepsCalls == ASSUME TableParameters, TableInv, CallsInv, Generate PROVE CallsInv'
<1>1. /\ pc = "generate" /\ pc' = "capture" /\ chunks' = UNION {Generated(f) : f \in InTable}
      /\ UNCHANGED <<prog, index, callees, snapshot, cache>>
  BY DEF Generate
<1>2. ASSUME NEW c \in chunks', c.name[1] = "function" PROVE Targets(c) = CalledBy(c.name[2])
  <2>1. PICK f \in InTable : c \in Generated(f)
    BY <1>1
  <2>2. f \in Functions /\ prog \in Programs
    BY DEF InTable, TableInv, Placements
  <2>3. ~ IsForwarder(c) /\ ~ IsAdapter(c)
    BY <1>1, <1>2, ForwarderShape, AdapterShape
  <2>4. ASSUME NEW k \in DOMAIN prog[f].takes, prog[f].takes[k].to \in DOMAIN index,
               c = Chunk(ClosureIn(f, k), <<CallBy(prog[f].takes[k].to)>>, {})
        PROVE  FALSE
    BY <1>2, <2>4, ClosureShape
  <2>5. IsBody(c, f)
    BY <1>1, <2>1, <2>3, <2>4, GeneratedShape
  <2>6. c.name[2] = f
    BY <1>1, <2>5, BodyShape, FunctionGives
  <2>7. CASE c = Compiled(f)
    <3>1. c.code = [k \in DOMAIN prog[f].calls |-> CallBy(prog[f].calls[k])]
      BY <2>7, ChunkGives DEF Compiled
    <3>2. \A k \in DOMAIN prog[f].calls : c.code[k].to = Resolve(prog[f].calls[k])
      BY <3>1 DEF CallBy
    <3>3. Targets(c) = {Resolve(prog[f].calls[k]) : k \in DOMAIN prog[f].calls}
      BY <3>1, <3>2 DEF Targets
    <3> QED
      BY <2>6, <3>3 DEF CalledBy
  <2>8. ASSUME NEW unit \in Units(f), c = RestoredUnit(unit) PROVE Targets(c) = CalledBy(f)
    <3>1. unit \in cache /\ unit.name = Function(f) /\ unit.source = Source(f)
      BY DEF Units, RestorableFrom
    <3>2. c.code = [k \in DOMAIN unit.calls |-> CallBy(unit.calls[k])]
      BY <2>8, ChunkGives DEF RestoredUnit
    <3>3. \A k \in DOMAIN unit.calls : c.code[k].to = Resolve(unit.calls[k])
      BY <3>2 DEF CallBy
    <3>4. Targets(c) = {Resolve(unit.calls[k]) : k \in DOMAIN unit.calls}
      BY <3>2, <3>3 DEF Targets
    <3>5. unit.source[f] = prog[f]
      BY <2>2, <3>1 DEF Source
    <3>6. CallsStored(unit)
      BY <3>1 DEF CallsInv
    <3> QED
      BY <2>2, <3>1, <3>4, <3>5, <3>6 DEF CallsStored, CalledBy
  <2> QED
    BY <2>5, <2>6, <2>7, <2>8 DEF IsBody
<1>3. \A c \in Placed' : IsWhole(c)'
  BY <1>1, <1>2 DEF Placed, IsWhole, Targets, CalledBy
<1>4. InliningKeepsCalls'
  BY <1>1 DEF InliningKeepsCalls
<1> QED
  BY <1>1, <1>3, <1>4 DEF CallsInv, CallsStored

LEMMA CaptureKeepsCalls == ASSUME TableParameters, TableInv, CallsInv, Capture PROVE CallsInv'
<1>1. /\ pc = "capture" /\ pc' = "inline" /\ UNCHANGED <<prog, index, chunks, cache>>
      /\ callees' = {c \in chunks : c.name[1] = "function" /\ c.name[2] \in Candidates}
      /\ (\A c \in chunks : IsChunk(c) /\ Known(c) /\ Named(c)) /\ IndexInv
  BY DEF Capture, TableInv, ChunksInv, Phases
<1>2. PICK avoided \in SUBSET (Bodiless \union Aliases) :
         snapshot' = {UnitOf(c, avoided) : c \in {c \in chunks : c.name[1] = "function" /\ ~ NeedsCompanions(c)}}
  BY DEF Capture
<1>3. \A c \in Placed : IsWhole(c)
  BY <1>1 DEF CallsInv
<1>4. ASSUME NEW c \in Placed PROVE CallsStored(UnitOf(c, avoided))
  <2> DEFINE unit == UnitOf(c, avoided)
  <2>1. c \in chunks /\ c.name[1] = "function"
    BY DEF Placed
  <2>2. PICK f \in Functions : c.name = Function(f) /\ c.name[2] = f
    BY <1>1, <2>1, FunctionGives DEF Named
  <2>3. /\ unit.name = Function(f) /\ unit.source = Source(f)
        /\ unit.calls = [k \in DOMAIN c.code |-> NameOf(c.code[k].idx, avoided)]
    BY <2>2 DEF UnitOf
  <2>4. f \in DOMAIN unit.source /\ unit.source[f] = prog[f]
    BY <2>2, <2>3 DEF Source
  <2>5. ASSUME NEW k \in DOMAIN c.code PROVE Resolve(unit.calls[k]) = c.code[k].to
    <3>1. c.code[k].to \in DOMAIN index /\ index[c.code[k].to] = c.code[k].idx
      BY <1>1, <2>1 DEF Known
    <3>2. unit.calls[k] \in DOMAIN index /\ index[unit.calls[k]] = index[c.code[k].to]
      BY <2>3, <3>1, NameGives
    <3>3. Resolve(unit.calls[k]) = Resolve(c.code[k].to)
      BY <1>1, <3>1, <3>2 DEF IndexInv
    <3>4. c.code[k].to \in Functions
      <4>1. c.code[k] \in Instruction
        BY <1>1, <2>1 DEF IsChunk
      <4> QED
        BY <4>1 DEF Instruction
    <3> QED
      BY <3>3, <3>4, ResolveGives
  <2>6. {Resolve(unit.calls[k]) : k \in DOMAIN unit.calls} = Targets(c)
    <3>1. DOMAIN unit.calls = DOMAIN c.code
      BY <2>3
    <3> HIDE DEF unit
    <3> QED
      BY <2>5, <3>1 DEF Targets
  <2>7. Targets(c) = CalledBy(f)
    BY <1>3, <2>2 DEF IsWhole
  <2> HIDE DEF unit
  <2>8. {Resolve(unit.calls[k]) : k \in DOMAIN unit.calls}
          = {Resolve(unit.source[f].calls[k]) : k \in DOMAIN unit.source[f].calls}
    BY <2>4, <2>6, <2>7 DEF CalledBy
  <2>9. \A g \in Functions : unit.name = Function(g) => g = f
    BY <2>3, FunctionGives
  <2> QED
    BY <2>4, <2>8, <2>9 DEF CallsStored, unit
<1>5. \A unit \in snapshot' : CallsStored(unit)
  BY <1>2, <1>4 DEF Placed
<1>6. \A c \in Placed : Keeps(c, {})
  BY <1>3 DEF Keeps, IsWhole, CalledByAll
<1>7. InliningKeepsCalls'
  <2>1. \A c \in Placed' : Keeps(c, {})'
    BY <1>1, <1>6, CallsStand DEF Placed
  <2>2. {} \in SUBSET (Inlined')
    OBVIOUS
  <2>3. KeepsCalls'
    BY <2>1, <2>2 DEF KeepsCalls
  <2> QED
    BY <2>3, KeepsGives
<1>8. \A c \in callees' : IsWhole(c)' /\ c.name[1] = "function" /\ Named(c)'
  BY <1>1, <1>3, CallsStand DEF Placed, Named
<1> QED
  BY <1>1, <1>5, <1>7, <1>8 DEF CallsInv, CallsStored

\* The elements after one has been replaced by several.
LEMMA SpliceElements ==
    ASSUME NEW S, NEW t \in Seq(S), NEW r \in Seq(S), NEW k \in DOMAIN t,
           NEW all, all = ReplaceSubSeqAt(k, r, <<t[k]>>, t)
    PROVE  /\ \A n \in DOMAIN all : (\E m \in DOMAIN t : all[n] = t[m]) \/ (\E m \in DOMAIN r : all[n] = r[m])
           /\ \A m \in DOMAIN t : m # k => \E n \in DOMAIN all : all[n] = t[m]
           /\ \A m \in DOMAIN r : \E n \in DOMAIN all : all[n] = r[m]
<1> DEFINE head == SubSeq(t, 1, k - 1)
           tail == SubSeq(t, k + 1, Len(t))
<1>1. /\ Len(t) \in Nat /\ DOMAIN t = 1..Len(t) /\ Len(r) \in Nat /\ DOMAIN r = 1..Len(r)
      /\ k \in Int /\ 1 <= k /\ k <= Len(t) /\ \A n \in 1..Len(t) : t[n] \in S
  BY LenProperties, ElementOfSeq
<1>2. head \in Seq(S) /\ Len(head) = k - 1 /\ \A n \in 1..(k - 1) : head[n] = t[n]
  <2>1. \A n \in 1..(k - 1) : t[n] \in S
    BY <1>1
  <2> QED
    BY <1>1, <2>1, SubSeqProperties
<1>3. tail \in Seq(S) /\ Len(tail) = Len(t) - k /\ \A n \in 1..(Len(t) - k) : tail[n] = t[k + n]
  <2>1. \A n \in (k + 1)..Len(t) : t[n] \in S
    BY <1>1
  <2>2. /\ tail \in Seq(S) /\ Len(tail) = IF k + 1 <= Len(t) THEN Len(t) - (k + 1) + 1 ELSE 0
        /\ \A n \in 1..(Len(t) - (k + 1) + 1) : tail[n] = t[(k + 1) + n - 1]
    BY <1>1, <2>1, SubSeqProperties
  <2> HIDE DEF tail
  <2>3. ASSUME NEW n \in 1..(Len(t) - k) PROVE tail[n] = t[k + n]
    <3>1. n \in 1..(Len(t) - (k + 1) + 1) /\ (k + 1) + n - 1 = k + n
      BY <1>1
    <3>2. tail[n] = t[(k + 1) + n - 1]
      BY <2>2, <3>1
    <3> QED
      BY <3>1, <3>2
  <2>4. Len(tail) = Len(t) - k
    BY <1>1, <2>2
  <2> QED
    BY <2>2, <2>3, <2>4
<1>4. all = head \o r \o tail
  <2>1. Len(<<t[k]>>) = 1
    OBVIOUS
  <2> QED
    BY <2>1 DEF ReplaceSubSeqAt
<1> HIDE DEF head, tail
<1> DEFINE front == head \o r
<1>5. /\ front \in Seq(S) /\ Len(front) = k - 1 + Len(r)
      /\ \A n \in 1..(k - 1 + Len(r)) : front[n] = IF n <= k - 1 THEN head[n] ELSE r[n - (k - 1)]
  BY <1>2, ConcatProperties
<1>6. all = front \o tail
  BY <1>4
<1> HIDE DEF front
<1>7. /\ all \in Seq(S) /\ Len(all) = k - 1 + Len(r) + (Len(t) - k)
      /\ \A n \in 1..(k - 1 + Len(r) + (Len(t) - k)) :
           all[n] = IF n <= k - 1 + Len(r) THEN front[n] ELSE tail[n - (k - 1 + Len(r))]
  <2>1. /\ all \in Seq(S) /\ Len(all) = Len(front) + Len(tail)
        /\ \A n \in 1..(Len(front) + Len(tail)) : all[n] = IF n <= Len(front) THEN front[n] ELSE tail[n - Len(front)]
    <3>1. front \in Seq(S) /\ tail \in Seq(S)
      BY <1>3, <1>5
    <3>2. /\ front \o tail \in Seq(S) /\ Len(front \o tail) = Len(front) + Len(tail)
          /\ \A n \in 1..(Len(front) + Len(tail)) :
               (front \o tail)[n] = IF n <= Len(front) THEN front[n] ELSE tail[n - Len(front)]
      BY <3>1, ConcatProperties
    <3> QED
      BY <1>6, <3>2
  <2>2. Len(front) = k - 1 + Len(r) /\ Len(tail) = Len(t) - k
    BY <1>3, <1>5
  <2> QED
    BY <2>1, <2>2
<1>8. DOMAIN all = 1..(k - 1 + Len(r) + (Len(t) - k))
  BY <1>7
<1>9. ASSUME NEW n \in 1..(k - 1) PROVE n \in DOMAIN all /\ all[n] = t[n]
  <2>1. n \in 1..(k - 1 + Len(r)) /\ n \in DOMAIN all /\ n <= k - 1 /\ n <= k - 1 + Len(r)
    BY <1>1, <1>8
  <2>2. all[n] = front[n] /\ front[n] = head[n] /\ head[n] = t[n]
    BY <1>2, <1>5, <1>7, <1>8, <2>1
  <2> QED
    BY <2>1, <2>2
<1>10. ASSUME NEW n \in 1..Len(r) PROVE k - 1 + n \in DOMAIN all /\ all[k - 1 + n] = r[n]
  <2> DEFINE i == k - 1 + n
  <2>1. /\ i \in 1..(k - 1 + Len(r)) /\ i \in DOMAIN all /\ ~ (i <= k - 1) /\ i <= k - 1 + Len(r) /\ i - (k - 1) = n
    BY <1>1, <1>8
  <2> HIDE DEF i
  <2>2. all[i] = front[i] /\ front[i] = r[i - (k - 1)]
    BY <1>5, <1>7, <1>8, <2>1
  <2> QED
    BY <2>1, <2>2 DEF i
<1>11. ASSUME NEW n \in 1..(Len(t) - k)
       PROVE  k - 1 + Len(r) + n \in DOMAIN all /\ all[k - 1 + Len(r) + n] = t[k + n]
  <2> DEFINE i == k - 1 + Len(r) + n
  <2>1. i \in DOMAIN all /\ ~ (i <= k - 1 + Len(r)) /\ i - (k - 1 + Len(r)) = n
    BY <1>1, <1>8
  <2> HIDE DEF i
  <2>2. all[i] = tail[i - (k - 1 + Len(r))] /\ tail[n] = t[k + n]
    BY <1>3, <1>7, <1>8, <2>1
  <2> QED
    BY <2>1, <2>2 DEF i
<1>12. ASSUME NEW n \in DOMAIN all
       PROVE  (\E m \in DOMAIN t : all[n] = t[m]) \/ (\E m \in DOMAIN r : all[n] = r[m])
  <2>1. CASE n \in 1..(k - 1)
    <3>1. n \in DOMAIN t
      BY <1>1, <2>1
    <3> QED
      BY <1>9, <2>1, <3>1
  <2>2. CASE n - (k - 1) \in 1..Len(r)
    <3>1. n = k - 1 + (n - (k - 1)) /\ n - (k - 1) \in DOMAIN r
      BY <1>1, <1>8, <2>2
    <3> QED
      BY <1>10, <2>2, <3>1
  <2>3. CASE n - (k - 1 + Len(r)) \in 1..(Len(t) - k)
    <3> DEFINE m == n - (k - 1 + Len(r))
    <3>1. m \in Int /\ 1 <= m /\ m <= Len(t) - k /\ n = k - 1 + Len(r) + m
      BY <1>1, <1>8, <2>3
    <3>2. all[k - 1 + Len(r) + m] = t[k + m]
      BY <1>11, <2>3
    <3> HIDE DEF m
    <3>3. k + m \in DOMAIN t
      BY <1>1, <3>1
    <3> QED
      BY <3>1, <3>2, <3>3
  <2>4. n \in 1..(k - 1) \/ n - (k - 1) \in 1..Len(r) \/ n - (k - 1 + Len(r)) \in 1..(Len(t) - k)
    BY <1>1, <1>8
  <2> QED
    BY <2>1, <2>2, <2>3, <2>4
<1>13. ASSUME NEW m \in DOMAIN t, m # k PROVE \E n \in DOMAIN all : all[n] = t[m]
  <2>1. CASE m \in 1..(k - 1)
    BY <1>9, <2>1
  <2>2. CASE m - k \in 1..(Len(t) - k)
    <3>1. k + (m - k) = m
      BY <1>1
    <3> QED
      BY <1>11, <2>2, <3>1
  <2>3. m \in 1..(k - 1) \/ m - k \in 1..(Len(t) - k)
    BY <1>1, <1>13
  <2> QED
    BY <2>1, <2>2, <2>3
<1>14. \A m \in DOMAIN r : \E n \in DOMAIN all : all[n] = r[m]
  BY <1>1, <1>10
<1> QED
  BY <1>12, <1>13, <1>14

LEMMA InlineKeepsCalls == ASSUME TableParameters, TableInv, CallsInv, InlineCall PROVE CallsInv'
<1>1. pc = "inline" /\ UNCHANGED <<prog, pc, index, callees, snapshot, cache>>
      /\ (\A c \in chunks : IsChunk(c) /\ Known(c) /\ Named(c)) /\ IndexInv
      /\ \A c \in callees : IsChunk(c) /\ Known(c) /\ IsWhole(c) /\ c.name[1] = "function" /\ Named(c)
  BY DEF InlineCall, TableInv, ChunksInv, CallsInv, Phases
<1>2. PICK c \in chunks, callee \in callees : \E k \in DOMAIN c.code :
         /\ c.code[k].idx = index[callee.name[2]]
         /\ chunks' = (chunks \ {c}) \union
              {Chunk(c.name, ReplaceSubSeqAt(k, callee.code, <<c.code[k]>>, c.code),
                     c.addresses \union callee.addresses)}
  BY DEF InlineCall
<1>3. PICK k \in DOMAIN c.code :
         /\ c.code[k].idx = index[callee.name[2]]
         /\ chunks' = (chunks \ {c}) \union
              {Chunk(c.name, ReplaceSubSeqAt(k, callee.code, <<c.code[k]>>, c.code),
                     c.addresses \union callee.addresses)}
  BY <1>2
<1> DEFINE code == ReplaceSubSeqAt(k, callee.code, <<c.code[k]>>, c.code)
           spliced == Chunk(c.name, code, c.addresses \union callee.addresses)
           h == callee.name[2]
<1>4. h \in Inlined /\ h \in Functions \intersect DOMAIN index /\ Targets(callee) = CalledBy(h)
  BY <1>1, FunctionGives DEF Inlined, Named, IsWhole
<1>5. c.code \in Seq(Instruction) /\ callee.code \in Seq(Instruction)
  BY <1>1 DEF IsChunk
<1>6. c.code[k].to = h
  <2>1. c.code[k].to \in DOMAIN index /\ index[c.code[k].to] = index[h] /\ c.code[k] \in Instruction
    BY <1>1, <1>3, <1>5 DEF Known
  <2> QED
    BY <1>1, <1>4, <2>1, ResolveGives DEF IndexInv, Instruction
<1>7. Targets(spliced) \union {h} = Targets(c) \union CalledBy(h)
  <2>1. spliced.code = code /\ DOMAIN spliced.code = DOMAIN code
    BY ChunkGives
  <2>2. /\ \A n \in DOMAIN code : \/ \E m \in DOMAIN c.code : code[n] = c.code[m]
                                  \/ \E m \in DOMAIN callee.code : code[n] = callee.code[m]
        /\ \A m \in DOMAIN c.code : m # k => \E n \in DOMAIN code : code[n] = c.code[m]
        /\ \A m \in DOMAIN callee.code : \E n \in DOMAIN code : code[n] = callee.code[m]
    <3>1. code = ReplaceSubSeqAt(k, callee.code, <<c.code[k]>>, c.code)
      OBVIOUS
    <3> HIDE DEF spliced, code
    <3> QED
      BY <1>5, <3>1, SpliceElements
  <2> HIDE DEF code, spliced
  <2>3. Targets(spliced) \subseteq Targets(c) \union Targets(callee)
    BY <2>1, <2>2 DEF Targets
  <2>4. Targets(callee) \subseteq Targets(spliced)
    BY <2>1, <2>2 DEF Targets
  <2>5. Targets(c) \subseteq Targets(spliced) \union {h} /\ h \in Targets(c)
    BY <1>6, <2>1, <2>2 DEF Targets
  <2> QED
    BY <1>4, <2>3, <2>4, <2>5
<1>8. spliced.name = c.name /\ chunks' = (chunks \ {c}) \union {spliced}
  BY <1>3, ChunkGives
<1> HIDE DEF code, spliced, h
<1>9. ASSUME NEW inlined \in SUBSET Inlined, Keeps(c, inlined) PROVE Keeps(spliced, inlined \union {h})
  <2> DEFINE before == CalledByAll({c.name[2]} \union inlined)
             after == CalledByAll({c.name[2]} \union (inlined \union {h}))
  <2>1. after = before \union CalledBy(h)
    BY DEF CalledByAll
  <2>2. Targets(c) \union inlined = before \union inlined
    BY <1>9 DEF Keeps
  <2>3. Keeps(spliced, inlined \union {h})
          <=> Targets(spliced) \union (inlined \union {h}) = after \union (inlined \union {h})
    BY <1>8 DEF Keeps
  <2> HIDE DEF before, after
  <2>4. Targets(spliced) \union (inlined \union {h}) = after \union (inlined \union {h})
    BY <1>7, <2>1, <2>2
  <2> QED
    BY <2>3, <2>4
<1>10. \A d \in Placed : \E inlined \in SUBSET Inlined : Keeps(d, inlined)
  BY <1>1, KeepsGives DEF CallsInv, KeepsCalls
<1>11. \A d \in {d \in chunks' : d.name[1] = "function"} : \E inlined \in SUBSET Inlined : Keeps(d, inlined)
  <2> TAKE d \in {d \in chunks' : d.name[1] = "function"}
  <2>1. CASE d = spliced
    <3>1. PICK inlined \in SUBSET Inlined : Keeps(c, inlined)
      BY <1>8, <1>10, <2>1 DEF Placed
    <3>2. inlined \union {h} \in SUBSET Inlined
      BY <1>4
    <3> QED
      BY <1>9, <2>1, <3>1, <3>2
  <2>2. CASE d # spliced
    BY <1>8, <1>10, <2>2 DEF Placed
  <2> QED
    BY <2>1, <2>2
<1>12. InliningKeepsCalls'
  <2>1. KeepsCalls'
    BY <1>1, <1>11, CallsStand DEF KeepsCalls, Placed, Inlined
  <2> QED
    BY <2>1, KeepsGives
<1>13. \A d \in callees' : IsWhole(d)' /\ d.name[1] = "function" /\ Named(d)'
  BY <1>1, CallsStand DEF Named
<1> QED
  BY <1>1, <1>12, <1>13 DEF CallsInv, CallsStored

\* Functions that move take their calls along.
LEMMA MovingKeepsCalls ==
    ASSUME pc \in {"eliminate", "compact"}, InliningKeepsCalls, pc' \in Phases,
           UNCHANGED <<prog, callees>>,
           \A d \in chunks' : \E c \in chunks : d.name = c.name /\ Targets(d) = Targets(c)
    PROVE  InliningKeepsCalls'
<1>1. \A c \in Placed : \E inlined \in SUBSET Inlined : Keeps(c, inlined)
  BY KeepsGives DEF KeepsCalls
<1>2. \A d \in {d \in chunks' : d.name[1] = "function"} : \E inlined \in SUBSET Inlined : Keeps(d, inlined)
  BY <1>1 DEF Placed, Keeps
<1>3. KeepsCalls'
  BY <1>2, CallsStand DEF KeepsCalls, Placed, Inlined
<1> QED
  BY <1>3, KeepsGives

LEMMA RenumberKeepsTargets ==
    ASSUME NEW c, IsChunk(c), NEW new
    PROVE  Renumber(c, new).name = c.name /\ Targets(Renumber(c, new)) = Targets(c)
<1> DEFINE Moved(call) == [call EXCEPT !.idx = IF @ \in DOMAIN new THEN new[@] ELSE @]
           code == [k \in DOMAIN c.code |-> Moved(c.code[k])]
<1>1. c = Chunk(c.name, c.code, c.addresses) /\ c.code \in Seq(Instruction)
  BY DEF IsChunk
<1>2. ASSUME NEW call \in Instruction PROVE Moved(call).to = call.to
  BY DEF Instruction
<1> HIDE DEF Moved
<1>3. \A k \in DOMAIN c.code : code[k].to = c.code[k].to
  <2> TAKE k \in DOMAIN c.code
  <2>1. c.code[k] \in Instruction
    BY <1>1
  <2> QED
    BY <1>2, <2>1
<1>4. Renumber(c, new) = [c EXCEPT !.code = code]
  BY DEF Renumber, Moved
<1>5. DOMAIN code = DOMAIN c.code
  OBVIOUS
<1> HIDE DEF code
<1>6. [c EXCEPT !.code = code] = Chunk(c.name, code, c.addresses)
  BY <1>1 DEF Chunk
<1> QED
  BY <1>3, <1>4, <1>5, <1>6, ChunkGives DEF Targets

LEMMA NextKeepsCalls ==
    ASSUME TableParameters, TableInv, CallsInv, [TableNext]_tableVars PROVE CallsInv'
<1>1. CASE AssignIndices
  <2>1. pc' = "generate" /\ snapshot' = snapshot /\ cache' = cache
    BY <1>1 DEF AssignIndices
  <2> QED
    BY <2>1 DEF CallsInv, InliningKeepsCalls, CallsStored
<1>2. CASE Generate
  BY <1>2, GenerateKeepsCalls
<1>3. CASE Capture
  BY <1>3, CaptureKeepsCalls
<1>4. CASE InlineCall
  BY <1>4, InlineKeepsCalls
<1>5. CASE EndInlining
  <2>1. pc = "inline" /\ pc' = "eliminate" /\ UNCHANGED <<prog, callees, chunks, snapshot, cache>>
    BY <1>5 DEF EndInlining
  <2>2. KeepsCalls'
    BY <2>1, CallsStand, KeepsGives DEF CallsInv, KeepsCalls, Placed, Inlined
  <2> QED
    BY <2>1, <2>2, KeepsGives DEF CallsInv, CallsStored
<1>6. CASE Eliminate
  <2> DEFINE dead == {index[f] : f \in Inlined} \ Called
             kept == {name \in DOMAIN index : index[name] \notin dead}
             new == Dense({index[name] : name \in kept})
  <2>1. /\ pc = "eliminate" /\ pc' = "compact" /\ UNCHANGED <<prog, callees, snapshot, cache>>
        /\ chunks' = {Renumber(c, new) : c \in {c \in chunks : c.name[1] = "function" => c.name[2] \in kept}}
    BY <1>6 DEF Eliminate
  <2> HIDE DEF kept, new
  <2>2. \A d \in chunks' : \E c \in chunks : d.name = c.name /\ Targets(d) = Targets(c)
    BY <2>1, RenumberKeepsTargets DEF TableInv, ChunksInv
  <2>3. InliningKeepsCalls'
    BY <2>1, <2>2, MovingKeepsCalls DEF CallsInv, Phases
  <2> QED
    BY <2>1, <2>3 DEF CallsInv, CallsStored
<1>7. CASE Compact
  <2>1. /\ pc = "compact" /\ pc' = "done" /\ UNCHANGED <<prog, callees, snapshot>> /\ cache' = snapshot
        /\ chunks' = {Renumber(c, Moves) : c \in chunks}
    BY <1>7, CompactGives
  <2>2. \A d \in chunks' : \E c \in chunks : d.name = c.name /\ Targets(d) = Targets(c)
    BY <2>1, RenumberKeepsTargets DEF TableInv, ChunksInv
  <2>3. InliningKeepsCalls'
    BY <2>1, <2>2, MovingKeepsCalls DEF CallsInv, Phases
  <2> QED
    BY <2>1, <2>3 DEF CallsInv, CallsStored
<1>8. ASSUME NEW f \in Functions, NEW body \in Bodies[f] \ {prog[f]}, EditBody(f, body) PROVE CallsInv'
  <2>1. pc' = "edited" /\ snapshot' = {} /\ cache' = cache
    BY <1>8 DEF EditBody
  <2> QED
    BY <2>1 DEF CallsInv, InliningKeepsCalls, CallsStored
<1>9. CASE UNCHANGED tableVars
  <2>1. UNCHANGED <<prog, pc, index, chunks, callees, snapshot, cache>>
    BY <1>9 DEF tableVars
  <2>2. KeepsCalls'
    BY <2>1, CallsStand, KeepsGives DEF CallsInv, KeepsCalls, Placed, Inlined
  <2>3. /\ pc' = "capture" => \A c \in Placed' : IsWhole(c)'
        /\ pc' = "inline" => \A c \in callees' : IsWhole(c)' /\ c.name[1] = "function" /\ Named(c)'
    BY <2>1, CallsStand DEF CallsInv, Placed, Named
  <2> QED
    BY <2>1, <2>2, <2>3, KeepsGives DEF CallsInv, CallsStored
<1> QED
  BY <1>1, <1>2, <1>3, <1>4, <1>5, <1>6, <1>7, <1>8, <1>9 DEF TableNext, Pass

\* Restored or compiled, spliced, dropped or moved: a call in the code, and in the
\* result, is to the function its source names; and of the calls of a function's
\* source none is lost but for the calls of what replaced it.
THEOREM EveryCallReachesItsFunction ==
    ASSUME TableParameters PROVE TableSpec => []CallsReachTheirFunction
<1>1. TableInit => TableInv /\ CallsInv
  <2> SUFFICES ASSUME TableInit PROVE TableInv /\ CallsInv
    OBVIOUS
  <2>1. pc = "edited" /\ snapshot = {} /\ cache = {}
    BY DEF TableInit
  <2> QED
    BY <2>1, InitTable DEF CallsInv, InliningKeepsCalls
<1>2. TableInv /\ CallsInv /\ [TableNext]_tableVars => TableInv' /\ CallsInv'
  BY NextTable, NextKeepsCalls
<1>3. TableInv /\ CallsInv => CallsReachTheirFunction
  BY DEF TableInv, CallsInv, CallsReachTheirFunction
<1> QED
  BY <1>1, <1>2, <1>3, PTL DEF TableSpec

-----------------------------------------------------------------------------
(***************************************************************************)
(* A partial build generates what a full one would, for programs that take *)
(* no exported function's address for C.  Of one that does a restored      *)
(* chunk may hold the address of an adapter that has since been renamed:   *)
(* that is the violation run FnCallback finds.                             *)
(***************************************************************************)

NoCallbacks == \A f \in Functions : \A body \in Bodies[f] : \A k \in DOMAIN body.takes : body.takes[k].kind # "callback"

\* A unit holds the calls and the addresses of the body it was compiled from, and
\* that body needs no companions.
Stored(unit) ==
    \E f \in Functions \ Bodiless :
        /\ unit.name = Function(f)
        /\ f \in DOMAIN unit.source
        /\ DOMAIN unit.calls = DOMAIN unit.source[f].calls
        /\ \A k \in DOMAIN unit.calls : Resolve(unit.calls[k]) = Resolve(unit.source[f].calls[k])
        /\ \A k \in DOMAIN unit.source[f].takes : unit.source[f].takes[k].kind = "vtable"
        /\ unit.addresses = {Function(Resolve(unit.source[f].takes[k].to)) : k \in DOMAIN unit.source[f].takes}

FullInv == PartialIsFull /\ \A unit \in snapshot \union cache : Stored(unit)

\* A stored unit of an unchanged source is restored as it would be compiled.
LEMMA RestoredIsCompiled ==
    ASSUME TableParameters, TableInv, FullInv, pc = "generate", NEW f \in InTable, NEW unit \in Units(f)
    PROVE  RestoredUnit(unit) = Compiled(f) /\ Companions(f) = {} /\ f \notin Bodiless
<1>1. f \in Functions /\ prog \in Programs /\ IndexInv
  BY DEF InTable, TableInv, Placements
<1>2. /\ unit \in cache /\ unit.name = Function(f) /\ unit.source = Source(f)
      /\ \A k \in DOMAIN unit.calls : unit.calls[k] \in DOMAIN index
  BY DEF Units, RestorableFrom
<1>3. f \in DOMAIN Source(f) /\ Source(f)[f] = prog[f]
  BY <1>1 DEF Source
<1>4. /\ f \notin Bodiless /\ DOMAIN unit.calls = DOMAIN prog[f].calls
      /\ \A k \in DOMAIN unit.calls : Resolve(unit.calls[k]) = Resolve(prog[f].calls[k])
      /\ \A k \in DOMAIN prog[f].takes : prog[f].takes[k].kind = "vtable"
      /\ unit.addresses = {Function(Resolve(prog[f].takes[k].to)) : k \in DOMAIN prog[f].takes}
  <2>1. PICK g \in Functions \ Bodiless :
              /\ unit.name = Function(g)
              /\ DOMAIN unit.calls = DOMAIN unit.source[g].calls
              /\ \A k \in DOMAIN unit.calls : Resolve(unit.calls[k]) = Resolve(unit.source[g].calls[k])
              /\ \A k \in DOMAIN unit.source[g].takes : unit.source[g].takes[k].kind = "vtable"
              /\ unit.addresses = {Function(Resolve(unit.source[g].takes[k].to)) : k \in DOMAIN unit.source[g].takes}
    BY <1>2 DEF FullInv, Stored
  <2>2. g = f /\ unit.source[g] = prog[f]
    BY <1>2, <1>3, <2>1, FunctionGives
  <2> QED
    BY <2>1, <2>2
<1>5. \A k \in DOMAIN prog[f].calls : CallBy(unit.calls[k]) = CallBy(prog[f].calls[k])
  <2> TAKE k \in DOMAIN prog[f].calls
  <2>1. unit.calls[k] \in DOMAIN index /\ prog[f].calls[k] \in DOMAIN index
    BY <1>2, <1>4, ReferencesAreIndexed
  <2>2. Resolve(unit.calls[k]) = Resolve(prog[f].calls[k])
    BY <1>4
  <2>3. index[unit.calls[k]] = index[prog[f].calls[k]]
    BY <1>1, <2>1, <2>2 DEF IndexInv
  <2> QED
    BY <2>2, <2>3 DEF CallBy
<1>6. [k \in DOMAIN unit.calls |-> CallBy(unit.calls[k])] = [k \in DOMAIN prog[f].calls |-> CallBy(prog[f].calls[k])]
  BY <1>4, <1>5
<1>7. \A k \in DOMAIN prog[f].takes : TakenAddress(f, k) = Function(Resolve(prog[f].takes[k].to))
  BY <1>4 DEF TakenAddress
<1>8. unit.addresses = {TakenAddress(f, k) : k \in DOMAIN prog[f].takes}
  BY <1>4, <1>7
<1>9. Takes(prog[f], {"value", "closure"}) = {}
  BY <1>4 DEF Takes
<1> QED
  BY <1>2, <1>4, <1>6, <1>8, <1>9 DEF RestoredUnit, Compiled, Companions

LEMMA GenerateIsFull ==
    ASSUME TableParameters, TableInv, FullInv, Generate PROVE FullInv'
<1>1. /\ pc = "generate" /\ chunks' = UNION {Generated(f) : f \in InTable}
      /\ UNCHANGED <<prog, index, snapshot, cache>>
  BY DEF Generate
<1>2. \A f \in InTable : Generated(f) = Fresh(f)
  <2> TAKE f \in InTable
  <2>1. CASE Units(f) = {}
    BY <2>1 DEF Generated, Units
  <2>2. CASE Units(f) # {}
    <3>1. Companions(f) = {} /\ f \notin Bodiless /\ \A unit \in Units(f) : RestoredUnit(unit) = Compiled(f)
      BY <1>1, <2>2, RestoredIsCompiled
    <3>2. {RestoredUnit(unit) : unit \in Units(f)} = {Compiled(f)}
      BY <2>2, <3>1
    <3>3. Generated(f) = {RestoredUnit(unit) : unit \in Units(f)} \union Adapters(f)
      BY <2>2 DEF Generated, Units
    <3> QED
      BY <3>1, <3>2, <3>3 DEF Fresh
  <2> QED
    BY <2>1, <2>2
<1>3. chunks' = UNION {Fresh(f) : f \in InTable}
  BY <1>1, <1>2
<1>4. (UNION {Fresh(f) : f \in InTable})' = UNION {Fresh(f) : f \in InTable}
  BY <1>1 DEF InTable, Fresh, Compiled, Companions, Adapters, TakenAddress, Adapter, CallBy, Chunk
<1>5. PartialIsFull'
  BY <1>3, <1>4 DEF PartialIsFull
<1> QED
  BY <1>1, <1>5 DEF FullInv, Stored

\* The chunk of a body, when everything was compiled.
LEMMA FreshBody ==
    ASSUME TableParameters, prog \in Programs, NEW f \in Functions, NEW c \in Fresh(f), c.name[1] = "function"
    PROVE  c = Compiled(f) /\ f \notin Bodiless
<1>1. c \notin Adapters(f)
  BY DEF Adapters, Adapter, Chunk
<1>2. c \notin Companions(f)
  <2> SUFFICES ASSUME NEW k \in Takes(prog[f], {"value", "closure"}),
                      c = Chunk(TakenAddress(f, k), <<CallBy(prog[f].takes[k].to)>>, {})
               PROVE  FALSE
    BY DEF Companions
  <2>1. prog[f].takes[k].kind \in {"value", "closure"}
    BY DEF Takes
  <2>2. TakenAddress(f, k)[1] \in {"forwarder", "closure"}
    BY <2>1 DEF TakenAddress, Forwarder, ClosureIn
  <2>3. c.name = TakenAddress(f, k)
    BY ChunkGives
  <2> QED
    BY <2>2, <2>3
<1> QED
  BY <1>1, <1>2 DEF Fresh

LEMMA CaptureIsFull ==
    ASSUME TableParameters, NoCallbacks, TableInv, FullInv, Capture PROVE FullInv'
<1>1. /\ pc = "capture" /\ pc' = "inline" /\ cache' = cache
      /\ prog \in Programs /\ IndexInv /\ \A c \in chunks : IsChunk(c) /\ Known(c)
      /\ chunks = UNION {Fresh(f) : f \in InTable}
  BY DEF Capture, TableInv, Placements, ChunksInv, Phases, FullInv, PartialIsFull
<1>2. PICK avoided \in SUBSET (Bodiless \union Aliases) :
         snapshot' = {UnitOf(c, avoided) : c \in {c \in chunks : c.name[1] = "function" /\ ~ NeedsCompanions(c)}}
  BY DEF Capture
<1>3. ASSUME NEW c \in chunks, c.name[1] = "function", ~ NeedsCompanions(c)
      PROVE  Stored(UnitOf(c, avoided))
  <2>1. PICK f \in InTable : c \in Fresh(f)
    BY <1>1
  <2>2. f \in Functions /\ c = Compiled(f) /\ f \notin Bodiless
    BY <1>1, <1>3, <2>1, FreshBody DEF InTable
  <2> DEFINE unit == UnitOf(c, avoided)
  <2>3. /\ c.name = Function(f) /\ c.addresses = {TakenAddress(f, k) : k \in DOMAIN prog[f].takes}
        /\ c.code = [k \in DOMAIN prog[f].calls |-> CallBy(prog[f].calls[k])]
    BY <2>2, ChunkGives DEF Compiled
  <2>4. /\ unit.name = Function(f) /\ unit.source = Source(f) /\ unit.addresses = c.addresses
        /\ unit.calls = [k \in DOMAIN c.code |-> NameOf(c.code[k].idx, avoided)]
    BY <2>3, FunctionGives DEF UnitOf
  <2>5. f \in DOMAIN unit.source /\ unit.source[f] = prog[f]
    BY <2>2, <2>4 DEF Source
  <2>6. DOMAIN unit.calls = DOMAIN prog[f].calls
    BY <2>3, <2>4
  <2>7. ASSUME NEW k \in DOMAIN unit.calls PROVE Resolve(unit.calls[k]) = Resolve(prog[f].calls[k])
    <3>1. k \in DOMAIN c.code /\ unit.calls[k] = NameOf(c.code[k].idx, avoided) /\ c.code[k] = CallBy(prog[f].calls[k])
      BY <2>3, <2>4, <2>6
    <3>2. c.code[k].to \in DOMAIN index /\ index[c.code[k].to] = c.code[k].idx
      BY <1>1, <3>1 DEF Known
    <3>3. c.code[k].to = Resolve(prog[f].calls[k])
      BY <3>1 DEF CallBy
    <3>4. unit.calls[k] \in DOMAIN index /\ index[unit.calls[k]] = index[c.code[k].to]
      BY <3>1, <3>2, NameGives
    <3>5. Resolve(unit.calls[k]) = Resolve(c.code[k].to)
      BY <1>1, <3>2, <3>4 DEF IndexInv
    <3>6. Resolve(prog[f].calls[k]) \in Functions
      BY <1>1, <2>2, <2>6, BodyGives, ResolveGives
    <3> QED
      BY <3>3, <3>5, <3>6, ResolveGives
  <2>8. ASSUME NEW k \in DOMAIN prog[f].takes
        PROVE  prog[f].takes[k].kind = "vtable" /\ TakenAddress(f, k) = Function(Resolve(prog[f].takes[k].to))
    <3>1. TakenAddress(f, k)[1] \notin {"closure", "forwarder"}
      BY <1>3, <2>3 DEF NeedsCompanions
    <3>2. prog[f].takes[k].kind \in Kinds /\ prog[f].takes[k].kind # "callback"
      BY <1>1, <2>2, TakeGives, BodyGives DEF NoCallbacks
    <3>3. prog[f].takes[k].kind # "value" /\ prog[f].takes[k].kind # "closure"
      BY <3>1 DEF TakenAddress, Forwarder, ClosureIn
    <3>4. prog[f].takes[k].kind = "vtable"
      BY <3>2, <3>3 DEF Kinds
    <3> QED
      BY <3>4 DEF TakenAddress
  <2>9. unit.addresses = {Function(Resolve(prog[f].takes[k].to)) : k \in DOMAIN prog[f].takes}
    BY <2>3, <2>4, <2>8
  <2> QED
    BY <2>2, <2>4, <2>5, <2>6, <2>7, <2>8, <2>9 DEF Stored
<1>4. \A unit \in snapshot' : Stored(unit)
  BY <1>2, <1>3
<1>5. PartialIsFull'
  BY <1>1 DEF PartialIsFull
<1>6. \A unit \in cache' : Stored(unit)
  BY <1>1 DEF FullInv
<1> QED
  BY <1>4, <1>5, <1>6 DEF FullInv

\* The other steps leave the units alone, or hand them on.
LEMMA NextIsFull ==
    ASSUME TableParameters, NoCallbacks, TableInv, FullInv, [TableNext]_tableVars PROVE FullInv'
<1>1. CASE AssignIndices \/ InlineCall \/ EndInlining \/ Eliminate
  <2>1. snapshot' = snapshot /\ cache' = cache /\ pc' # "capture"
    BY <1>1 DEF AssignIndices, InlineCall, EndInlining, Eliminate
  <2> QED
    BY <2>1 DEF FullInv, PartialIsFull, Stored
<1>2. CASE Generate
  BY <1>2, GenerateIsFull
<1>3. CASE Capture
  BY <1>3, CaptureIsFull
<1>4. CASE Compact
  <2>1. snapshot' = snapshot /\ cache' = snapshot /\ pc' # "capture"
    BY <1>4, CompactGives
  <2> QED
    BY <2>1 DEF FullInv, PartialIsFull, Stored
<1>5. ASSUME NEW f \in Functions, NEW body \in Bodies[f] \ {prog[f]}, EditBody(f, body) PROVE FullInv'
  <2>1. snapshot' = {} /\ cache' = cache /\ pc' # "capture"
    BY <1>5 DEF EditBody
  <2> QED
    BY <2>1 DEF FullInv, PartialIsFull, Stored
<1>6. CASE UNCHANGED tableVars
  <2>1. UNCHANGED <<prog, pc, index, chunks, snapshot, cache>>
    BY <1>6 DEF tableVars
  <2>2. (UNION {Fresh(f) : f \in InTable})' = UNION {Fresh(f) : f \in InTable}
    BY <2>1 DEF InTable, Fresh, Compiled, Companions, Adapters, TakenAddress, Adapter, CallBy, Chunk
  <2>3. PartialIsFull'
    BY <2>1, <2>2 DEF FullInv, PartialIsFull
  <2> QED
    BY <2>1, <2>3 DEF FullInv
<1> QED
  BY <1>1, <1>2, <1>3, <1>4, <1>5, <1>6 DEF TableNext, Pass

\* Whatever the cache holds, the chunks that are restored and those that are compiled
\* are together the chunks of a full compilation.
THEOREM PartialBuildsAreFull == ASSUME TableParameters, NoCallbacks PROVE TableSpec => []PartialIsFull
<1>1. TableInit => TableInv /\ FullInv
  <2> SUFFICES ASSUME TableInit PROVE TableInv /\ FullInv
    OBVIOUS
  <2>1. pc = "edited" /\ snapshot = {} /\ cache = {}
    BY DEF TableInit
  <2> QED
    BY <2>1, InitTable DEF FullInv, PartialIsFull
<1>2. TableInv /\ FullInv /\ [TableNext]_tableVars => TableInv' /\ FullInv'
  BY NextTable, NextIsFull
<1>3. TableInv /\ FullInv => PartialIsFull
  BY DEF FullInv
<1> QED
  BY <1>1, <1>2, <1>3, PTL DEF TableSpec
-----------------------------------------------------------------------------
(***************************************************************************)
(* The addresses a program takes are those of code it has, for programs    *)
(* that take no exported function's address for C (run FnCallback) and     *)
(* whose methods in tables of trait objects are kept in any case, which    *)
(* the code sees to in a library only.  Forwarders and closures stay with  *)
(* their functions, and elimination, which looks for calls, may miss no    *)
(* address.                                                                *)
(***************************************************************************)

MethodsAreKept ==
    \A f \in Functions : \A body \in Bodies[f] : \A k \in DOMAIN body.takes :
        body.takes[k].kind = "vtable" => Resolve(body.takes[k].to) \in Roots \ Small

\* The code at an address: a chunk of the program, or a dependency's.
IsThere(a, S) == (\E d \in S : d.name = a) \/ \E f \in Bodiless : a = Function(f)

\* A function's own address is taken for a table only.
IsMethod(a) == a[1] = "function" => \E f \in Roots \ Small : a = Function(f)

AddressInv ==
    /\ pc = "generate" => Roots \subseteq DOMAIN index
    /\ \A c \in callees : c.name[2] \in Small
    /\ pc \in {"inline", "eliminate"} => Inlined \subseteq Functions \intersect DOMAIN index
    /\ pc # "failed" => \A c \in chunks \union callees : \A a \in c.addresses : IsMethod(a) /\ IsThere(a, chunks)

\* The code behind an address stays as long as a chunk of its name does.
LEMMA StaysThere ==
    ASSUME NEW S, NEW T, NEW a, IsThere(a, S), \A d \in S : d.name = a => \E e \in T : e.name = a
    PROVE  IsThere(a, T)
  BY DEF IsThere

LEMMA AssignAddresses ==
    ASSUME TableParameters, TableInv, AddressInv, AssignIndices PROVE AddressInv'
<1>1. /\ pc = "edited" /\ pc' = "generate" /\ UNCHANGED <<chunks, callees>>
      /\ DOMAIN index' = {name \in Names : Resolve(name) \in Live}
  BY DEF AssignIndices
<1>2. Roots \subseteq Live
  BY DEF Live, Closure, TableParameters
<1>3. Roots \subseteq DOMAIN index'
  BY <1>1, <1>2, ResolveGives DEF TableParameters
<1>4. chunks = {} /\ callees = {}
  BY <1>1 DEF TableInv, ChunksInv
<1> QED
  BY <1>1, <1>3, <1>4 DEF AddressInv

\* Every function in the table gets a chunk, unless a dependency has its code.
LEMMA FreshGives ==
    ASSUME NEW f \in InTable \ Bodiless, chunks' = UNION {Fresh(g) : g \in InTable}
    PROVE  IsThere(Function(f), chunks')
<1>1. Compiled(f) \in Fresh(f) /\ Compiled(f).name = Function(f)
  BY ChunkGives DEF Fresh, Compiled
<1>2. Fresh(f) \subseteq chunks'
  OBVIOUS
<1> QED
  BY <1>1, <1>2 DEF IsThere

LEMMA GenerateAddresses ==
    ASSUME TableParameters, NoCallbacks, MethodsAreKept, TableInv, FullInv, AddressInv, Generate
    PROVE  AddressInv'
<1>1. /\ pc = "generate" /\ pc' = "capture" /\ UNCHANGED <<prog, index, callees>>
      /\ prog \in Programs /\ Roots \subseteq InTable /\ callees = {}
  BY DEF Generate, TableInv, Placements, ChunksInv, AddressInv, InTable, TableParameters
<1>2. chunks' = UNION {Fresh(f) : f \in InTable}
  <2>1. FullInv'
    BY GenerateIsFull
  <2>2. (UNION {Fresh(f) : f \in InTable})' = UNION {Fresh(f) : f \in InTable}
    BY <1>1 DEF InTable, Fresh, Compiled, Companions, Adapters, TakenAddress, Adapter, CallBy, Chunk
  <2> QED
    BY <1>1, <2>1, <2>2 DEF FullInv, PartialIsFull
<1>3. ASSUME NEW c \in chunks', NEW a \in c.addresses PROVE IsMethod(a) /\ IsThere(a, chunks')
  <2>1. PICK f \in InTable : c \in Fresh(f)
    BY <1>2
  <2>2. f \in Functions /\ f \notin Bodiless /\ c = Compiled(f)
    <3>1. f \in Functions
      BY <2>1 DEF InTable
    <3>2. \A d \in Companions(f) \union Adapters(f) : d.addresses = {}
      BY DEF Companions, Adapters, Chunk
    <3> QED
      BY <2>1, <3>1, <3>2, <1>3 DEF Fresh
  <2>3. PICK k \in DOMAIN prog[f].takes : a = TakenAddress(f, k)
    BY <2>2, <1>3, ChunkGives DEF Compiled
  <2>4. prog[f].takes[k].kind \in Kinds \ {"callback"} /\ prog[f] \in Bodies[f]
    BY <1>1, <2>2, <2>3, TakeGives, BodyGives DEF NoCallbacks
  <2>5. CASE prog[f].takes[k].kind \in {"value", "closure"}
    <3>1. a[1] \in {"forwarder", "closure"}
      BY <2>3, <2>5 DEF TakenAddress, Forwarder, ClosureIn
    <3>2. k \in Takes(prog[f], {"value", "closure"})
      BY <2>3, <2>5 DEF Takes
    <3> DEFINE d == Chunk(TakenAddress(f, k), <<CallBy(prog[f].takes[k].to)>>, {})
    <3>3. d \in Companions(f) /\ d.name = a
      BY <2>3, <3>2, ChunkGives DEF Companions
    <3>4. d \in chunks'
      BY <1>2, <2>1, <2>2, <3>3 DEF Fresh
    <3> QED
      BY <3>1, <3>3, <3>4 DEF IsMethod, IsThere
  <2>6. CASE prog[f].takes[k].kind = "vtable"
    <3> DEFINE m == Resolve(prog[f].takes[k].to)
    <3>1. a = Function(m) /\ m \in Roots \ Small
      BY <2>2, <2>3, <2>4, <2>6 DEF TakenAddress, MethodsAreKept
    <3>2. m \in InTable
      BY <1>1, <3>1
    <3> HIDE DEF m
    <3>3. IsThere(a, chunks')
      BY <1>2, <3>1, <3>2, FreshGives DEF IsThere
    <3> QED
      BY <3>1, <3>3 DEF IsMethod
  <2> QED
    BY <2>4, <2>5, <2>6 DEF Kinds
<1> QED
  BY <1>1, <1>3 DEF AddressInv

LEMMA CaptureAddresses ==
    ASSUME TableParameters, TableInv, AddressInv, Capture PROVE AddressInv'
<1>1. /\ pc = "capture" /\ pc' = "inline" /\ chunks' = chunks /\ callees' \subseteq chunks
      /\ \A c \in callees' : c.name[2] \in Candidates
  BY DEF Capture
<1>2. \A c \in callees' : c.name[2] \in Small
  BY <1>1 DEF Candidates
<1>3. ASSUME NEW c \in callees' PROVE c.name[2] \in Functions \intersect DOMAIN index'
  <2>1. c \in chunks /\ c.name[1] = "function" /\ index' = index
    BY <1>3 DEF Capture
  <2>2. PICK f \in Functions \intersect DOMAIN index : c.name = Function(f)
    BY <1>1, <2>1 DEF TableInv, ChunksInv, Named, Phases
  <2> QED
    BY <2>1, <2>2, FunctionGives
<1>4. Inlined' \subseteq Functions \intersect DOMAIN index'
  BY <1>3 DEF Inlined
<1> QED
  BY <1>1, <1>2, <1>4 DEF AddressInv

\* A chunk keeps its name when a body is copied into it.
LEMMA InlineAddresses ==
    ASSUME TableParameters, TableInv, AddressInv, InlineCall PROVE AddressInv'
<1>1. pc = "inline" /\ UNCHANGED <<pc, callees, index>> /\ Inlined' = Inlined
  BY DEF InlineCall, Inlined
<1>2. PICK c \in chunks, callee \in callees : \E k \in DOMAIN c.code :
         chunks' = (chunks \ {c}) \union
           {Chunk(c.name, ReplaceSubSeqAt(k, callee.code, <<c.code[k]>>, c.code),
                  c.addresses \union callee.addresses)}
  BY DEF InlineCall
<1>3. PICK k \in DOMAIN c.code :
         chunks' = (chunks \ {c}) \union
           {Chunk(c.name, ReplaceSubSeqAt(k, callee.code, <<c.code[k]>>, c.code),
                  c.addresses \union callee.addresses)}
  BY <1>2
<1> DEFINE e == Chunk(c.name, ReplaceSubSeqAt(k, callee.code, <<c.code[k]>>, c.code),
                      c.addresses \union callee.addresses)
<1>4. e.name = c.name /\ e.addresses = c.addresses \union callee.addresses /\ chunks' = (chunks \ {c}) \union {e}
  BY <1>3, ChunkGives
<1> HIDE DEF e
<1>5. \A d \in chunks : \E n \in chunks' : n.name = d.name
  BY <1>4
<1>6. \A d \in chunks \union callees : \A a \in d.addresses : IsMethod(a) /\ IsThere(a, chunks')
  BY <1>1, <1>5, StaysThere DEF AddressInv
<1>7. \A d \in chunks' : \A a \in d.addresses : IsMethod(a) /\ IsThere(a, chunks')
  BY <1>4, <1>6
<1> QED
  BY <1>1, <1>6, <1>7 DEF AddressInv

\* No method in a table was inlined, so its chunk is not among the dead.
LEMMA EliminateAddresses ==
    ASSUME TableParameters, TableInv, AddressInv, Eliminate PROVE AddressInv'
<1> DEFINE dead == {index[f] : f \in Inlined} \ Called
           kept == {name \in DOMAIN index : index[name] \notin dead}
           new == Dense({index[name] : name \in kept})
<1>1. /\ pc = "eliminate" /\ pc' = "compact" /\ callees' = callees
      /\ chunks' = {Renumber(c, new) : c \in {c \in chunks : c.name[1] = "function" => c.name[2] \in kept}}
  BY DEF Eliminate
<1>2. \A c \in chunks : Renumber(c, new).name = c.name /\ Renumber(c, new).addresses = c.addresses
  <2>1. \A c \in chunks : c = Chunk(c.name, c.code, c.addresses)
    BY DEF TableInv, ChunksInv, IsChunk
  <2> QED
    BY <2>1 DEF Renumber, Chunk
<1>3. ASSUME NEW c \in chunks, IsMethod(c.name) PROVE c.name[1] = "function" => c.name[2] \in kept
  <2> SUFFICES ASSUME c.name[1] = "function" PROVE c.name[2] \in kept
    OBVIOUS
  <2>1. PICK f \in Roots \ Small : c.name = Function(f)
    BY <1>3 DEF IsMethod
  <2>2. c.name[2] = f /\ f \in DOMAIN index /\ f \in Functions
    <3>1. PICK g \in Functions \intersect DOMAIN index : c.name = Function(g)
      BY <1>1 DEF TableInv, ChunksInv, Named, Phases
    <3> QED
      BY <2>1, <3>1, FunctionGives
  <2>3. ASSUME NEW g \in Inlined, index[g] = index[f] PROVE FALSE
    <3>1. g \in Small
      BY <2>3 DEF Inlined, AddressInv
    <3>2. g \in Functions \intersect DOMAIN index
      BY <1>1, <2>3 DEF AddressInv
    <3>3. g = f
      BY <2>2, <2>3, <3>2, ResolveGives DEF TableInv, IndexInv
    <3> QED
      BY <2>1, <3>1, <3>3
  <2> QED
    BY <2>2, <2>3
<1> HIDE DEF kept, new
<1>4. ASSUME NEW a, IsMethod(a), IsThere(a, chunks) PROVE IsThere(a, chunks')
  <2>1. ASSUME NEW d \in chunks, d.name = a PROVE \E e \in chunks' : e.name = a
    <3>1. d.name[1] = "function" => d.name[2] \in kept
      BY <1>3, <1>4, <2>1
    <3>2. Renumber(d, new) \in chunks' /\ Renumber(d, new).name = a
      BY <1>1, <1>2, <2>1, <3>1
    <3> QED
      BY <3>2
  <2> QED
    BY <1>4, <2>1, StaysThere
<1>5. \A d \in chunks' : \E c \in chunks : d.addresses = c.addresses
  BY <1>1, <1>2
<1>6. \A c \in chunks \union callees : \A a \in c.addresses : IsMethod(a) /\ IsThere(a, chunks')
  BY <1>1, <1>4 DEF AddressInv
<1> QED
  BY <1>1, <1>5, <1>6 DEF AddressInv

\* Compaction moves functions and drops none.
LEMMA CompactAddresses ==
    ASSUME TableParameters, TableInv, AddressInv, Compact PROVE AddressInv'
<1>1. pc = "compact" /\ pc' = "done" /\ callees' = callees /\ chunks' = {Renumber(c, Moves) : c \in chunks}
  BY CompactGives
<1>2. \A c \in chunks : Renumber(c, Moves).name = c.name /\ Renumber(c, Moves).addresses = c.addresses
  <2>1. \A c \in chunks : c = Chunk(c.name, c.code, c.addresses)
    BY DEF TableInv, ChunksInv, IsChunk
  <2> QED
    BY <2>1 DEF Renumber, Chunk
<1>3. /\ \A d \in chunks : \E e \in chunks' : e.name = d.name
      /\ \A d \in chunks' : \E c \in chunks : d.addresses = c.addresses
  BY <1>1, <1>2
<1>4. ASSUME NEW c \in chunks \union callees, NEW a \in c.addresses PROVE IsMethod(a) /\ IsThere(a, chunks')
  <2>1. IsMethod(a) /\ IsThere(a, chunks)
    BY <1>1 DEF AddressInv
  <2> QED
    BY <1>3, <2>1, StaysThere
<1> QED
  BY <1>1, <1>3, <1>4 DEF AddressInv

LEMMA NextAddresses ==
    ASSUME TableParameters, NoCallbacks, MethodsAreKept, TableInv, FullInv, AddressInv, [TableNext]_tableVars
    PROVE  AddressInv'
<1>1. CASE AssignIndices
  BY <1>1, AssignAddresses
<1>2. CASE Generate
  BY <1>2, GenerateAddresses
<1>3. CASE Capture
  BY <1>3, CaptureAddresses
<1>4. CASE InlineCall
  BY <1>4, InlineAddresses
<1>5. CASE EndInlining
  BY <1>5 DEF EndInlining, AddressInv, Inlined
<1>6. CASE Eliminate
  BY <1>6, EliminateAddresses
<1>7. CASE Compact
  BY <1>7, CompactAddresses
<1>8. ASSUME NEW f \in Functions, NEW body \in Bodies[f] \ {prog[f]}, EditBody(f, body) PROVE AddressInv'
  BY <1>8 DEF EditBody, AddressInv
<1>9. CASE UNCHANGED tableVars
  BY <1>9 DEF tableVars, AddressInv, Inlined
<1> QED
  BY <1>1, <1>2, <1>3, <1>4, <1>5, <1>6, <1>7, <1>8, <1>9 DEF TableNext, Pass

\* Every address a function of the result takes is that of code in the result, or
\* of a function of a dependency, however functions were restored, inlined and
\* eliminated.
THEOREM AddressesAreOfCode ==
    ASSUME TableParameters, NoCallbacks, MethodsAreKept PROVE TableSpec => []AddressesExist
<1>1. TableInit => TableInv /\ FullInv /\ AddressInv
  <2> SUFFICES ASSUME TableInit PROVE TableInv /\ FullInv /\ AddressInv
    OBVIOUS
  <2>1. pc = "edited" /\ snapshot = {} /\ cache = {} /\ chunks = {} /\ callees = {}
    BY DEF TableInit
  <2> QED
    BY <2>1, InitTable DEF FullInv, PartialIsFull, AddressInv
<1>2. TableInv /\ FullInv /\ AddressInv /\ [TableNext]_tableVars => TableInv' /\ FullInv' /\ AddressInv'
  BY NextTable, NextIsFull, NextAddresses
<1>3. AddressInv => AddressesExist
  BY DEF AddressInv, AddressesExist, IsThere
<1> QED
  BY <1>1, <1>2, <1>3, PTL DEF TableSpec
=============================================================================
