------------------------------ MODULE QziModules -----------------------------
(***************************************************************************)
(* QZI artifacts (bytecode/chunk.rs): what serialize_qzi_module writes,    *)
(* what deserialize_qzi_module reads of it, and what each refuses.         *)
(*                                                                         *)
(* A file is a sequence of words, one for each field; sizes and offsets    *)
(* count words.  A chunk is [name, params, regs, flags, consts, code],     *)
(* flags holding "export" or not; an instruction is [op, reg, arg, flag],  *)
(* arg counting from 0; a name is the sequence of its dotted parts.  A     *)
(* module is [name, kind, args, interface, relocs, chunks], interface      *)
(* being the set of the features that older formats cannot express.        *)
(***************************************************************************)
EXTENDS Naturals, Sequences, FiniteSets, SequencesExt, FiniteSetsExt

Magic == "QZI"
Version == 9
LegacyVersion == 5
FirstSectioned == 6
Refused == [refused |-> TRUE]
IsRefused(x) == x = Refused

ContainsOp(chunks, ops) == \E c \in Range(chunks) : \E i \in Range(c.code) : i.op \in ops
Flagged(chunks, op) == \E c \in Range(chunks) : \E i \in Range(c.code) : i.op = op /\ i.flag # 0
-----------------------------------------------------------------------------
(* Validation. *)

TakesConstant == {"const", "syscall", "callext", "callcreg"}
ConstantKinds(op) ==
  CASE op = "callext" -> {"str", "foreign"}
    [] op = "callcreg" -> {"foreign"}
    [] op = "syscall" -> {"str", "int"}
    [] OTHER -> {"str", "int", "float", "bytes", "fn", "vtable", "foreign", "global"}

\* A void function of no registers still returns register 0.
InFrame(c, i) == i.reg < c.regs \/ (c.regs = 0 /\ i.op = "ret" /\ i.reg = 0)

ValidInstruction(chunks, c, i) ==
  /\ InFrame(c, i)
  /\ i.op = "lea" /\ i.flag # 0 => i.arg + i.flag - 1 < c.regs
  /\ i.op \in {"jmp", "jz"} => i.arg <= Len(c.code)
  /\ i.op \in TakesConstant =>
       /\ i.arg < Len(c.consts)
       /\ c.consts[i.arg + 1][1] \in ConstantKinds(i.op)
  /\ i.op = "call" => i.arg < Len(chunks)
  /\ i.op = "intrinsic" => i.arg <= 41

ValidChunk(chunks, c) ==
  /\ c.params <= c.regs
  /\ \A i \in Range(c.code) : ValidInstruction(chunks, c, i)

ValidChunks(chunks) == \A c \in Range(chunks) : ValidChunk(chunks, c)

\* Function values compiled before closures owned what they captured.
PreownershipName(name) == Last(name) \in {"closure", "fwd"}
HasPreownership(chunks) ==
  \E c \in Range(chunks) :
    PreownershipName(c.name) \/ \E k \in Range(c.consts) : k[1] = "fn" /\ PreownershipName(k[2])
ImplicitLea(chunks) == \E c \in Range(chunks) : \E i \in Range(c.code) : i.op = "lea" /\ i.flag = 0

\* A relocation for every call, naming the chunk it calls.
InferRelocations(chunks) ==
  {[chunk |-> k, at |-> i, symbol |-> chunks[chunks[k].code[i].arg + 1].name] :
     <<k, i>> \in {p \in UNION {{k} \X DOMAIN chunks[k].code : k \in DOMAIN chunks} :
                     chunks[p[1]].code[p[2]].op = "call"}}
-----------------------------------------------------------------------------
(* Writing. *)

ChunkWords(c) ==
  <<c.name, c.params, c.regs, c.flags>> \o (IF "export" \in c.flags THEN <<"symbol">> ELSE <<>>)
  \o <<Len(c.consts)>> \o c.consts \o <<Len(c.code)>> \o c.code

ChunksPayload(chunks) ==
  <<Magic, LegacyVersion, Len(chunks)>> \o FlattenSeq([k \in DOMAIN chunks |-> ChunkWords(chunks[k])])

MetadataPayload(m) == <<m.kind, m.args, m.name>>

\* What the module says of a call replaces what its index says.
Relocations(m) ==
  LET stated(r) == \E s \in m.relocs : s.chunk = r.chunk /\ s.at = r.at
  IN m.relocs \cup {r \in InferRelocations(m.chunks) : ~stated(r)}

RelocationPayload(m) == LET rs == SetToSeq(Relocations(m)) IN <<Len(rs)>> \o rs

Sections(m) ==
  <<[kind |-> 1, words |-> MetadataPayload(m)], [kind |-> 2, words |-> <<m.interface>>],
    [kind |-> 3, words |-> RelocationPayload(m)], [kind |-> 4, words |-> ChunksPayload(m.chunks)]>>

\* The directory, three words a section, and the sections one behind the other.
Layout(version, sections) ==
  LET start(s) == 3 + 3 * Len(sections) + FoldLeft(LAMBDA n, t : n + Len(t.words), 0, SubSeq(sections, 1, s - 1))
  IN <<Magic, version, Len(sections)>>
     \o FlattenSeq([s \in DOMAIN sections |-> <<sections[s].kind, start(s), Len(sections[s].words)>>])
     \o FlattenSeq([s \in DOMAIN sections |-> sections[s].words])

Writable(m) ==
  /\ ValidChunks(m.chunks)
  /\ ~ImplicitLea(m.chunks)
  /\ ~(m.kind = "library" /\ m.args)

Serialize(m) == IF Writable(m) THEN Layout(Version, Sections(m)) ELSE Refused
-----------------------------------------------------------------------------
(* Reading. *)

\* The chunk that starts behind `r.at` words, or a refusal.
ReadChunk(words, version, r) ==
  LET header == IF version >= 3 THEN 4 ELSE 3
      flags == IF version >= 3 THEN words[r.at + 4] ELSE {}
      nconsts == r.at + header + (IF "export" \in flags THEN 2 ELSE 1)
      ncode == nconsts + words[nconsts] + 1
      next == ncode + words[ncode]
      consts == SubSeq(words, nconsts + 1, ncode - 1)
      known == {"int", "float", "str", "fn", "vtable"} \cup (IF version >= 3 THEN {"foreign"} ELSE {})
               \cup (IF version >= 4 THEN {"bytes"} ELSE {}) \cup (IF version >= 5 THEN {"global"} ELSE {})
  IN IF \/ Len(words) < r.at + header \/ Len(words) < nconsts
        \/ Len(words) < ncode \/ Len(words) < next
        \/ \E k \in Range(consts) : k[1] \notin known
     THEN Refused
     ELSE [at |-> next,
           chunks |-> Append(r.chunks, [name |-> words[r.at + 1], params |-> words[r.at + 2], regs |-> words[r.at + 3],
                                        flags |-> flags, consts |-> consts, code |-> SubSeq(words, ncode + 1, next)])]

\* deserialize_qzi_legacy: version 1 says nothing of parameters and registers.
ReadChunks(words) ==
  IF Len(words) < 3 \/ words[1] # Magic \/ words[2] \notin 2..LegacyVersion THEN Refused
  ELSE LET r == FoldLeft(LAMBDA s, k : IF IsRefused(s) THEN s ELSE ReadChunk(words, words[2], s),
                         [at |-> 3, chunks |-> <<>>], [k \in 1..words[3] |-> k])
       IN IF IsRefused(r) \/ ~ValidChunks(r.chunks) THEN Refused
          ELSE IF r.at # Len(words) THEN Refused
          ELSE r

\* A file of one payload has no name, and is a library unless it has a main.
ReadLegacy(words) ==
  LET r == ReadChunks(words)
  IN IF IsRefused(r) THEN Refused
     ELSE IF ImplicitLea(r.chunks) \/ HasPreownership(r.chunks) THEN Refused
     ELSE [name |-> <<>>, kind |-> IF \E c \in Range(r.chunks) : c.name = <<"main">> THEN "executable" ELSE "library",
           args |-> FALSE, interface |-> {}, relocs |-> InferRelocations(r.chunks), chunks |-> r.chunks]

Entry(words, s) == [kind |-> words[3 * s + 1], from |-> words[3 * s + 2], len |-> words[3 * s + 3]]

\* Mutant: words outside the sections are overlooked.
LooseDirectory(words) ==
  LET es == {Entry(words, s) : s \in 1..words[3]}
  IN /\ \A e \in es : e.from >= 3 + 3 * words[3] /\ e.from + e.len <= Len(words)
     /\ Cardinality({e.kind : e \in es}) = words[3]

\* Every section inside the file, none twice, and no word of the file outside one.
SoundDirectory(words) ==
  LET n == words[3]
      first == 3 + 3 * n
      es == {Entry(words, s) : s \in 1..n}
  IN /\ first <= Len(words)
     /\ \A e \in es : e.from >= first /\ e.from + e.len <= Len(words)
     /\ Cardinality({e.kind : e \in es}) = n
     /\ \A w \in (first + 1)..Len(words) : Cardinality({e \in es : w > e.from /\ w <= e.from + e.len}) = 1

SectionOf(words, kind) ==
  LET s == CHOOSE s \in 1..words[3] : Entry(words, s).kind = kind
  IN SubSeq(words, Entry(words, s).from + 1, Entry(words, s).from + Entry(words, s).len)
HasSection(words, kind) == \E s \in 1..words[3] : Entry(words, s).kind = kind

\* Mutant: a file of version 6 may hold what version 7 added.
NothingTooNew(interface, chunks) == FALSE

\* What version 7 added: checked indexing, unsigned arithmetic, owned closures.
TooNewForSix(interface, chunks) ==
  \/ interface \cap {"receivers", "closures", "any"} # {}
  \/ HasPreownership(chunks)
  \/ Flagged(chunks, "div")
  \/ ContainsOp(chunks, {"trap"}) \/ Flagged(chunks, "lea")

KnownSite(chunks, r) ==
  r.chunk \in DOMAIN chunks /\ r.at \in DOMAIN chunks[r.chunk].code /\ chunks[r.chunk].code[r.at].op = "call"

ReadRelocations(words) ==
  IF words = <<>> \/ Len(words) # words[1] + 1 THEN Refused ELSE [sites |-> ToSet(Tail(words))]
ReadMetadata(words) ==
  IF Len(words) # 3 THEN Refused ELSE [kind |-> words[1], args |-> words[2], name |-> words[3]]

ReadSections(words) ==
  LET meta == ReadMetadata(SectionOf(words, 1))
      interface == IF HasSection(words, 2) THEN SectionOf(words, 2)[1] ELSE {}
      relocs == ReadRelocations(SectionOf(words, 3))
      r == ReadChunks(SectionOf(words, 4))
  IN IF IsRefused(meta) \/ IsRefused(relocs) \/ IsRefused(r) THEN Refused
     ELSE IF \/ ImplicitLea(r.chunks)
             \/ words[2] < 7 /\ TooNewForSix(interface, r.chunks)
             \/ \E s \in relocs.sites : ~KnownSite(r.chunks, s) THEN Refused
     ELSE [name |-> meta.name, kind |-> meta.kind, args |-> meta.args, interface |-> interface,
           relocs |-> relocs.sites, chunks |-> r.chunks]

Deserialize(words) ==
  IF Len(words) < 3 \/ words[1] # Magic THEN Refused
  ELSE IF words[2] <= LegacyVersion THEN ReadLegacy(words)
  ELSE IF words[2] > Version \/ ~SoundDirectory(words) THEN Refused
  ELSE IF \E kind \in {1, 3, 4} : ~HasSection(words, kind) THEN Refused
  ELSE ReadSections(words)

-----------------------------------------------------------------------------
(***************************************************************************)
(* Libraries on their way into a program: the names a library's chunks get *)
(* when it is written and when a project calls it by another name, and the *)
(* linking of the compiled project with its libraries.                     *)
(***************************************************************************)
\* Mutant: constants keep the names the functions had.
ConstantsForgotten(consts, old, new) == consts

\* The constants of a chunk with the functions they name renamed.
RenameConstants(consts, old, new) ==
  [k \in DOMAIN consts |->
     IF consts[k][1] = "fn" /\ \E n \in DOMAIN old : old[n] = consts[k][2]
     THEN <<"fn", new[CHOOSE n \in DOMAIN old : old[n] = consts[k][2]]>> ELSE consts[k]]

\* qualify_library_root_symbols: what the entry file defines belongs to the package.
QualifiedName(m, name) ==
  IF m.kind = "library" /\ m.name # <<>> /\ Len(name) = 1 THEN m.name \o name ELSE name
Qualify(m) ==
  LET old == [k \in DOMAIN m.chunks |-> m.chunks[k].name]
      new == [k \in DOMAIN m.chunks |-> QualifiedName(m, old[k])]
      chunks == [k \in DOMAIN m.chunks |->
                   [m.chunks[k] EXCEPT !.name = new[k], !.consts = RenameConstants(@, old, new)]]
  IN IF m.kind # "library" \/ m.name = <<>> THEN m
     ELSE [m EXCEPT !.chunks = chunks, !.relocs = InferRelocations(chunks)]

\* Mutant: only the names of chunks are changed.
AliasedChunks(m, alias) ==
  IF m.kind # "library" \/ m.name = <<>> \/ m.name = alias THEN m
  ELSE [m EXCEPT !.name = alias,
                 !.chunks = [k \in DOMAIN @ |-> [@[k] EXCEPT !.name = IF @[1] = m.name[1] THEN alias \o Tail(@) ELSE @]]]

\* alias_library_namespace.
AliasedName(m, alias, name) == IF name[1] = m.name[1] THEN alias \o Tail(name) ELSE name
Alias(m, alias) ==
  LET constant(k) == IF k[1] = "fn" THEN <<"fn", AliasedName(m, alias, k[2])>> ELSE k
      chunk(c) == [c EXCEPT !.name = AliasedName(m, alias, @), !.consts = [k \in DOMAIN @ |-> constant(@[k])]]
  IN IF m.kind # "library" \/ m.name = <<>> \/ m.name = alias THEN m
     ELSE [m EXCEPT !.name = alias,
                    !.chunks = [k \in DOMAIN @ |-> chunk(@[k])],
                    !.relocs = {[r EXCEPT !.symbol = AliasedName(m, alias, @)] : r \in @}]

\* A dependency must be a library; one of another name is aliased.
Depend(m, alias) ==
  IF IsRefused(m) \/ m.kind # "library" THEN Refused
  ELSE IF m.name # <<>> /\ m.name # alias THEN Alias(m, alias)
  ELSE m
-----------------------------------------------------------------------------
(* link_qzi_modules. *)

WithoutTargets(c) ==
  [c EXCEPT !.code = [i \in DOMAIN @ |-> IF @[i].op = "call" THEN [@[i] EXCEPT !.arg = 0] ELSE @[i]]]
Equivalent(c, d) == WithoutTargets(c) = WithoutTargets(d)

IndexIn(linked, name) == SelectInSeq(linked, LAMBDA c : c.name = name)

\* Mutant: the first definition of a name is taken for all of them.
FirstWins(linked, c) ==
  IF IsRefused(linked) \/ IndexIn(linked.chunks, c.name) # 0 THEN linked ELSE [linked EXCEPT !.chunks = Append(@, c)]

\* The first definition of a name is kept; a later one must be equivalent.
AddChunk(linked, c) ==
  IF IsRefused(linked) THEN Refused
  ELSE IF IndexIn(linked.chunks, c.name) = 0 THEN [linked EXCEPT !.chunks = Append(@, c)]
  ELSE IF Equivalent(linked.chunks[IndexIn(linked.chunks, c.name)], c) THEN linked
  ELSE Refused

Merge(modules) ==
  FoldLeft(AddChunk, [chunks |-> <<>>], FlattenSeq([m \in DOMAIN modules |-> modules[m].chunks]))

\* The patches of all modules: the linked chunk, the instruction, the symbol.
Patches(modules, chunks) ==
  UNION {{[chunk |-> IF r.chunk \in DOMAIN modules[m].chunks
                     THEN IndexIn(chunks, modules[m].chunks[r.chunk].name) ELSE 0,
           at |-> r.at, to |-> IndexIn(chunks, r.symbol)] : r \in modules[m].relocs} : m \in DOMAIN modules}

SoundPatches(patches, chunks) ==
  /\ \A p \in patches : p.to # 0 /\ p.chunk # 0 /\ p.at \in DOMAIN chunks[p.chunk].code
  /\ \A p, q \in patches : p.chunk = q.chunk /\ p.at = q.at => p.to = q.to

Patched(patches, chunks) ==
  [k \in DOMAIN chunks |->
     [chunks[k] EXCEPT !.code = [i \in DOMAIN @ |->
        LET here == {p \in patches : p.chunk = k /\ p.at = i}
        IN IF here = {} THEN @[i] ELSE [@[i] EXCEPT !.arg = (CHOOSE p \in here : TRUE).to - 1]]]]

Link(modules) ==
  LET merged == Merge(modules)
      patches == Patches(modules, merged.chunks)
      linked == Patched(patches, merged.chunks)
  IN IF IsRefused(merged) THEN Refused
     ELSE IF ~SoundPatches(patches, merged.chunks) \/ ~ValidChunks(linked) THEN Refused
     ELSE [chunks |-> linked]
=============================================================================
