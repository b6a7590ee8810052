-------------------------- MODULE QzcCache_proofs --------------------------
(***************************************************************************)
(* The cache keeps its types, never mixes code of different declarations,  *)
(* and never serves the text of a source that has been replaced.           *)
(***************************************************************************)
EXTENDS QzcCache, TLAPS

-----------------------------------------------------------------------------
(* Functions on some of the sources *)

\* A function on a set of sources is something known about them.
LEMMA AboutIntro ==
    ASSUME NEW T, NEW S \in SUBSET Sources, NEW f \in [S -> T]
    PROVE  f \in About(T)
  BY DEF About

\* And the other way round.
LEMMA AboutElim ==
    ASSUME NEW T, NEW f \in About(T)
    PROVE  DOMAIN f \in SUBSET Sources /\ f \in [DOMAIN f -> T]
<1>1. PICK S \in SUBSET Sources : f \in [S -> T]
  BY DEF About
<1> QED BY <1>1

\* Nothing is known of no source.
LEMMA NothingKnown == ASSUME NEW T PROVE Nothing \in About(T) /\ DOMAIN Nothing = {}
<1>1. Nothing \in [{} -> T]
  BY DEF Nothing
<1> QED BY <1>1, AboutIntro

\* A text has declarations and bodies.
LEMMA TextFields == Text \subseteq [sig : Sigs, body : Bodies]
  BY ProjectAssumption DEF Text

\* The declarations of a program are known of its sources.
LEMMA SignaturesType ==
    ASSUME NEW prog \in Program
    PROVE  Signatures(prog) \in About(Sigs)
<1>1. DOMAIN prog \in SUBSET Sources /\ prog \in [DOMAIN prog -> Text]
  BY AboutElim DEF Program
<1>2. Signatures(prog) \in [DOMAIN prog -> Sigs]
  BY <1>1, TextFields DEF Signatures
<1> QED BY <1>1, <1>2, AboutIntro

\* The bytecode of a source of the program.
LEMMA CodeType ==
    ASSUME NEW prog \in Program, NEW s \in DOMAIN prog
    PROVE  CodeOf(s, prog) \in Code
<1>1. prog[s] \in Text
  BY AboutElim DEF Program
<1> QED BY <1>1, SignaturesType DEF CodeOf, Code

\* A full compilation is coherent.
LEMMA CompiledCoherent ==
    ASSUME NEW prog \in Program
    PROVE  Coherent(Compiled(prog))
<1>1. \A s \in DOMAIN prog : Compiled(prog)[s].text = prog[s]
  BY DEF Compiled, CodeOf
<1>2. DOMAIN Compiled(prog) = DOMAIN prog
  BY DEF Compiled
<1>3. [t \in DOMAIN Compiled(prog) |-> Compiled(prog)[t].text.sig] = Signatures(prog)
  BY <1>1, <1>2 DEF Signatures
<1> QED BY <1>2, <1>3 DEF Coherent, Compiled, CodeOf

-----------------------------------------------------------------------------
(* Types *)

\* What files hold.
LEMMA ContentTypes ==
    /\ \A s \in Sources : ContentOf(s) = Texts[s] /\ ContentOf(s) \subseteq Text
    /\ ContentOf(Route) = Leaves
    /\ ContentOf(Manifest) = Settings
    /\ ContentOf(Dep) = Revisions
    /\ \A f \in Files : ContentOf(f) \subseteq Content
    /\ Sources \subseteq Files /\ {Route, Manifest, Dep} \subseteq Files
    /\ Leaves \subseteq Sources /\ Root \in Sources
<1>1. \A s \in Sources : ContentOf(s) = Texts[s] /\ ContentOf(s) \subseteq Text
  <2> TAKE s \in Sources
  <2>1. s # Route /\ s # Manifest /\ s # Dep
    BY ProjectAssumption
  <2>2. ContentOf(s) = Texts[s]
    BY <2>1 DEF ContentOf
  <2> QED BY <2>2 DEF Text
<1>2. ContentOf(Route) = Leaves
  BY ProjectAssumption DEF ContentOf
<1>3. ContentOf(Manifest) = Settings
  BY ProjectAssumption DEF ContentOf
<1>4. ContentOf(Dep) = Revisions
  BY ProjectAssumption DEF ContentOf
<1>5. \A f \in Files : ContentOf(f) \subseteq Content
  BY DEF Content
<1> QED BY <1>1, <1>2, <1>3, <1>4, <1>5 DEF Files, Sources

\* A process that knows nothing yet.
LEMMA FreshType ==
    ASSUME NEW pc \in Phases
    PROVE  Fresh(pc) \in Build
<1>1. Nothing \in Program /\ Nothing \in About(Unit)
  BY NothingKnown DEF Program
<1> QED BY <1>1 DEF Fresh, Build, Slots

\* One process changes what it knows.
LEMMA SetType ==
    ASSUME build \in [Builders -> Build], NEW b \in Builders, NEW r, Set(b, r)
    PROVE  /\ build'[b] = r
           /\ \A o \in Builders : o # b => build'[o] = build[o]
           /\ r \in Build => build' \in [Builders -> Build]
  BY DEF Set

\* The text of a file of the project.
LEMMA DiskTypes ==
    ASSUME TypeOK
    PROVE  /\ \A s \in Sources : disk[s] # Absent => disk[s] \in Text
           /\ disk[Route] # Absent => disk[Route] \in Leaves
           /\ disk[Manifest] # Absent => disk[Manifest] \in Settings
           /\ disk[Dep] # Absent => disk[Dep] \in Revisions
  BY ContentTypes DEF TypeOK

-----------------------------------------------------------------------------
(* Each step keeps the types *)

\* A process that fails, or is killed, knows nothing any more.
LEMMA FailTypes ==
    ASSUME TypeOK, NEW b \in Builders, NEW pc \in Phases, Set(b, Fresh(pc))
    PROVE  build' \in [Builders -> Build]
  BY FreshType, SetType DEF TypeOK

\* Looking for a cache file.
LEMMA OpenTypes ==
    ASSUME TypeOK, NEW b \in Builders, NEW pc, NEW opened \in Phases,
           NEW missing \in Phases, Open(b, pc, opened, missing)
    PROVE  build' \in [Builders -> Build]
<1>1. build[b] \in Build
  BY DEF TypeOK
<1>2. [build[b] EXCEPT !.pc = opened, !.slot = "main"] \in Build
  BY <1>1 DEF Build, Slots
<1>3. [build[b] EXCEPT !.pc = opened, !.slot = "backup"] \in Build
  BY <1>1 DEF Build, Slots
<1>4. [build[b] EXCEPT !.pc = missing] \in Build
  BY <1>1 DEF Build
<1> QED BY <1>2, <1>3, <1>4 DEF Open, Set, TypeOK

\* The files the cache is read from.
LEMMA StoredType ==
    ASSUME TypeOK, NEW slot \in Slots
    PROVE  CacheStored[slot] \in CacheEntry \union {None}
  BY DEF CacheStored, Slots, TypeOK

\* Restored units are units.
LEMMA ReusableType ==
    ASSUME NEW e \in CacheEntry \union {None}, NEW context, NEW prog \in Program
    PROVE  /\ Reusable(e, context, prog) \in About(Unit)
           /\ \A s \in DOMAIN Reusable(e, context, prog) :
                /\ e \in CacheEntry /\ e.context = context
                /\ s \in DOMAIN e.units /\ s \in DOMAIN prog
                /\ Reusable(e, context, prog)[s] = e.units[s]
                /\ e.units[s].hash = prog[s]
<1>1. CASE e = None \/ e.context # context
  BY <1>1, NothingKnown DEF Reusable
<1>2. CASE ~ (e = None \/ e.context # context)
  <2>1. e \in CacheEntry /\ e.context = context
    BY <1>2
  <2>2. e.units \in About(Unit)
    BY <2>1 DEF CacheEntry
  <2>3. DOMAIN e.units \in SUBSET Sources /\ e.units \in [DOMAIN e.units -> Unit]
    BY <2>2, AboutElim
  <2> DEFINE S == {s \in DOMAIN e.units \intersect DOMAIN prog : e.units[s].hash = prog[s]}
  <2>4. Reusable(e, context, prog) = [s \in S |-> e.units[s]]
    BY <1>2 DEF Reusable
  <2>5. [s \in S |-> e.units[s]] \in [S -> Unit] /\ S \in SUBSET Sources
    BY <2>3
  <2>6. Reusable(e, context, prog) \in About(Unit)
    BY <2>4, <2>5, AboutIntro
  <2> QED BY <2>1, <2>4, <2>6
<1> QED BY <1>1, <1>2

\* Generated code is code of the loaded sources.
LEMMA GeneratedType ==
    ASSUME TypeOK, NEW b \in Builders
    PROVE  /\ DOMAIN Generated(b) = DOMAIN build[b].prog
           /\ Generated(b) \in About(Code)
<1>1. build[b] \in Build
  BY DEF TypeOK
<1>2. build[b].prog \in Program /\ build[b].units \in About(Unit)
  BY <1>1 DEF Build
<1>3. DOMAIN build[b].prog \in SUBSET Sources
  BY <1>2, AboutElim DEF Program
<1>4. build[b].units \in [DOMAIN build[b].units -> Unit]
  BY <1>2, AboutElim
<1>5. \A s \in DOMAIN build[b].units : build[b].units[s].code \in Code
  BY <1>4 DEF Unit
<1>6. Generated(b) \in [DOMAIN build[b].prog -> Code]
  BY <1>2, <1>5, CodeType DEF Generated
<1> QED BY <1>3, <1>6, AboutIntro

\* A new entry is an entry.
LEMMA EntryType ==
    ASSUME TypeOK, NEW b \in Builders, build[b].out \in Artifacts,
           build[b].context \in Context,
           DOMAIN build[b].out.code = DOMAIN build[b].prog
    PROVE  /\ Inputs(b) \in [DOMAIN Inputs(b) -> Content]
           /\ DOMAIN Inputs(b) \in SUBSET Files
           /\ Entry(b) \in CacheEntry
<1> DEFINE prog == build[b].prog
           code == build[b].out.code
<1>1. build[b] \in Build
  BY DEF TypeOK
<1>2. prog \in Program
  BY <1>1 DEF Build
<1>3. DOMAIN prog \in SUBSET Sources /\ prog \in [DOMAIN prog -> Text]
  BY <1>2, AboutElim DEF Program
<1>4. \A f \in Files : disk[f] # Absent => disk[f] \in Content
  BY DEF TypeOK
<1>5. Text \subseteq Content
  BY ContentTypes DEF Content, Text
<1> DEFINE S == {f \in DOMAIN prog \union {Manifest, Dep} : disk[f] # Absent}
<1>6. S \in SUBSET Files
  BY <1>3, ContentTypes
<1>7. Inputs(b) = [f \in S |-> IF f \in DOMAIN prog THEN prog[f] ELSE disk[f]]
  BY DEF Inputs
<1>8. Inputs(b) \in [S -> Content]
  BY <1>3, <1>4, <1>5, <1>6, <1>7
<1>9. code \in About(Code)
  BY DEF Artifacts
<1>10. code \in [DOMAIN prog -> Code]
  BY <1>9, AboutElim
<1>11. [s \in DOMAIN prog |-> [hash |-> prog[s], code |-> code[s]]] \in [DOMAIN prog -> Unit]
  BY <1>3, <1>10 DEF Unit
<1>12. [s \in DOMAIN prog |-> [hash |-> prog[s], code |-> code[s]]] \in About(Unit)
  BY <1>3, <1>11, AboutIntro
<1>13. Inputs(b) \in UNION {[T -> Content] : T \in SUBSET Files}
  BY <1>6, <1>8
<1>14. Entry(b) \in CacheEntry
  BY <1>12, <1>13 DEF Entry, CacheEntry
<1> QED BY <1>6, <1>8, <1>14

-----------------------------------------------------------------------------
(* The invariant behind CoherentArtifacts *)

\* Every unit of an entry is the code of the text it is filed under, compiled
\* against the declarations the entry's context stands for.
Honest(e) ==
    /\ Coherent(e.out.code)
    /\ \A s \in DOMAIN e.units :
         e.units[s].code = [text |-> e.units[s].hash, context |-> e.context.sigs]

Storing == {"clear", "keep", "install"}

\* What a process may rely on in each phase.
Consistent(r) ==
    /\ r.entry # None => Honest(r.entry)
    /\ r.pc \in Storing \union {"check"} => r.entry # None
    /\ r.pc \in {"openUnits", "readUnits", "compile", "link", "stage"} =>
         r.context \in Context /\ r.context.sigs = Signatures(r.prog)
    /\ r.pc \in {"open", "read", "check", "load", "resolve", "leaf", "context",
                 "openUnits", "readUnits"} => DOMAIN r.units = {}
    /\ r.pc = "project" => r.units = Nothing /\ r.entry = None
    /\ r.pc = "leaf" => r.leaf \in Leaves
    /\ r.pc = "compile" =>
         \A s \in DOMAIN r.units :
           s \in DOMAIN r.prog /\ r.units[s].code = CodeOf(s, r.prog)
    /\ r.pc \in {"link", "stage"} => r.out \in Artifacts /\ r.out.code = Compiled(r.prog)
    /\ r.pc \in Storing \union {"tidy", "done"} =>
         r.out \in Artifacts /\ Coherent(r.out.code)

HonestInv ==
    /\ main # None => Honest(main)
    /\ backup # None => Honest(backup)
    /\ \A b \in Builders : Consistent(build[b])

\* A process that knows nothing is consistent.
LEMMA FreshConsistent ==
    ASSUME NEW pc \in {"idle", "failed", "project"}
    PROVE  Consistent(Fresh(pc))
  BY NothingKnown DEF Consistent, Fresh, Storing

\* A step that changes only what one process knows.
LEMMA OneProcess ==
    ASSUME TypeOK, HonestInv, NEW b \in Builders, NEW r \in Build, Consistent(r),
           Set(b, r), UNCHANGED <<disk, files, seen, counts>>
    PROVE  TypeOK' /\ HonestInv'
<1>1. build' \in [Builders -> Build]
  BY SetType DEF TypeOK
<1>2. TypeOK'
  BY <1>1 DEF TypeOK, files, counts
<1>3. \A o \in Builders : Consistent(build'[o])
  <2> TAKE o \in Builders
  <2>1. CASE o = b
    BY <2>1, SetType DEF TypeOK
  <2>2. CASE o # b
    <3>1. build'[o] = build[o]
      BY <2>2, SetType DEF TypeOK
    <3> QED BY <3>1 DEF HonestInv
  <2> QED BY <2>1, <2>2
<1>4. HonestInv'
  BY <1>3 DEF HonestInv, files
<1> QED BY <1>2, <1>4

\* Failing and being killed.
LEMMA FailKeeps ==
    ASSUME TypeOK, HonestInv, NEW b \in Builders, NEW pc \in {"idle", "failed"},
           Set(b, Fresh(pc)), UNCHANGED <<disk, files, seen, counts>>
    PROVE  TypeOK' /\ HonestInv'
  BY OneProcess, FreshType, FreshConsistent DEF Phases

\* Loading the manifest, and looking for a cache.
LEMMA LookupKeeps ==
    ASSUME TypeOK, HonestInv, NEW b \in Builders, LoadProject(b) \/ OpenCache(b)
    PROVE  TypeOK' /\ HonestInv'
<1> DEFINE r == build[b]
<1>1. r \in Build /\ Consistent(r)
  BY DEF TypeOK, HonestInv
<1>2. CASE LoadProject(b)
  <2>1. CASE disk[Manifest] = Absent
    BY <1>2, <2>1, FailKeeps DEF LoadProject, Fail
  <2>2. CASE disk[Manifest] # Absent
    <3> DEFINE q == [r EXCEPT !.pc = "open", !.settings = disk[Manifest]]
    <3>1. disk[Manifest] \in Settings
      BY <2>2, DiskTypes
    <3>2. q \in Build /\ q.pc = "open" /\ q.entry = r.entry /\ q.units = r.units
      BY <1>1, <3>1 DEF Build, Phases
    <3>3. DOMAIN q.units = {}
      BY <1>1, <1>2, <3>2, NothingKnown DEF Consistent, LoadProject
    <3>4. Consistent(q)
      BY <1>1, <3>2, <3>3 DEF Consistent, Storing
    <3>5. Set(b, q) /\ UNCHANGED <<disk, files, seen, counts>>
      BY <1>2, <2>2 DEF LoadProject
    <3> QED BY <3>2, <3>4, <3>5, OneProcess
  <2> QED BY <2>1, <2>2
<1>3. CASE OpenCache(b)
  <2> DEFINE p == [r EXCEPT !.pc = "read", !.slot = "main"]
             q == [r EXCEPT !.pc = "read", !.slot = "backup"]
             m == [r EXCEPT !.pc = "load"]
  <2>1. r.pc = "open" /\ (Set(b, p) \/ Set(b, q) \/ Set(b, m))
    BY <1>3 DEF OpenCache, Open
  <2>2. p \in Build /\ p.pc = "read" /\ p.entry = r.entry /\ p.units = r.units
    BY <1>1 DEF Build, Phases, Slots
  <2>3. q \in Build /\ q.pc = "read" /\ q.entry = r.entry /\ q.units = r.units
    BY <1>1 DEF Build, Phases, Slots
  <2>4. m \in Build /\ m.pc = "load" /\ m.entry = r.entry /\ m.units = r.units
    BY <1>1 DEF Build, Phases
  <2>5. Consistent(p) /\ Consistent(q) /\ Consistent(m)
    BY <1>1, <2>1, <2>2, <2>3, <2>4 DEF Consistent, Storing
  <2>6. UNCHANGED <<disk, files, seen, counts>>
    BY <1>3 DEF OpenCache, Open
  <2> QED BY <2>1, <2>2, <2>3, <2>4, <2>5, <2>6, OneProcess
<1> QED BY <1>2, <1>3

\* The slots hold honest entries.
LEMMA StoredHonest ==
    ASSUME TypeOK, HonestInv, NEW slot \in Slots, CacheStored[slot] # None
    PROVE  CacheStored[slot] \in CacheEntry /\ Honest(CacheStored[slot])
  BY StoredType DEF CacheStored, Slots, HonestInv

\* Reading the cache and hashing the inputs.
LEMMA CheckKeeps ==
    ASSUME TypeOK, HonestInv, NEW b \in Builders, ReadCache(b) \/ CheckInput(b)
    PROVE  TypeOK' /\ HonestInv'
<1> DEFINE r == build[b]
           m == [r EXCEPT !.pc = "load"]
<1>1. r \in Build /\ Consistent(r)
  BY DEF TypeOK, HonestInv
<1>2. CASE ReadCache(b)
  <2> DEFINE e == CacheStored[r.slot]
             q == [r EXCEPT !.pc = "check", !.entry = e, !.todo = DOMAIN e.inputs]
  <2>1. CASE e = None
    <3>1. m \in Build /\ m.pc = "load" /\ m.entry = r.entry /\ m.units = r.units
      BY <1>1 DEF Build, Phases
    <3>2. Consistent(m)
      BY <1>1, <1>2, <3>1 DEF Consistent, Storing, ReadCache
    <3> QED BY <1>2, <2>1, <3>1, <3>2, OneProcess DEF ReadCache
  <2>2. CASE e # None
    <3>1. r.slot \in Slots
      BY <1>1 DEF Build
    <3>2. e \in CacheEntry /\ Honest(e)
      BY <2>2, <3>1, StoredHonest
    <3>3. DOMAIN e.inputs \in SUBSET Files
      BY <3>2 DEF CacheEntry
    <3>4. q \in Build /\ q.pc = "check" /\ q.entry = e /\ q.units = r.units
      BY <1>1, <3>2, <3>3 DEF Build, Phases
    <3>5. Consistent(q)
      BY <1>1, <1>2, <2>2, <3>2, <3>4 DEF Consistent, Storing, ReadCache
    <3> QED BY <1>2, <2>2, <3>4, <3>5, OneProcess DEF ReadCache
  <2> QED BY <2>1, <2>2
<1>3. CASE CheckInput(b)
  <2>1. PICK f \in r.todo :
          Set(b, IF disk[f] = r.entry.inputs[f]
                   THEN [r EXCEPT !.todo = @ \ {f}]
                   ELSE [r EXCEPT !.pc = "load", !.entry = None, !.todo = {}])
    BY <1>3 DEF CheckInput
  <2> DEFINE p == [r EXCEPT !.todo = @ \ {f}]
             q == [r EXCEPT !.pc = "load", !.entry = None, !.todo = {}]
  <2>2. p \in Build /\ p.pc = "check" /\ p.entry = r.entry /\ p.units = r.units
    BY <1>1, <1>3 DEF Build, CheckInput
  <2>3. q \in Build /\ q.pc = "load" /\ q.entry = None /\ q.units = r.units
    BY <1>1 DEF Build, Phases
  <2>4. Consistent(p) /\ Consistent(q)
    BY <1>1, <1>3, <2>2, <2>3 DEF Consistent, Storing, CheckInput
  <2>5. UNCHANGED <<disk, files, seen, counts>>
    BY <1>3 DEF CheckInput
  <2> QED BY <2>1, <2>2, <2>3, <2>4, <2>5, OneProcess
<1> QED BY <1>2, <1>3

\* A process that has finished with an artifact.
LEMMA DoneConsistent ==
    ASSUME NEW out \in Artifacts, Coherent(out.code)
    PROVE  LET q == [Fresh("done") EXCEPT !.out = out] IN
             q \in Build /\ Consistent(q) /\ q.pc = "done" /\ q.out = out
               /\ q.entry = None /\ DOMAIN q.prog = {}
<1> DEFINE q == [Fresh("done") EXCEPT !.out = out]
<1>1. Fresh("done") \in Build
  BY FreshType DEF Phases
<1>2. q \in Build
  BY <1>1 DEF Build
<1>3. q.pc = "done" /\ q.out = out /\ q.entry = None /\ q.prog = Nothing
  BY DEF Fresh
<1>4. Consistent(q)
  BY <1>3 DEF Consistent, Storing
<1> QED BY <1>2, <1>3, <1>4, NothingKnown

\* A hit emits the artifact of an honest entry.
LEMMA HitKeeps ==
    ASSUME TypeOK, HonestInv, NEW b \in Builders, Hit(b)
    PROVE  TypeOK' /\ HonestInv'
<1> DEFINE e == build[b].entry
           q == [Fresh("done") EXCEPT !.out = e.out]
<1>1. build[b] \in Build /\ Consistent(build[b]) /\ build[b].pc = "check"
  BY DEF TypeOK, HonestInv, Hit
<1>2. e # None /\ Honest(e)
  BY <1>1 DEF Consistent
<1>3. e \in CacheEntry
  BY <1>1, <1>2 DEF Build
<1>4. e.out \in Artifacts /\ Coherent(e.out.code)
  BY <1>2, <1>3 DEF CacheEntry, Honest
<1>5. q \in Build /\ Consistent(q)
  BY <1>4, DoneConsistent
<1> QED BY <1>5, OneProcess DEF Hit

\* Reading the sources.
LEMMA LoadKeeps ==
    ASSUME TypeOK, HonestInv, NEW b \in Builders,
           LoadRoot(b) \/ ResolveImport(b) \/ LoadLeaf(b)
    PROVE  TypeOK' /\ HonestInv'
<1> DEFINE r == build[b]
<1>1. r \in Build /\ Consistent(r)
  BY DEF TypeOK, HonestInv
<1>2. UNCHANGED <<disk, files, seen, counts>>
  BY DEF LoadRoot, ResolveImport, LoadLeaf
<1>3. CASE LoadRoot(b)
  <2>1. CASE disk[Root] = Absent
    BY <1>2, <1>3, <2>1, FailKeeps DEF LoadRoot, Fail
  <2>2. CASE disk[Root] # Absent
    <3> DEFINE prog == [s \in {Root} |-> disk[Root]]
               q == [r EXCEPT !.pc = "resolve", !.prog = prog]
    <3>1. prog \in [{Root} -> Text] /\ {Root} \in SUBSET Sources
      BY <2>2, DiskTypes, ContentTypes
    <3>2. prog \in Program
      BY <3>1, AboutIntro DEF Program
    <3>3. q \in Build /\ q.pc = "resolve" /\ q.entry = r.entry /\ q.units = r.units
      BY <1>1, <3>2 DEF Build, Phases
    <3>4. Consistent(q)
      BY <1>1, <1>3, <3>3 DEF Consistent, Storing, LoadRoot
    <3>5. Set(b, q)
      BY <1>3, <2>2 DEF LoadRoot
    <3> QED BY <1>2, <3>3, <3>4, <3>5, OneProcess
  <2> QED BY <2>1, <2>2
<1>4. CASE ResolveImport(b)
  <2>1. CASE disk[Route] = Absent
    BY <1>2, <1>4, <2>1, FailKeeps DEF ResolveImport, Fail
  <2>2. CASE disk[Route] # Absent
    <3> DEFINE q == [r EXCEPT !.pc = "leaf", !.leaf = disk[Route]]
    <3>1. disk[Route] \in Leaves
      BY <2>2, DiskTypes
    <3>2. /\ q \in Build /\ q.pc = "leaf" /\ q.leaf = disk[Route]
          /\ q.entry = r.entry /\ q.units = r.units
      BY <1>1, <3>1 DEF Build, Phases
    <3>3. Consistent(q)
      BY <1>1, <1>4, <3>1, <3>2 DEF Consistent, Storing, ResolveImport
    <3>4. Set(b, q)
      BY <1>4, <2>2 DEF ResolveImport
    <3> QED BY <1>2, <3>2, <3>3, <3>4, OneProcess
  <2> QED BY <2>1, <2>2
<1>5. CASE LoadLeaf(b)
  <2>1. CASE disk[r.leaf] = Absent
    BY <1>2, <1>5, <2>1, FailKeeps DEF LoadLeaf, Fail
  <2>2. CASE disk[r.leaf] # Absent
    <3> DEFINE S == DOMAIN r.prog \union {r.leaf}
               prog == [s \in S |-> IF s \in DOMAIN r.prog THEN r.prog[s] ELSE disk[s]]
               q == [r EXCEPT !.pc = "context", !.prog = prog]
    <3>1. Set(b, q)
      BY <1>5, <2>2 DEF LoadLeaf
    <3>2. r.prog \in Program /\ r.leaf \in Leaves \union {Absent}
      BY <1>1 DEF Build
    <3>3. DOMAIN r.prog \in SUBSET Sources /\ r.prog \in [DOMAIN r.prog -> Text]
      BY <3>2, AboutElim DEF Program
    <3> QED
      <4>1. CASE r.leaf \in Leaves
        <5>1. r.leaf \in Sources /\ disk[r.leaf] \in Text
          BY <2>2, <4>1, DiskTypes, ContentTypes
        <5>2. prog \in [S -> Text] /\ S \in SUBSET Sources
          BY <3>3, <5>1
        <5>3. prog \in Program
          BY <5>2, AboutIntro DEF Program
        <5>4. q \in Build /\ q.pc = "context" /\ q.entry = r.entry /\ q.units = r.units
          BY <1>1, <5>3 DEF Build, Phases
        <5>5. Consistent(q)
          BY <1>1, <1>5, <5>4 DEF Consistent, Storing, LoadLeaf
        <5> QED BY <1>2, <3>1, <5>4, <5>5, OneProcess
      <4>2. CASE r.leaf \notin Leaves
        <5>1. r.leaf = Absent /\ r.pc = "leaf"
          BY <1>5, <3>2, <4>2 DEF LoadLeaf
        <5> QED BY <1>1, <5>1, <4>2 DEF Consistent
      <4> QED BY <4>1, <4>2
  <2> QED BY <2>1, <2>2
<1> QED BY <1>3, <1>4, <1>5

\* Fingerprinting, and looking for the cache again.
LEMMA ContextKeeps ==
    ASSUME TypeOK, HonestInv, NEW b \in Builders, Fingerprint(b) \/ OpenUnits(b)
    PROVE  TypeOK' /\ HonestInv'
<1> DEFINE r == build[b]
<1>1. r \in Build /\ Consistent(r)
  BY DEF TypeOK, HonestInv
<1>2. CASE Fingerprint(b)
  <2> DEFINE c == [sigs |-> Signatures(r.prog), manifest |-> disk[Manifest],
                   dep |-> disk[Dep]]
             q == [r EXCEPT !.pc = "openUnits", !.context = c]
  <2>1. Signatures(r.prog) \in About(Sigs)
    BY <1>1, SignaturesType DEF Build
  <2>2. c \in Context
    BY <2>1, DiskTypes DEF Context
  <2>3. /\ q \in Build /\ q.pc = "openUnits" /\ q.context = c /\ q.prog = r.prog
        /\ q.entry = r.entry /\ q.units = r.units
    BY <1>1, <2>2 DEF Build, Phases
  <2>4. Consistent(q)
    BY <1>1, <1>2, <2>2, <2>3 DEF Consistent, Storing, Fingerprint
  <2> QED BY <1>2, <2>3, <2>4, OneProcess DEF Fingerprint
<1>3. CASE OpenUnits(b)
  <2> DEFINE p == [r EXCEPT !.pc = "readUnits", !.slot = "main"]
             q == [r EXCEPT !.pc = "readUnits", !.slot = "backup"]
             m == [r EXCEPT !.pc = "compile"]
  <2>1. r.pc = "openUnits" /\ (Set(b, p) \/ Set(b, q) \/ Set(b, m))
    BY <1>3 DEF OpenUnits, Open
  <2>2. /\ p \in Build /\ p.pc = "readUnits" /\ p.entry = r.entry /\ p.units = r.units
        /\ p.context = r.context /\ p.prog = r.prog
    BY <1>1 DEF Build, Phases, Slots
  <2>3. /\ q \in Build /\ q.pc = "readUnits" /\ q.entry = r.entry /\ q.units = r.units
        /\ q.context = r.context /\ q.prog = r.prog
    BY <1>1 DEF Build, Phases, Slots
  <2>4. /\ m \in Build /\ m.pc = "compile" /\ m.entry = r.entry /\ m.units = r.units
        /\ m.context = r.context /\ m.prog = r.prog
    BY <1>1 DEF Build, Phases
  <2>5. Consistent(p) /\ Consistent(q) /\ Consistent(m)
    BY <1>1, <2>1, <2>2, <2>3, <2>4 DEF Consistent, Storing
  <2>6. UNCHANGED <<disk, files, seen, counts>>
    BY <1>3 DEF OpenUnits, Open
  <2> QED BY <2>1, <2>2, <2>3, <2>4, <2>5, <2>6, OneProcess
<1> QED BY <1>2, <1>3

\* Units are restored only into the context they were compiled in.
LEMMA ReadUnitsKeeps ==
    ASSUME TypeOK, HonestInv, NEW b \in Builders, ReadUnits(b)
    PROVE  TypeOK' /\ HonestInv'
<1> DEFINE r == build[b]
           e == CacheStored[r.slot]
           u == Reusable(e, r.context, r.prog)
           q == [r EXCEPT !.pc = "compile", !.units = u]
<1>1. r \in Build /\ Consistent(r) /\ r.pc = "readUnits"
  BY DEF TypeOK, HonestInv, ReadUnits
<1>2. r.slot \in Slots /\ r.prog \in Program
  BY <1>1 DEF Build
<1>3. e \in CacheEntry \union {None}
  BY <1>2, StoredType
<1>4. u \in About(Unit)
  BY <1>2, <1>3, ReusableType
<1>5. r.context.sigs = Signatures(r.prog)
  BY <1>1 DEF Consistent
<1>6. ASSUME NEW s \in DOMAIN u
      PROVE  s \in DOMAIN r.prog /\ u[s].code = CodeOf(s, r.prog)
  <2>1. /\ e \in CacheEntry /\ e.context = r.context /\ s \in DOMAIN e.units
        /\ s \in DOMAIN r.prog /\ u[s] = e.units[s] /\ e.units[s].hash = r.prog[s]
    BY <1>2, <1>3, ReusableType
  <2>2. e # None
    BY NothingKnown DEF Reusable
  <2>3. Honest(e)
    BY <1>2, <2>2, StoredHonest
  <2> QED BY <1>5, <2>1, <2>3 DEF Honest, CodeOf
<1>7. /\ q \in Build /\ q.pc = "compile" /\ q.units = u
      /\ q.entry = r.entry /\ q.context = r.context /\ q.prog = r.prog
  BY <1>1, <1>4 DEF Build, Phases
<1>8. Consistent(q)
  BY <1>1, <1>6, <1>7 DEF Consistent, Storing
<1> QED BY <1>7, <1>8, OneProcess DEF ReadUnits

\* What is generated is what a full compilation generates.
LEMMA GeneratedInFull ==
    ASSUME TypeOK, HonestInv, NEW b \in Builders, build[b].pc = "compile"
    PROVE  Generated(b) = Compiled(build[b].prog)
  BY DEF HonestInv, Consistent, Generated, Compiled

\* Compiling and linking.
LEMMA CompileKeeps ==
    ASSUME TypeOK, HonestInv, NEW b \in Builders, Compile(b) \/ Link(b)
    PROVE  TypeOK' /\ HonestInv'
<1> DEFINE r == build[b]
<1>1. r \in Build /\ Consistent(r)
  BY DEF TypeOK, HonestInv
<1>2. UNCHANGED <<disk, files, seen, counts>>
  BY DEF Compile, Link
<1>3. CASE Compile(b)
  <2>1. CASE ~ Accepts(r.prog)
    BY <1>2, <1>3, <2>1, FailKeeps DEF Compile, Fail
  <2>2. CASE Accepts(r.prog)
    <3> DEFINE out == Artifact(Generated(b), r.settings, Absent)
               q == [r EXCEPT !.pc = "link", !.out = out]
    <3>1. out \in Artifacts /\ out.code = Generated(b)
      BY <1>1, GeneratedType DEF Artifact, Artifacts, Build
    <3>2. /\ q \in Build /\ q.pc = "link" /\ q.out = out /\ q.entry = r.entry
          /\ q.context = r.context /\ q.prog = r.prog
      BY <1>1, <3>1 DEF Build, Phases
    <3>3. q.out.code = Compiled(q.prog)
      BY <1>3, <3>1, <3>2, GeneratedInFull DEF Compile
    <3>4. Consistent(q)
      BY <1>1, <1>3, <3>1, <3>2, <3>3 DEF Consistent, Storing, Compile
    <3> QED BY <1>2, <1>3, <2>2, <3>2, <3>4, OneProcess DEF Compile
  <2> QED BY <2>1, <2>2
<1>4. CASE Link(b)
  <2>1. CASE disk[Dep] = Absent
    BY <1>2, <1>4, <2>1, FailKeeps DEF Link, Fail
  <2>2. CASE disk[Dep] # Absent
    <3> DEFINE out == [r.out EXCEPT !.dep = disk[Dep]]
               q == [r EXCEPT !.pc = "stage", !.out = out]
    <3>1. r.out \in Artifacts /\ r.out.code = Compiled(r.prog)
      BY <1>1, <1>4 DEF Consistent, Link
    <3>2. out \in Artifacts /\ out.code = r.out.code
      BY <2>2, <3>1, DiskTypes DEF Artifacts
    <3>3. q = [r EXCEPT !.pc = "stage", !.out.dep = disk[Dep]]
      BY <1>1 DEF Build
    <3>4. /\ q \in Build /\ q.pc = "stage" /\ q.out = out /\ q.entry = r.entry
          /\ q.context = r.context /\ q.prog = r.prog
      BY <1>1, <3>2 DEF Build, Phases
    <3>5. Consistent(q)
      BY <1>1, <1>4, <3>1, <3>2, <3>4 DEF Consistent, Storing, Link
    <3>6. Set(b, q)
      BY <1>4, <2>2, <3>3 DEF Link
    <3> QED BY <1>2, <3>4, <3>5, <3>6, OneProcess
  <2> QED BY <2>1, <2>2
<1> QED BY <1>3, <1>4

\* An entry or none, and honest.
Sound(e) == e \in CacheEntry \union {None} /\ (e # None => Honest(e))

\* A step of a store: it moves entries and changes what one process knows.
LEMMA StoreStep ==
    ASSUME TypeOK, HonestInv, NEW b \in Builders, NEW r \in Build, Consistent(r),
           Set(b, r), Sound(main'), Sound(backup'), UNCHANGED <<disk, seen, counts>>
    PROVE  TypeOK' /\ HonestInv'
<1>1. build' \in [Builders -> Build]
  BY SetType DEF TypeOK
<1>2. TypeOK'
  BY <1>1 DEF TypeOK, counts, Sound
<1>3. \A o \in Builders : Consistent(build'[o])
  <2> TAKE o \in Builders
  <2>1. CASE o = b
    BY <2>1, SetType DEF TypeOK
  <2>2. CASE o # b
    <3>1. build'[o] = build[o]
      BY <2>2, SetType DEF TypeOK
    <3> QED BY <3>1 DEF HonestInv
  <2> QED BY <2>1, <2>2
<1>4. HonestInv'
  BY <1>3 DEF HonestInv, Sound
<1> QED BY <1>2, <1>4

\* What the files hold before a step.
LEMMA FilesSound ==
    ASSUME TypeOK, HonestInv
    PROVE  Sound(main) /\ Sound(backup) /\ Sound(None)
  BY DEF TypeOK, HonestInv, Sound

\* The new entry is honest.
LEMMA StageKeeps ==
    ASSUME TypeOK, HonestInv, NEW b \in Builders, Stage(b)
    PROVE  TypeOK' /\ HonestInv'
<1> DEFINE r == build[b]
           e == Entry(b)
           q == [r EXCEPT !.pc = "clear", !.entry = e]
<1>1. r \in Build /\ Consistent(r) /\ r.pc = "stage"
  BY DEF TypeOK, HonestInv, Stage
<1>2. /\ r.context \in Context /\ r.context.sigs = Signatures(r.prog)
      /\ r.out \in Artifacts /\ r.out.code = Compiled(r.prog)
  BY <1>1 DEF Consistent
<1>3. r.prog \in Program
  BY <1>1 DEF Build
<1>4. DOMAIN r.out.code = DOMAIN r.prog
  BY <1>2 DEF Compiled
<1>5. e \in CacheEntry
  BY <1>2, <1>4, EntryType
<1>6. Coherent(r.out.code)
  BY <1>2, <1>3, CompiledCoherent
<1>7. Honest(e)
  <2>1. e.out = r.out /\ e.context = r.context
    BY DEF Entry
  <2>2. e.units = [s \in DOMAIN r.prog |-> [hash |-> r.prog[s], code |-> r.out.code[s]]]
    BY DEF Entry
  <2>3. \A s \in DOMAIN r.prog : r.out.code[s] = CodeOf(s, r.prog)
    BY <1>2 DEF Compiled
  <2>4. \A s \in DOMAIN e.units :
          e.units[s].code = [text |-> e.units[s].hash, context |-> e.context.sigs]
    BY <1>2, <2>1, <2>2, <2>3 DEF CodeOf
  <2> QED BY <1>6, <2>1, <2>4 DEF Honest
<1>8. q \in Build /\ q.pc = "clear" /\ q.entry = e /\ q.out = r.out
  BY <1>1, <1>5 DEF Build, Phases
<1> QED
  <2>1. CASE e # None
    <3>1. Consistent(q)
      BY <1>2, <1>6, <1>7, <1>8, <2>1 DEF Consistent, Storing
    <3> QED BY <1>8, <3>1, OneProcess DEF Stage
  <2>2. CASE e = None
    BY <1>5, <2>2, NoneIsNoEntry
  <2> QED BY <2>1, <2>2

\* Clearing the backup, keeping the old entry, and installing the new one.
LEMMA InstallKeeps ==
    ASSUME TypeOK, HonestInv, NEW b \in Builders,
           ClearBackup(b) \/ KeepOld(b) \/ Install(b)
    PROVE  TypeOK' /\ HonestInv'
<1> DEFINE r == build[b]
           k == [r EXCEPT !.pc = "keep"]
           i == [r EXCEPT !.pc = "install"]
           t == [r EXCEPT !.pc = "tidy"]
<1>1. r \in Build /\ Consistent(r) /\ r.pc \in Storing
  BY DEF TypeOK, HonestInv, ClearBackup, KeepOld, Install, Storing
<1>2. k \in Build /\ k.pc = "keep" /\ k.entry = r.entry /\ k.out = r.out
  BY <1>1 DEF Build, Phases
<1>3. i \in Build /\ i.pc = "install" /\ i.entry = r.entry /\ i.out = r.out
  BY <1>1 DEF Build, Phases
<1>4. t \in Build /\ t.pc = "tidy" /\ t.entry = r.entry /\ t.out = r.out
  BY <1>1 DEF Build, Phases
<1>5. Consistent(k) /\ Consistent(i) /\ Consistent(t)
  BY <1>1, <1>2, <1>3, <1>4 DEF Consistent, Storing
<1>6. Sound(main) /\ Sound(backup) /\ Sound(None)
  BY FilesSound
<1>7. Sound(r.entry)
  BY <1>1 DEF Build, Consistent, Sound
<1>8. CASE ClearBackup(b)
  BY <1>2, <1>5, <1>6, <1>8, StoreStep DEF ClearBackup
<1>9. CASE KeepOld(b)
  <2>1. Sound(main') /\ Sound(backup')
    BY <1>6, <1>9 DEF KeepOld, files
  <2> QED BY <1>3, <1>5, <1>9, <2>1, StoreStep DEF KeepOld
<1>10. CASE Install(b)
  BY <1>4, <1>5, <1>6, <1>7, <1>10, StoreStep DEF Install
<1> QED BY <1>8, <1>9, <1>10

\* Removing the backup, and giving up; both emit the artifact.
LEMMA EmitKeeps ==
    ASSUME TypeOK, HonestInv, NEW b \in Builders, Tidy(b) \/ StoreFails(b)
    PROVE  TypeOK' /\ HonestInv'
<1> DEFINE r == build[b]
           q == [Fresh("done") EXCEPT !.out = r.out]
<1>1. r \in Build /\ Consistent(r) /\ r.pc \in Storing \union {"stage", "tidy"}
  BY DEF TypeOK, HonestInv, Tidy, StoreFails, Storing
<1>2. r.out \in Artifacts /\ Coherent(r.out.code)
  <2>1. CASE r.pc = "stage"
    <3>1. r.prog \in Program
      BY <1>1 DEF Build
    <3> QED BY <1>1, <2>1, <3>1, CompiledCoherent DEF Consistent
  <2>2. CASE r.pc # "stage"
    BY <1>1, <2>2 DEF Consistent
  <2> QED BY <2>1, <2>2
<1>3. q \in Build /\ Consistent(q)
  BY <1>2, DoneConsistent
<1>4. Set(b, q) /\ UNCHANGED <<disk, seen, counts>>
  BY DEF Tidy, StoreFails, Emitted
<1>5. Sound(main') /\ Sound(backup')
  BY FilesSound DEF Tidy, StoreFails, files
<1> QED BY <1>3, <1>4, <1>5, StoreStep

\* A new build.
LEMMA BeginKeeps ==
    ASSUME TypeOK, HonestInv, NEW b \in Builders, Begin(b)
    PROVE  TypeOK' /\ HonestInv'
<1> DEFINE q == Fresh("project")
<1>1. q \in Build /\ Consistent(q)
  BY FreshType, FreshConsistent DEF Phases
<1>2. build' \in [Builders -> Build]
  BY <1>1, SetType DEF TypeOK, Begin
<1>3. seen' \in [Builders -> [Files -> SUBSET (Content \union {Absent})]]
  <2>1. [f \in Files |-> {disk[f]}] \in [Files -> SUBSET (Content \union {Absent})]
    BY DEF TypeOK
  <2> QED BY <2>1 DEF TypeOK, Begin
<1>4. TypeOK'
  BY <1>2, <1>3 DEF TypeOK, Begin, files
<1>5. \A o \in Builders : Consistent(build'[o])
  <2> TAKE o \in Builders
  <2>1. CASE o = b
    BY <1>1, <2>1, SetType DEF TypeOK, Begin
  <2>2. CASE o # b
    <3>1. build'[o] = build[o]
      BY <1>1, <2>2, SetType DEF TypeOK, Begin
    <3> QED BY <3>1 DEF HonestInv
  <2> QED BY <2>1, <2>2
<1>6. HonestInv'
  BY <1>5 DEF HonestInv, Begin, files
<1> QED BY <1>4, <1>6

\* The user rewrites or deletes a file.
LEMMA EditKeeps ==
    ASSUME TypeOK, HonestInv, NEW f \in Files, NEW c \in ContentOf(f) \union {Absent},
           Edit(f, c)
    PROVE  TypeOK' /\ HonestInv'
<1>1. c \in Content \union {Absent}
  BY ContentTypes
<1>2. disk' \in [Files -> Content \union {Absent}]
  BY <1>1 DEF TypeOK, Edit
<1>3. \A g \in Files : disk'[g] \in ContentOf(g) \union {Absent}
  BY DEF TypeOK, Edit
<1>4. seen' \in [Builders -> [Files -> SUBSET (Content \union {Absent})]]
  <2>1. seen' = [b \in Builders |->
                   IF Running(b) THEN [seen[b] EXCEPT ![f] = @ \union {c}] ELSE seen[b]]
    BY DEF Edit
  <2>2. ASSUME NEW b \in Builders
        PROVE  [seen[b] EXCEPT ![f] = @ \union {c}]
                 \in [Files -> SUBSET (Content \union {Absent})]
    BY <1>1 DEF TypeOK
  <2> QED BY <2>1, <2>2 DEF TypeOK
<1>5. TypeOK'
  BY <1>2, <1>3, <1>4 DEF TypeOK, Edit, files
<1>6. HonestInv'
  BY DEF HonestInv, Edit, files
<1> QED BY <1>5, <1>6

\* Every step keeps the types and the invariant.
LEMMA NextKeeps ==
    ASSUME TypeOK, HonestInv, [Next]_vars
    PROVE  TypeOK' /\ HonestInv'
<1>1. CASE UNCHANGED vars
  BY <1>1 DEF vars, files, counts, TypeOK, HonestInv
<1>2. ASSUME NEW f \in Edited, NEW c \in ContentOf(f) \union {Absent}, Edit(f, c)
      PROVE  TypeOK' /\ HonestInv'
  BY <1>2, CacheAssumption, EditKeeps
<1>3. ASSUME NEW b \in Builders, Step(b)
      PROVE  TypeOK' /\ HonestInv'
  <2>1. CASE Begin(b)
    BY <2>1, BeginKeeps
  <2>2. CASE LoadProject(b) \/ OpenCache(b)
    BY <2>2, LookupKeeps
  <2>3. CASE ReadCache(b) \/ CheckInput(b)
    BY <2>3, CheckKeeps
  <2>4. CASE Hit(b)
    BY <2>4, HitKeeps
  <2>5. CASE LoadRoot(b) \/ ResolveImport(b) \/ LoadLeaf(b)
    BY <2>5, LoadKeeps
  <2>6. CASE Fingerprint(b) \/ OpenUnits(b)
    BY <2>6, ContextKeeps
  <2>7. CASE ReadUnits(b)
    BY <2>7, ReadUnitsKeeps
  <2>8. CASE Compile(b) \/ Link(b)
    BY <2>8, CompileKeeps
  <2>9. CASE Stage(b)
    BY <2>9, StageKeeps
  <2>10. CASE ClearBackup(b) \/ KeepOld(b) \/ Install(b)
    BY <2>10, InstallKeeps
  <2>11. CASE Tidy(b) \/ StoreFails(b)
    BY <2>11, EmitKeeps
  <2>12. CASE Crash(b)
    BY <2>12, FailKeeps DEF Crash
  <2> QED BY <1>3, <2>1, <2>2, <2>3, <2>4, <2>5, <2>6, <2>7, <2>8, <2>9, <2>10, <2>11,
             <2>12 DEF Step
<1> QED BY <1>1, <1>2, <1>3 DEF Next

\* The initial states.
LEMMA InitHolds == Init => TypeOK /\ HonestInv
<1> SUFFICES ASSUME Init PROVE TypeOK /\ HonestInv
  OBVIOUS
<1>1. PICK text \in [Sources -> Text], leaf \in Leaves, settings \in Settings,
           dep \in Revisions :
        (\A s \in Sources : text[s] \in Texts[s]) /\ disk = DiskOf(text, leaf, settings, dep)
  BY DEF Init, Disks
<1>2. \A f \in Files : disk[f] \in ContentOf(f)
  <2> TAKE f \in Files
  <2>1. CASE f \in Sources
    <3>1. f # Route /\ f # Manifest /\ f # Dep
      BY <2>1, ProjectAssumption
    <3>2. disk[f] = text[f]
      BY <1>1, <2>1, <3>1 DEF DiskOf
    <3> QED BY <1>1, <2>1, <3>2, ContentTypes
  <2>2. CASE f = Route
    <3>1. f \notin Sources /\ f # Manifest /\ f # Dep
      BY <2>2, ProjectAssumption
    <3>2. disk[f] = leaf
      BY <1>1, <2>2, <3>1 DEF DiskOf
    <3> QED BY <2>2, <3>2, ContentTypes
  <2>3. CASE f = Manifest
    <3>1. f \notin Sources /\ f # Route /\ f # Dep
      BY <2>3, ProjectAssumption
    <3>2. disk[f] = settings
      BY <1>1, <2>3, <3>1 DEF DiskOf
    <3> QED BY <2>3, <3>2, ContentTypes
  <2>4. CASE f = Dep
    <3>1. f \notin Sources /\ f # Route /\ f # Manifest
      BY <2>4, ProjectAssumption
    <3>2. disk[f] = dep
      BY <1>1, <2>4, <3>1 DEF DiskOf
    <3> QED BY <2>4, <3>2, ContentTypes
  <2> QED BY <2>1, <2>2, <2>3, <2>4 DEF Files
<1>3. disk \in [Files -> Content \union {Absent}]
  BY <1>1, <1>2, ContentTypes DEF DiskOf
<1>4. build \in [Builders -> Build]
  BY FreshType DEF Init, Phases
<1>5. TypeOK
  BY <1>2, <1>3, <1>4 DEF TypeOK, Init
<1>6. HonestInv
  BY FreshConsistent DEF HonestInv, Init
<1> QED BY <1>5, <1>6

\* The cache, the processes and the files keep their types (QzcFile, the locals
\* of build_with_progress): whatever is read back is an entry some build stored.
THEOREM CacheTypeCorrect == Spec => []TypeOK
<1> QED BY InitHolds, NextKeeps, PTL DEF Spec

\* However often the cache is replaced, by however many processes, and whatever
\* is edited or killed meanwhile, an emitted artifact is made of code compiled
\* against its own declarations (semantic_context_hash, load_codegen_units).
THEOREM ArtifactsCoherent == Spec => []CoherentArtifacts
<1>1. TypeOK /\ HonestInv => CoherentArtifacts
  BY DEF HonestInv, Consistent, CoherentArtifacts
<1> QED BY <1>1, InitHolds, NextKeeps, PTL DEF Spec

-----------------------------------------------------------------------------
(* The invariant behind SourcesAreCurrent *)

\* The inputs of an entry include every source its artifact was made from.
Covers(e) ==
    \A s \in DOMAIN e.out.code :
        s \in DOMAIN e.inputs /\ e.inputs[s] = e.out.code[s].text

\* What process r, which has seen had since it began, knows about files d.
Current(r, had, d) ==
    /\ r.pc \notin Ended =>
         /\ \A f \in Files : d[f] \in had[f]
         /\ \A s \in DOMAIN r.prog : r.prog[s] \in had[s] /\ d[s] # Absent
    /\ r.entry # None => Covers(r.entry)
    /\ r.pc = "check" =>
         \A f \in DOMAIN r.entry.inputs \ r.todo : r.entry.inputs[f] \in had[f]
    /\ r.pc \in Storing \union {"tidy", "done"} =>
         \A s \in DOMAIN r.out.code : r.out.code[s].text \in had[s]

CurrentInv ==
    /\ main # None => Covers(main)
    /\ backup # None => Covers(backup)
    /\ \A b \in Builders : Current(build[b], seen[b], disk)

\* q goes on from r without emitting, checking or storing anything.
Onward(q, r) ==
    /\ q.pc \notin Storing \union {"check", "tidy", "done"}
    /\ q.pc \notin Ended => r.pc \notin Ended /\ q.prog = r.prog
    /\ q.entry = r.entry \/ q.entry = None

\* Going on keeps a process current.
LEMMA OnwardCurrent ==
    ASSUME NEW q, NEW r, NEW had, NEW d, Onward(q, r), Current(r, had, d)
    PROVE  Current(q, had, d)
  BY DEF Onward, Current

\* Giving up is going on.
LEMMA FreshOnward ==
    ASSUME NEW r, NEW pc \in {"idle", "failed"}
    PROVE  Onward(Fresh(pc), r)
  BY DEF Onward, Fresh, Ended, Storing

\* A step of one process, which may move entries.
LEMMA CurrentStep ==
    ASSUME TypeOK, CurrentInv, NEW b \in Builders, NEW r, Set(b, r),
           Current(r, seen[b], disk),
           main' # None => Covers(main'), backup' # None => Covers(backup'),
           UNCHANGED <<disk, seen>>
    PROVE  CurrentInv'
<1>1. ASSUME NEW o \in Builders
      PROVE  Current(build'[o], seen'[o], disk')
  <2>1. CASE o = b
    BY <2>1, SetType DEF TypeOK
  <2>2. CASE o # b
    <3>1. build'[o] = build[o]
      BY <2>2, SetType DEF TypeOK
    <3> QED BY <3>1 DEF CurrentInv
  <2> QED BY <2>1, <2>2
<1> QED BY <1>1 DEF CurrentInv

\* The steps that go on: project, cache file, mod.qz, context, units, code, link.
LEMMA OnwardSteps ==
    ASSUME TypeOK, HonestInv, NEW b \in Builders,
           \/ LoadProject(b) \/ OpenCache(b) \/ ResolveImport(b) \/ Fingerprint(b)
           \/ OpenUnits(b) \/ ReadUnits(b) \/ Compile(b) \/ Link(b) \/ Crash(b)
    PROVE  \E q : Set(b, q) /\ Onward(q, build[b])
<1> DEFINE r == build[b]
<1>1. r \in Build
  BY DEF TypeOK
<1>2. \A pc \in {"idle", "failed"} : Set(b, Fresh(pc)) =>
        \E q : Set(b, q) /\ Onward(q, r)
  BY FreshOnward
<1>3. CASE LoadProject(b)
  <2>1. Onward([r EXCEPT !.pc = "open", !.settings = disk[Manifest]], r)
    BY <1>1, <1>3 DEF Onward, Build, Storing, Ended, LoadProject
  <2> QED BY <1>2, <1>3, <2>1 DEF LoadProject, Fail
<1>4. CASE OpenCache(b)
  <2>1. /\ Onward([r EXCEPT !.pc = "read", !.slot = "main"], r)
        /\ Onward([r EXCEPT !.pc = "read", !.slot = "backup"], r)
        /\ Onward([r EXCEPT !.pc = "load"], r)
    BY <1>1, <1>4 DEF Onward, Build, Storing, Ended, OpenCache, Open
  <2> QED BY <1>4, <2>1 DEF OpenCache, Open
<1>5. CASE ResolveImport(b)
  <2>1. Onward([r EXCEPT !.pc = "leaf", !.leaf = disk[Route]], r)
    BY <1>1, <1>5 DEF Onward, Build, Storing, Ended, ResolveImport
  <2> QED BY <1>2, <1>5, <2>1 DEF ResolveImport, Fail
<1>6. CASE Fingerprint(b)
  <2> DEFINE c == [sigs |-> Signatures(r.prog), manifest |-> disk[Manifest],
                   dep |-> disk[Dep]]
  <2>1. Onward([r EXCEPT !.pc = "openUnits", !.context = c], r)
    BY <1>1, <1>6 DEF Onward, Build, Storing, Ended, Fingerprint
  <2> QED BY <1>6, <2>1 DEF Fingerprint
<1>7. CASE OpenUnits(b)
  <2>1. /\ Onward([r EXCEPT !.pc = "readUnits", !.slot = "main"], r)
        /\ Onward([r EXCEPT !.pc = "readUnits", !.slot = "backup"], r)
        /\ Onward([r EXCEPT !.pc = "compile"], r)
    BY <1>1, <1>7 DEF Onward, Build, Storing, Ended, OpenUnits, Open
  <2> QED BY <1>7, <2>1 DEF OpenUnits, Open
<1>8. CASE ReadUnits(b)
  <2> DEFINE u == Reusable(CacheStored[r.slot], r.context, r.prog)
  <2>1. Onward([r EXCEPT !.pc = "compile", !.units = u], r)
    BY <1>1, <1>8 DEF Onward, Build, Storing, Ended, ReadUnits
  <2> QED BY <1>8, <2>1 DEF ReadUnits
<1>9. CASE Compile(b)
  <2> DEFINE out == Artifact(Generated(b), r.settings, Absent)
  <2>1. Onward([r EXCEPT !.pc = "link", !.out = out], r)
    BY <1>1, <1>9 DEF Onward, Build, Storing, Ended, Compile
  <2> QED BY <1>2, <1>9, <2>1 DEF Compile, Fail
<1>10. CASE Link(b)
  <2>1. Onward([r EXCEPT !.pc = "stage", !.out.dep = disk[Dep]], r)
    BY <1>1, <1>10 DEF Onward, Build, Storing, Ended, Link
  <2> QED BY <1>2, <1>10, <2>1 DEF Link, Fail
<1>11. CASE Crash(b)
  BY <1>2, <1>11 DEF Crash
<1> QED BY <1>3, <1>4, <1>5, <1>6, <1>7, <1>8, <1>9, <1>10, <1>11

\* Reading the cache and hashing the inputs.
LEMMA CheckCurrent ==
    ASSUME TypeOK, HonestInv, CurrentInv, NEW b \in Builders,
           ReadCache(b) \/ CheckInput(b)
    PROVE  CurrentInv'
<1> DEFINE r == build[b]
<1>1. r \in Build /\ Current(r, seen[b], disk)
  BY DEF TypeOK, CurrentInv
<1>2. UNCHANGED <<disk, seen, main, backup>>
  BY DEF ReadCache, CheckInput, files
<1>3. CASE ReadCache(b)
  <2> DEFINE e == CacheStored[r.slot]
             q == [r EXCEPT !.pc = "check", !.entry = e, !.todo = DOMAIN e.inputs]
             m == [r EXCEPT !.pc = "load"]
  <2>1. Onward(m, r)
    BY <1>1, <1>3 DEF Onward, Build, Storing, Ended, ReadCache
  <2>2. /\ q.pc = "check" /\ q.entry = e /\ q.prog = r.prog
        /\ q.todo = DOMAIN e.inputs
    BY <1>1 DEF Build
  <2>3. e # None => Covers(e)
    BY <1>1 DEF CacheStored, Slots, Build, CurrentInv
  <2>4. Current(q, seen[b], disk)
    BY <1>1, <1>3, <2>2, <2>3 DEF Current, Ended, Storing, ReadCache
  <2>5. Current(m, seen[b], disk)
    BY <1>1, <2>1, OnwardCurrent
  <2>6. Set(b, q) \/ Set(b, m)
    BY <1>3 DEF ReadCache
  <2> QED BY <1>2, <2>4, <2>5, <2>6, CurrentStep DEF CurrentInv
<1>4. CASE CheckInput(b)
  <2>1. PICK f \in r.todo :
          Set(b, IF disk[f] = r.entry.inputs[f]
                   THEN [r EXCEPT !.todo = @ \ {f}]
                   ELSE [r EXCEPT !.pc = "load", !.entry = None, !.todo = {}])
    BY <1>4 DEF CheckInput
  <2> DEFINE p == [r EXCEPT !.todo = r.todo \ {f}]
             q == [r EXCEPT !.pc = "load", !.entry = None, !.todo = {}]
  <2>2. Onward(q, r)
    BY <1>1, <1>4 DEF Onward, Build, Storing, Ended, CheckInput
  <2>3. /\ p.pc = "check" /\ p.entry = r.entry /\ p.prog = r.prog
        /\ p.todo = r.todo \ {f}
    BY <1>1, <1>4 DEF Build, CheckInput
  <2>4. f \in Files
    BY <1>1 DEF Build
  <2>5. disk[f] = r.entry.inputs[f] => Current(p, seen[b], disk)
    <3> SUFFICES ASSUME disk[f] = r.entry.inputs[f]
                 PROVE  Current(p, seen[b], disk)
      OBVIOUS
    <3>1. disk[f] \in seen[b][f]
      BY <1>1, <1>4, <2>4 DEF Current, Ended, CheckInput
    <3>2. \A g \in DOMAIN p.entry.inputs \ p.todo : p.entry.inputs[g] \in seen[b][g]
      BY <1>1, <1>4, <2>3, <3>1 DEF Current, CheckInput
    <3> QED BY <1>1, <1>4, <2>3, <3>2 DEF Current, Ended, Storing, CheckInput
  <2>6. Current(q, seen[b], disk)
    BY <1>1, <2>2, OnwardCurrent
  <2>7. (disk[f] = r.entry.inputs[f] /\ Set(b, p)) \/ Set(b, q)
    BY <2>1
  <2> QED BY <1>2, <2>5, <2>6, <2>7, CurrentStep DEF CurrentInv
<1> QED BY <1>3, <1>4

\* Emitting an artifact.
LEMMA DoneCurrent ==
    ASSUME NEW out \in Artifacts, NEW had, NEW d,
           \A s \in DOMAIN out.code : out.code[s].text \in had[s]
    PROVE  Current([Fresh("done") EXCEPT !.out = out], had, d)
<1> DEFINE q == [Fresh("done") EXCEPT !.out = out]
<1>1. q.pc = "done" /\ q.entry = None /\ q.out = out
  BY DEF Fresh
<1> QED BY <1>1 DEF Current, Ended, Storing

\* A hit: every input was on disk, and the inputs cover the sources.
LEMMA HitCurrent ==
    ASSUME TypeOK, HonestInv, CurrentInv, NEW b \in Builders, Hit(b)
    PROVE  CurrentInv'
<1> DEFINE r == build[b]
           e == r.entry
<1>1. r \in Build /\ Consistent(r) /\ Current(r, seen[b], disk)
  BY DEF TypeOK, HonestInv, CurrentInv
<1>2. r.pc = "check" /\ r.todo = {}
  BY DEF Hit
<1>3. e # None /\ Covers(e)
  BY <1>1, <1>2 DEF Consistent, Current
<1>4. e.out \in Artifacts
  BY <1>1, <1>3 DEF Build, CacheEntry
<1>5. \A f \in DOMAIN e.inputs : e.inputs[f] \in seen[b][f]
  BY <1>1, <1>2 DEF Current
<1>6. \A s \in DOMAIN e.out.code : e.out.code[s].text \in seen[b][s]
  BY <1>3, <1>5 DEF Covers
<1>7. Current([Fresh("done") EXCEPT !.out = e.out], seen[b], disk)
  BY <1>4, <1>6, DoneCurrent
<1> QED BY <1>7, CurrentStep DEF Hit, files, CurrentInv

\* Reading a source: its text is on disk now.
LEMMA LoadCurrent ==
    ASSUME TypeOK, HonestInv, CurrentInv, NEW b \in Builders, LoadRoot(b) \/ LoadLeaf(b)
    PROVE  CurrentInv'
<1> DEFINE r == build[b]
<1>1. r \in Build /\ Consistent(r) /\ Current(r, seen[b], disk)
  BY DEF TypeOK, HonestInv, CurrentInv
<1>2. UNCHANGED <<disk, seen, main, backup>>
  BY DEF LoadRoot, LoadLeaf, files
<1>3. /\ \A f \in Files : disk[f] \in seen[b][f]
      /\ \A s \in DOMAIN r.prog : r.prog[s] \in seen[b][s] /\ disk[s] # Absent
  BY <1>1 DEF Current, Ended, LoadRoot, LoadLeaf
<1>4. Current(Fresh("failed"), seen[b], disk)
  BY <1>1, FreshOnward, OnwardCurrent
<1>5. CASE LoadRoot(b)
  <2> DEFINE prog == [s \in {Root} |-> disk[Root]]
             q == [r EXCEPT !.pc = "resolve", !.prog = prog]
  <2>1. q.pc = "resolve" /\ q.entry = r.entry /\ q.prog = prog
    BY <1>1 DEF Build
  <2>2. disk[Root] # Absent => Current(q, seen[b], disk)
    BY <1>1, <1>3, <2>1, ContentTypes DEF Current, Ended, Storing
  <2>3. Set(b, Fresh("failed")) \/ (disk[Root] # Absent /\ Set(b, q))
    BY <1>5 DEF LoadRoot, Fail
  <2> QED BY <1>2, <1>4, <2>2, <2>3, CurrentStep DEF CurrentInv
<1>6. CASE LoadLeaf(b)
  <2> DEFINE S == DOMAIN r.prog \union {r.leaf}
             prog == [s \in S |-> IF s \in DOMAIN r.prog THEN r.prog[s] ELSE disk[s]]
             q == [r EXCEPT !.pc = "context", !.prog = prog]
  <2>1. q.pc = "context" /\ q.entry = r.entry /\ q.prog = prog
    BY <1>1 DEF Build
  <2>2. r.leaf \in Files
    BY <1>1, <1>6, ContentTypes DEF Consistent, LoadLeaf
  <2>3. disk[r.leaf] # Absent =>
          \A s \in S : prog[s] \in seen[b][s] /\ disk[s] # Absent
    BY <1>3, <2>2
  <2>4. disk[r.leaf] # Absent => Current(q, seen[b], disk)
    BY <1>1, <1>3, <2>1, <2>3 DEF Current, Ended, Storing
  <2>5. Set(b, Fresh("failed")) \/ (disk[r.leaf] # Absent /\ Set(b, q))
    BY <1>6 DEF LoadLeaf, Fail
  <2> QED BY <1>2, <1>4, <2>4, <2>5, CurrentStep DEF CurrentInv
<1> QED BY <1>5, <1>6

\* Staging: the loaded sources are still there, so the new entry covers them.
LEMMA StageCurrent ==
    ASSUME TypeOK, HonestInv, CurrentInv, NEW b \in Builders, Stage(b)
    PROVE  CurrentInv'
<1> DEFINE r == build[b]
           e == Entry(b)
           q == [r EXCEPT !.pc = "clear", !.entry = e]
<1>1. /\ r \in Build /\ Consistent(r) /\ Current(r, seen[b], disk)
      /\ r.pc = "stage"
  BY DEF TypeOK, HonestInv, CurrentInv, Stage
<1>2. r.out.code = Compiled(r.prog)
  BY <1>1 DEF Consistent
<1>3. \A s \in DOMAIN r.prog : r.prog[s] \in seen[b][s] /\ disk[s] # Absent
  BY <1>1 DEF Current, Ended
<1>4. DOMAIN r.out.code = DOMAIN r.prog
        /\ \A s \in DOMAIN r.prog : r.out.code[s].text = r.prog[s]
  BY <1>2 DEF Compiled, CodeOf
<1>5. e.out = r.out /\ e.inputs = Inputs(b)
  BY DEF Entry
<1>6. \A s \in DOMAIN r.prog : s \in DOMAIN Inputs(b) /\ Inputs(b)[s] = r.prog[s]
  BY <1>3 DEF Inputs
<1>7. Covers(e)
  BY <1>4, <1>5, <1>6 DEF Covers
<1>8. q.pc = "clear" /\ q.entry = e /\ q.prog = r.prog /\ q.out = r.out
  BY <1>1 DEF Build
<1>9. Current(q, seen[b], disk)
  BY <1>1, <1>3, <1>4, <1>7, <1>8 DEF Current, Ended, Storing
<1> QED BY <1>9, CurrentStep DEF Stage, files, CurrentInv

\* Replacing the cache.
LEMMA InstallCurrent ==
    ASSUME TypeOK, HonestInv, CurrentInv, NEW b \in Builders,
           ClearBackup(b) \/ KeepOld(b) \/ Install(b)
    PROVE  CurrentInv'
<1> DEFINE r == build[b]
           k == [r EXCEPT !.pc = "keep"]
           i == [r EXCEPT !.pc = "install"]
           t == [r EXCEPT !.pc = "tidy"]
<1>1. r \in Build /\ Consistent(r) /\ Current(r, seen[b], disk) /\ r.pc \in Storing
  BY DEF TypeOK, HonestInv, CurrentInv, ClearBackup, KeepOld, Install, Storing
<1>2. /\ k.pc = "keep" /\ k.entry = r.entry /\ k.out = r.out /\ k.prog = r.prog
      /\ i.pc = "install" /\ i.entry = r.entry /\ i.out = r.out /\ i.prog = r.prog
      /\ t.pc = "tidy" /\ t.entry = r.entry /\ t.out = r.out /\ t.prog = r.prog
  BY <1>1 DEF Build
<1>3. /\ Current(k, seen[b], disk) /\ Current(i, seen[b], disk)
      /\ Current(t, seen[b], disk)
  BY <1>1, <1>2 DEF Current, Ended, Storing
<1>4. r.entry # None /\ Covers(r.entry)
  BY <1>1 DEF Current, Consistent
<1>5. UNCHANGED <<disk, seen>> /\ (Set(b, k) \/ Set(b, i) \/ Set(b, t))
  BY DEF ClearBackup, KeepOld, Install
<1>6. (main' # None => Covers(main')) /\ (backup' # None => Covers(backup'))
  BY <1>4 DEF ClearBackup, KeepOld, Install, files, CurrentInv
<1> QED BY <1>3, <1>5, <1>6, CurrentStep

\* Emitting what was compiled.
LEMMA EmitCurrent ==
    ASSUME TypeOK, HonestInv, CurrentInv, NEW b \in Builders, Tidy(b) \/ StoreFails(b)
    PROVE  CurrentInv'
<1> DEFINE r == build[b]
<1>1. /\ r \in Build /\ Consistent(r) /\ Current(r, seen[b], disk)
      /\ r.pc \in Storing \union {"stage", "tidy"}
  BY DEF TypeOK, HonestInv, CurrentInv, Tidy, StoreFails, Storing
<1>2. /\ r.out \in Artifacts
      /\ \A s \in DOMAIN r.out.code : r.out.code[s].text \in seen[b][s]
  <2>1. CASE r.pc = "stage"
    <3>1. r.out \in Artifacts /\ r.out.code = Compiled(r.prog)
      BY <1>1, <2>1 DEF Consistent
    <3>2. \A s \in DOMAIN r.prog : r.prog[s] \in seen[b][s]
      BY <1>1, <2>1 DEF Current, Ended
    <3> QED BY <3>1, <3>2 DEF Compiled, CodeOf
  <2>2. CASE r.pc # "stage"
    BY <1>1, <2>2 DEF Consistent, Current
  <2> QED BY <2>1, <2>2
<1>3. Current([Fresh("done") EXCEPT !.out = r.out], seen[b], disk)
  BY <1>2, DoneCurrent
<1>4. UNCHANGED <<disk, seen>> /\ Set(b, [Fresh("done") EXCEPT !.out = r.out])
  BY DEF Tidy, StoreFails, Emitted
<1>5. (main' # None => Covers(main')) /\ (backup' # None => Covers(backup'))
  BY DEF Tidy, StoreFails, files, CurrentInv
<1> QED BY <1>3, <1>4, <1>5, CurrentStep

\* A new build has seen what is on disk.
LEMMA BeginCurrent ==
    ASSUME TypeOK, CurrentInv, NEW b \in Builders, Begin(b)
    PROVE  CurrentInv'
<1> DEFINE had == [f \in Files |-> {disk[f]}]
<1>1. Current(Fresh("project"), had, disk)
  BY NothingKnown DEF Current, Fresh, Ended, Storing
<1>2. seen'[b] = had /\ \A o \in Builders : o # b => seen'[o] = seen[o]
  BY DEF Begin, TypeOK
<1>3. ASSUME NEW o \in Builders
      PROVE  Current(build'[o], seen'[o], disk')
  <2>1. CASE o = b
    BY <1>1, <1>2, <2>1, SetType DEF TypeOK, Begin
  <2>2. CASE o # b
    <3>1. build'[o] = build[o]
      BY <2>2, SetType DEF TypeOK, Begin
    <3> QED BY <1>2, <2>2, <3>1 DEF CurrentInv, Begin
  <2> QED BY <2>1, <2>2
<1> QED BY <1>3 DEF CurrentInv, Begin, files

\* An edit is seen by the processes that run, and deletes nothing they loaded.
LEMMA EditCurrent ==
    ASSUME TypeOK, CurrentInv, Vanishing \intersect Sources = {},
           NEW f \in Files, NEW c \in ContentOf(f) \union {Absent}, Edit(f, c)
    PROVE  CurrentInv'
<1>1. ASSUME NEW b \in Builders
      PROVE  Current(build'[b], seen'[b], disk')
  <2> DEFINE r == build[b]
  <2>1. r \in Build /\ Current(r, seen[b], disk) /\ build' = build
    BY DEF TypeOK, CurrentInv, Edit
  <2>2. /\ disk'[f] = c
        /\ \A g \in Files : g # f => disk'[g] = disk[g]
    BY DEF TypeOK, Edit
  <2>3. CASE Running(b)
    <3>1. seen'[b] = [seen[b] EXCEPT ![f] = @ \union {c}]
      BY <2>3 DEF Edit
    <3>2. /\ c \in seen'[b][f]
          /\ \A g \in Files : seen[b][g] \subseteq seen'[b][g]
      BY <3>1 DEF TypeOK
    <3>3. c = Absent => f \notin Sources
      BY <2>3 DEF Edit
    <3>4. DOMAIN r.prog \in SUBSET Sources
      BY <2>1, AboutElim DEF Build, Program
    <3>5. r.pc \notin Ended
      BY <2>3 DEF Running
    <3>6. \A g \in Files : disk'[g] \in seen'[b][g]
      BY <2>1, <2>2, <3>2, <3>5 DEF Current
    <3>7. \A s \in DOMAIN r.prog : r.prog[s] \in seen'[b][s] /\ disk'[s] # Absent
      BY <2>1, <2>2, <3>2, <3>3, <3>4, <3>5, ContentTypes DEF Current
    <3>8. r.pc = "check" =>
            \A g \in DOMAIN r.entry.inputs \ r.todo : r.entry.inputs[g] \in seen'[b][g]
      <4> SUFFICES ASSUME r.pc = "check", NEW g \in DOMAIN r.entry.inputs \ r.todo
                   PROVE  r.entry.inputs[g] \in seen'[b][g]
        OBVIOUS
      <4>1. r.entry.inputs[g] \in seen[b][g]
        BY <2>1 DEF Current
      <4>2. CASE g \in Files
        BY <3>2, <4>1, <4>2
      <4>3. CASE g \notin Files
        BY <2>1, <3>1, <4>1, <4>3 DEF TypeOK
      <4> QED BY <4>2, <4>3
    <3>9. r.pc \in Storing \union {"tidy", "done"} =>
            \A s \in DOMAIN r.out.code : r.out.code[s].text \in seen'[b][s]
      <4> SUFFICES ASSUME r.pc \in Storing \union {"tidy", "done"},
                          NEW s \in DOMAIN r.out.code
                   PROVE  r.out.code[s].text \in seen'[b][s]
        OBVIOUS
      <4>1. r.out.code[s].text \in seen[b][s]
        BY <2>1 DEF Current
      <4>2. CASE s \in Files
        BY <3>2, <4>1, <4>2
      <4>3. CASE s \notin Files
        BY <2>1, <3>1, <4>1, <4>3 DEF TypeOK
      <4> QED BY <4>2, <4>3
    <3> QED BY <2>1, <3>6, <3>7, <3>8, <3>9 DEF Current
  <2>4. CASE ~ Running(b)
    <3>1. seen'[b] = seen[b] /\ r.pc \in Ended
      BY <2>4 DEF Edit, Running
    <3> QED BY <2>1, <3>1 DEF Current, Ended
  <2> QED BY <2>3, <2>4
<1> QED BY <1>1 DEF CurrentInv, Edit, files

\* Every step keeps what processes know current.
LEMMA NextCurrent ==
    ASSUME TypeOK, HonestInv, CurrentInv, Vanishing \intersect Sources = {}, [Next]_vars
    PROVE  CurrentInv'
<1>1. CASE UNCHANGED vars
  BY <1>1 DEF vars, files, CurrentInv
<1>2. ASSUME NEW f \in Edited, NEW c \in ContentOf(f) \union {Absent}, Edit(f, c)
      PROVE  CurrentInv'
  BY <1>2, CacheAssumption, EditCurrent
<1>3. ASSUME NEW b \in Builders, Step(b)
      PROVE  CurrentInv'
  <2>1. CASE Begin(b)
    BY <2>1, BeginCurrent
  <2>2. CASE \/ LoadProject(b) \/ OpenCache(b) \/ ResolveImport(b) \/ Fingerprint(b)
             \/ OpenUnits(b) \/ ReadUnits(b) \/ Compile(b) \/ Link(b) \/ Crash(b)
    <3>1. PICK q : Set(b, q) /\ Onward(q, build[b])
      BY <2>2, OnwardSteps
    <3>2. Current(q, seen[b], disk)
      BY <3>1, OnwardCurrent DEF CurrentInv
    <3>3. UNCHANGED <<disk, seen, main, backup>>
      BY <2>2 DEF LoadProject, OpenCache, ResolveImport, Fingerprint, OpenUnits, Open,
                  ReadUnits, Compile, Link, Crash, files
    <3> QED BY <3>1, <3>2, <3>3, CurrentStep DEF CurrentInv
  <2>3. CASE ReadCache(b) \/ CheckInput(b)
    BY <2>3, CheckCurrent
  <2>4. CASE Hit(b)
    BY <2>4, HitCurrent
  <2>5. CASE LoadRoot(b) \/ LoadLeaf(b)
    BY <2>5, LoadCurrent
  <2>6. CASE Stage(b)
    BY <2>6, StageCurrent
  <2>7. CASE ClearBackup(b) \/ KeepOld(b) \/ Install(b)
    BY <2>7, InstallCurrent
  <2>8. CASE Tidy(b) \/ StoreFails(b)
    BY <2>8, EmitCurrent
  <2> QED BY <1>3, <2>1, <2>2, <2>3, <2>4, <2>5, <2>6, <2>7, <2>8 DEF Step
<1> QED BY <1>1, <1>2, <1>3 DEF Next

\* If no source disappears while a build runs, a build never emits a source
\* text that was replaced before it began, cached or not (load, store).
THEOREM SourcesStayCurrent ==
    ASSUME Vanishing \intersect Sources = {}
    PROVE  Spec => []SourcesAreCurrent
<1>1. Init => CurrentInv
  BY FreshOnward, NothingKnown DEF Init, CurrentInv, Current, Fresh, Ended, Storing
<1>2. CurrentInv => SourcesAreCurrent
  BY DEF CurrentInv, Current, SourcesAreCurrent
<1>3. TypeOK /\ HonestInv /\ CurrentInv /\ [Next]_vars => CurrentInv'
  BY NextCurrent
<1> QED BY <1>1, <1>2, <1>3, InitHolds, NextKeeps, PTL DEF Spec

\* A store never takes away an installed entry without leaving one to read: the
\* renames of incremental::store, whoever else stores and wherever it fails.
THEOREM EntriesSurvive == Spec => EntrySurvives
<1>1. TypeOK /\ HonestInv /\ [Next]_vars
        => [main # None => main' # None \/ backup' # None]_vars
  <2> SUFFICES ASSUME TypeOK, HonestInv, Next, main # None
               PROVE  main' # None \/ backup' # None
    OBVIOUS
  <2>1. ASSUME NEW b \in Builders, Install(b)
        PROVE  main' # None
    BY <2>1 DEF Install, HonestInv, Consistent, Storing
  <2>2. ASSUME NEW b \in Builders, Step(b), ~ Install(b)
        PROVE  main' # None \/ backup' # None
    BY <2>2 DEF Step, Begin, LoadProject, OpenCache, OpenUnits, Open, ReadCache, CheckInput,
                Hit, LoadRoot, ResolveImport, LoadLeaf, Fingerprint, ReadUnits, Compile,
                Link, Stage, ClearBackup, KeepOld, Tidy, StoreFails, Crash, files
  <2>3. ASSUME NEW f \in Edited, NEW c, Edit(f, c)
        PROVE  main' # None
    BY <2>3 DEF Edit, files
  <2> QED BY <2>1, <2>2, <2>3 DEF Next
<1> QED BY <1>1, InitHolds, NextKeeps, PTL DEF Spec, EntrySurvives

-----------------------------------------------------------------------------
(* The invariant behind ConfigurationIsCurrent and BuildsInFull *)

\* A leaf the process has found by way of the mod.qz.
LeafOf(leaf, had, d) ==
    /\ leaf \in had[Route]
    /\ Route \notin Edited => leaf = d[Route]

\* The artifact of an entry is a full compilation, and the configuration it was
\* made under is among the inputs.
Recorded(e, d) ==
    /\ {Manifest, Dep} \subseteq DOMAIN e.inputs
    /\ e.out.settings = e.inputs[Manifest]
    /\ e.out.dep = e.inputs[Dep]
    /\ \E prog \in Program : \E leaf \in Leaves :
         /\ DOMAIN prog = {Root, leaf} /\ Accepts(prog)
         /\ e.out.code = Compiled(prog)
         /\ Route \notin Edited => leaf = d[Route]

\* The artifact of a program the process has read, under a configuration it has.
Emittable(out, had, d) ==
    /\ out.settings \in had[Manifest] \ {Absent}
    /\ out.dep \in had[Dep] \ {Absent}
    /\ \E prog \in Program : \E leaf \in Leaves :
         /\ DOMAIN prog = {Root, leaf} /\ Accepts(prog)
         /\ out.code = Compiled(prog)
         /\ LeafOf(leaf, had, d)
         /\ \A s \in DOMAIN prog : prog[s] \in had[s]

\* What process r, which has seen had since it began, knows of files d.
Informed(r, had, d) ==
    /\ r.entry # None => Recorded(r.entry, d)
    /\ r.pc \notin Ended \union {"project"} =>
         r.settings = d[Manifest] /\ d[Manifest] # Absent
    /\ r.pc \in {"resolve", "leaf"} => DOMAIN r.prog = {Root}
    /\ r.pc = "leaf" => r.leaf \in Leaves /\ LeafOf(r.leaf, had, d)
    /\ r.pc \in {"context", "openUnits", "readUnits", "compile", "link", "stage"} =>
         \E leaf \in Leaves : DOMAIN r.prog = {Root, leaf} /\ LeafOf(leaf, had, d)
    /\ r.pc \in {"link", "stage"} => Accepts(r.prog) /\ r.out.settings = d[Manifest]
    /\ r.pc = "stage" => r.out.dep = d[Dep] /\ d[Dep] # Absent
    /\ r.pc \in Storing \union {"tidy"} => Emittable(r.out, had, d)
    /\ r.pc = "done" => r.out.settings \in had[Manifest] /\ r.out.dep \in had[Dep]

InformedInv ==
    /\ main # None => Recorded(main, disk)
    /\ backup # None => Recorded(backup, disk)
    /\ \A b \in Builders : Informed(build[b], seen[b], disk)

\* The files of the configuration hold still while a build runs, and nothing is
\* deleted under it.
Steady == Racing \intersect {Manifest, Dep} = {} /\ Vanishing = {}

\* A file that does not exist has no content.
LEMMA AbsentIsNoContent ==
    /\ Absent \notin Content /\ Absent \notin Leaves /\ Absent \notin Text
    /\ Absent \notin Settings /\ Absent \notin Revisions
<1>1. \A f \in Files : Absent \notin ContentOf(f)
  <2> TAKE f \in Files
  <2>1. \A s \in Sources : Texts[s] \subseteq Text
    BY DEF Text
  <2> QED BY <2>1, ProjectAssumption DEF ContentOf, Files
<1> QED BY <1>1, ProjectAssumption DEF Content

\* What was read of the entry source and of the leaf makes a program a full
\* build could have loaded.
LEMMA ProgramLoaded ==
    ASSUME NEW prog \in Program, NEW leaf \in Leaves, NEW had, NEW d, DOMAIN prog = {Root, leaf},
           LeafOf(leaf, had, d), \A s \in DOMAIN prog : prog[s] \in had[s]
    PROVE  prog \in Full!Loaded(had)
<1>1. DOMAIN prog \in SUBSET Sources /\ prog \in [DOMAIN prog -> Text]
  BY AboutElim DEF Program
<1>2. prog[Root] \in had[Root] \ {Absent} /\ prog[leaf] \in had[leaf] \ {Absent}
  BY <1>1, AbsentIsNoContent
<1>3. leaf \in had[Route] \ {Absent}
  BY AbsentIsNoContent DEF LeafOf
<1>4. prog = [s \in {Root, leaf} |-> IF s = Root THEN prog[Root] ELSE prog[leaf]]
  BY <1>1
<1> QED BY <1>2, <1>3, <1>4 DEF Full!Loaded

\* An artifact is its three parts.
LEMMA ArtifactParts ==
    ASSUME NEW out \in Artifacts
    PROVE  out = Artifact(out.code, out.settings, out.dep)
  BY DEF Artifacts, Artifact

\* It is what a full build may emit.
LEMMA EmittedInFull ==
    ASSUME NEW out \in Artifacts, NEW had, NEW d, Emittable(out, had, d)
    PROVE  \E prog \in Full!Loaded(had) :
             \E settings \in had[Manifest], dep \in had[Dep] :
               /\ Accepts(prog) /\ settings # Absent /\ dep # Absent
               /\ out = Artifact(Compiled(prog), settings, dep)
<1>1. PICK prog \in Program : \E leaf \in Leaves :
        /\ DOMAIN prog = {Root, leaf} /\ Accepts(prog) /\ out.code = Compiled(prog)
        /\ LeafOf(leaf, had, d) /\ \A s \in DOMAIN prog : prog[s] \in had[s]
  BY DEF Emittable
<1>2. prog \in Full!Loaded(had)
  BY <1>1, ProgramLoaded
<1>3. out = Artifact(Compiled(prog), out.settings, out.dep)
  BY <1>1, ArtifactParts
<1>4. out.settings \in had[Manifest] \ {Absent} /\ out.dep \in had[Dep] \ {Absent}
  BY DEF Emittable
<1> QED BY <1>1, <1>2, <1>3, <1>4

\* A step of one process, which may move entries.
LEMMA InformedStep ==
    ASSUME TypeOK, InformedInv, NEW b \in Builders, NEW r, Set(b, r),
           Informed(r, seen[b], disk),
           main' # None => Recorded(main', disk),
           backup' # None => Recorded(backup', disk),
           UNCHANGED <<disk, seen>>
    PROVE  InformedInv'
<1>1. ASSUME NEW o \in Builders
      PROVE  Informed(build'[o], seen'[o], disk')
  <2>1. CASE o = b
    BY <2>1, SetType DEF TypeOK
  <2>2. CASE o # b
    <3>1. build'[o] = build[o]
      BY <2>2, SetType DEF TypeOK
    <3> QED BY <3>1 DEF InformedInv
  <2> QED BY <2>1, <2>2
<1> QED BY <1>1 DEF InformedInv

\* A process that knows nothing.
LEMMA FreshInformed ==
    ASSUME NEW pc \in {"idle", "failed", "project"}, NEW had, NEW d
    PROVE  Informed(Fresh(pc), had, d)
  BY DEF Informed, Fresh, Ended, Storing

\* Giving up.
LEMMA FailInformed ==
    ASSUME TypeOK, InformedInv, NEW b \in Builders, NEW pc \in {"idle", "failed"},
           Set(b, Fresh(pc)), UNCHANGED <<disk, seen, main, backup>>
    PROVE  InformedInv'
  BY FreshInformed, InformedStep DEF InformedInv

\* A process about to take a step: its type, and all that is known of it.
LEMMA Known ==
    ASSUME TypeOK, HonestInv, CurrentInv, InformedInv, NEW b \in Builders
    PROVE  /\ build[b] \in Build /\ Consistent(build[b])
           /\ Current(build[b], seen[b], disk) /\ Informed(build[b], seen[b], disk)
  BY DEF TypeOK, HonestInv, CurrentInv, InformedInv

\* Loading the manifest, and looking for a cache.
LEMMA LookupInformed ==
    ASSUME TypeOK, HonestInv, CurrentInv, InformedInv, NEW b \in Builders,
           LoadProject(b) \/ OpenCache(b)
    PROVE  InformedInv'
<1> DEFINE r == build[b]
<1>1. r \in Build /\ Informed(r, seen[b], disk)
  BY Known
<1>2. UNCHANGED <<disk, seen, main, backup>>
  BY DEF LoadProject, OpenCache, Open, files
<1>3. CASE LoadProject(b)
  <2> DEFINE q == [r EXCEPT !.pc = "open", !.settings = disk[Manifest]]
  <2>1. q.pc = "open" /\ q.entry = r.entry /\ q.settings = disk[Manifest]
    BY <1>1 DEF Build
  <2>2. disk[Manifest] # Absent => Informed(q, seen[b], disk)
    BY <1>1, <2>1 DEF Informed, Ended, Storing
  <2>3. Set(b, Fresh("failed")) \/ (disk[Manifest] # Absent /\ Set(b, q))
    BY <1>3 DEF LoadProject, Fail
  <2> QED BY <1>2, <2>2, <2>3, FailInformed, InformedStep DEF InformedInv
<1>4. CASE OpenCache(b)
  <2> DEFINE p == [r EXCEPT !.pc = "read", !.slot = "main"]
             q == [r EXCEPT !.pc = "read", !.slot = "backup"]
             m == [r EXCEPT !.pc = "load"]
  <2>1. r.pc = "open" /\ (Set(b, p) \/ Set(b, q) \/ Set(b, m))
    BY <1>4 DEF OpenCache, Open
  <2>2. /\ p.pc = "read" /\ p.entry = r.entry /\ p.settings = r.settings
        /\ q.pc = "read" /\ q.entry = r.entry /\ q.settings = r.settings
        /\ m.pc = "load" /\ m.entry = r.entry /\ m.settings = r.settings
    BY <1>1 DEF Build
  <2>3. /\ Informed(p, seen[b], disk) /\ Informed(q, seen[b], disk)
        /\ Informed(m, seen[b], disk)
    BY <1>1, <2>1, <2>2 DEF Informed, Ended, Storing
  <2> QED BY <1>2, <2>1, <2>3, InformedStep DEF InformedInv
<1> QED BY <1>3, <1>4

\* Reading the cache and hashing the inputs.
LEMMA CheckInformed ==
    ASSUME TypeOK, HonestInv, CurrentInv, InformedInv, NEW b \in Builders,
           ReadCache(b) \/ CheckInput(b)
    PROVE  InformedInv'
<1> DEFINE r == build[b]
<1>1. r \in Build /\ Informed(r, seen[b], disk)
  BY Known
<1>2. UNCHANGED <<disk, seen, main, backup>>
  BY DEF ReadCache, CheckInput, files
<1>3. CASE ReadCache(b)
  <2> DEFINE e == CacheStored[r.slot]
             q == [r EXCEPT !.pc = "check", !.entry = e, !.todo = DOMAIN e.inputs]
             m == [r EXCEPT !.pc = "load"]
  <2>1. r.pc = "read" /\ (Set(b, q) \/ Set(b, m))
    BY <1>3 DEF ReadCache
  <2>2. /\ q.pc = "check" /\ q.entry = e /\ q.settings = r.settings
        /\ m.pc = "load" /\ m.entry = r.entry /\ m.settings = r.settings
    BY <1>1 DEF Build
  <2>3. e # None => Recorded(e, disk)
    BY <1>1 DEF CacheStored, Slots, Build, InformedInv
  <2>4. Informed(q, seen[b], disk) /\ Informed(m, seen[b], disk)
    BY <1>1, <2>1, <2>2, <2>3 DEF Informed, Ended, Storing
  <2> QED BY <1>2, <2>1, <2>4, InformedStep DEF InformedInv
<1>4. CASE CheckInput(b)
  <2>1. PICK f \in r.todo :
          Set(b, IF disk[f] = r.entry.inputs[f]
                   THEN [r EXCEPT !.todo = @ \ {f}]
                   ELSE [r EXCEPT !.pc = "load", !.entry = None, !.todo = {}])
    BY <1>4 DEF CheckInput
  <2> DEFINE p == [r EXCEPT !.todo = r.todo \ {f}]
             q == [r EXCEPT !.pc = "load", !.entry = None, !.todo = {}]
  <2>2. /\ p.pc = "check" /\ p.entry = r.entry /\ p.settings = r.settings
        /\ q.pc = "load" /\ q.entry = None /\ q.settings = r.settings
    BY <1>1, <1>4 DEF Build, CheckInput
  <2>3. Informed(p, seen[b], disk) /\ Informed(q, seen[b], disk)
    BY <1>1, <1>4, <2>2 DEF Informed, Ended, Storing, CheckInput
  <2>4. Set(b, p) \/ Set(b, q)
    BY <2>1
  <2> QED BY <1>2, <2>3, <2>4, InformedStep DEF InformedInv
<1> QED BY <1>3, <1>4

\* A hit: its configuration was on disk, for it is among the inputs.
LEMMA HitInformed ==
    ASSUME TypeOK, HonestInv, CurrentInv, InformedInv, NEW b \in Builders, Hit(b)
    PROVE  InformedInv'
<1> DEFINE r == build[b]
           e == r.entry
           q == [Fresh("done") EXCEPT !.out = e.out]
<1>1. /\ Consistent(r) /\ Current(r, seen[b], disk) /\ Informed(r, seen[b], disk)
      /\ r.pc = "check" /\ r.todo = {}
  BY Known DEF Hit
<1>2. e # None /\ Recorded(e, disk)
  BY <1>1 DEF Consistent, Informed
<1>3. \A f \in DOMAIN e.inputs : e.inputs[f] \in seen[b][f]
  BY <1>1 DEF Current
<1>4. e.out.settings \in seen[b][Manifest] /\ e.out.dep \in seen[b][Dep]
  BY <1>2, <1>3 DEF Recorded
<1>5. q.pc = "done" /\ q.entry = None /\ q.out = e.out
  BY DEF Fresh
<1>6. Informed(q, seen[b], disk)
  BY <1>4, <1>5 DEF Informed, Ended, Storing
<1> QED BY <1>6, InformedStep DEF Hit, files, InformedInv

\* Reading the entry source, the mod.qz, and the leaf it names.
LEMMA LoadInformed ==
    ASSUME TypeOK, HonestInv, CurrentInv, InformedInv, NEW b \in Builders,
           LoadRoot(b) \/ ResolveImport(b) \/ LoadLeaf(b)
    PROVE  InformedInv'
<1> DEFINE r == build[b]
<1>1. /\ r \in Build /\ Current(r, seen[b], disk) /\ Informed(r, seen[b], disk)
  BY Known
<1>2. UNCHANGED <<disk, seen, main, backup>>
  BY DEF LoadRoot, ResolveImport, LoadLeaf, files
<1>3. CASE LoadRoot(b)
  <2> DEFINE prog == [s \in {Root} |-> disk[Root]]
             q == [r EXCEPT !.pc = "resolve", !.prog = prog]
  <2>1. /\ q.pc = "resolve" /\ q.entry = r.entry /\ q.settings = r.settings
        /\ q.prog = prog /\ DOMAIN prog = {Root}
    BY <1>1 DEF Build
  <2>2. Informed(q, seen[b], disk)
    BY <1>1, <1>3, <2>1 DEF Informed, Ended, Storing, LoadRoot
  <2>3. Set(b, Fresh("failed")) \/ Set(b, q)
    BY <1>3 DEF LoadRoot, Fail
  <2> QED BY <1>2, <2>2, <2>3, FailInformed, InformedStep DEF InformedInv
<1>4. CASE ResolveImport(b)
  <2> DEFINE q == [r EXCEPT !.pc = "leaf", !.leaf = disk[Route]]
  <2>1. /\ q.pc = "leaf" /\ q.entry = r.entry /\ q.settings = r.settings
        /\ q.prog = r.prog /\ q.leaf = disk[Route]
    BY <1>1 DEF Build
  <2>2. disk[Route] \in seen[b][Route]
    BY <1>1, <1>4, ContentTypes DEF Current, Ended, ResolveImport
  <2>3. disk[Route] # Absent => disk[Route] \in Leaves /\ LeafOf(disk[Route], seen[b], disk)
    BY <2>2, DiskTypes DEF LeafOf
  <2>4. disk[Route] # Absent => Informed(q, seen[b], disk)
    BY <1>1, <1>4, <2>1, <2>3 DEF Informed, Ended, Storing, ResolveImport
  <2>5. Set(b, Fresh("failed")) \/ (disk[Route] # Absent /\ Set(b, q))
    BY <1>4 DEF ResolveImport, Fail
  <2> QED BY <1>2, <2>4, <2>5, FailInformed, InformedStep DEF InformedInv
<1>5. CASE LoadLeaf(b)
  <2> DEFINE S == DOMAIN r.prog \union {r.leaf}
             prog == [s \in S |-> IF s \in DOMAIN r.prog THEN r.prog[s] ELSE disk[s]]
             q == [r EXCEPT !.pc = "context", !.prog = prog]
  <2>1. q.pc = "context" /\ q.entry = r.entry /\ q.settings = r.settings /\ q.prog = prog
    BY <1>1 DEF Build
  <2>2. DOMAIN r.prog = {Root} /\ r.leaf \in Leaves /\ LeafOf(r.leaf, seen[b], disk)
    BY <1>1, <1>5 DEF Informed, LoadLeaf
  <2>3. DOMAIN prog = {Root, r.leaf}
    BY <2>2
  <2>4. \E leaf \in Leaves : DOMAIN q.prog = {Root, leaf} /\ LeafOf(leaf, seen[b], disk)
    BY <2>1, <2>2, <2>3
  <2>5. r.settings = disk[Manifest] /\ disk[Manifest] # Absent
    BY <1>1, <1>5 DEF Informed, Ended, LoadLeaf
  <2> HIDE DEF q
  <2>6. Informed(q, seen[b], disk)
    BY <1>1, <2>1, <2>4, <2>5 DEF Informed, Ended, Storing
  <2>7. Set(b, Fresh("failed")) \/ Set(b, q)
    BY <1>5 DEF LoadLeaf, Fail, q
  <2> QED BY <1>2, <2>6, <2>7, FailInformed, InformedStep DEF InformedInv
<1> QED BY <1>3, <1>4, <1>5

\* Fingerprinting, and restoring units: the program stays.
LEMMA ContextInformed ==
    ASSUME TypeOK, HonestInv, CurrentInv, InformedInv, NEW b \in Builders,
           Fingerprint(b) \/ OpenUnits(b) \/ ReadUnits(b)
    PROVE  InformedInv'
<1> DEFINE r == build[b]
           Kept(q) == /\ q.pc \in {"openUnits", "readUnits", "compile"}
                      /\ q.entry = r.entry /\ q.settings = r.settings /\ q.prog = r.prog
<1>1. r \in Build /\ Informed(r, seen[b], disk)
  BY Known
<1>2. UNCHANGED <<disk, seen, main, backup>>
  BY DEF Fingerprint, OpenUnits, ReadUnits, Open, files
<1>3. r.pc \in {"context", "openUnits", "readUnits"}
  BY DEF Fingerprint, OpenUnits, ReadUnits, Open
<1>4. ASSUME NEW q, Kept(q)
      PROVE  Informed(q, seen[b], disk)
  BY <1>1, <1>3, <1>4 DEF Informed, Ended, Storing
<1>5. \E q : Kept(q) /\ Set(b, q)
  <2>1. CASE Fingerprint(b)
    <3> DEFINE c == [sigs |-> Signatures(r.prog), manifest |-> disk[Manifest],
                     dep |-> disk[Dep]]
               q == [r EXCEPT !.pc = "openUnits", !.context = c]
    <3>1. Kept(q)
      BY <1>1 DEF Build
    <3> QED BY <2>1, <3>1 DEF Fingerprint
  <2>2. CASE OpenUnits(b)
    <3>1. /\ Kept([r EXCEPT !.pc = "readUnits", !.slot = "main"])
          /\ Kept([r EXCEPT !.pc = "readUnits", !.slot = "backup"])
          /\ Kept([r EXCEPT !.pc = "compile"])
      BY <1>1 DEF Build
    <3> HIDE DEF Kept
    <3> QED BY <2>2, <3>1 DEF OpenUnits, Open
  <2>3. CASE ReadUnits(b)
    <3> DEFINE u == Reusable(CacheStored[r.slot], r.context, r.prog)
               q == [r EXCEPT !.pc = "compile", !.units = u]
    <3>1. Kept(q)
      BY <1>1 DEF Build
    <3> QED BY <2>3, <3>1 DEF ReadUnits
  <2> QED BY <2>1, <2>2, <2>3
<1> QED BY <1>2, <1>4, <1>5, InformedStep DEF InformedInv

\* Compiling and linking: only an accepted program goes on, with the settings
\* that were loaded and the dependency that is there.
LEMMA CompileInformed ==
    ASSUME TypeOK, HonestInv, CurrentInv, InformedInv, NEW b \in Builders,
           Compile(b) \/ Link(b)
    PROVE  InformedInv'
<1> DEFINE r == build[b]
<1>1. r \in Build /\ Consistent(r) /\ Informed(r, seen[b], disk)
  BY Known
<1>2. UNCHANGED <<disk, seen, main, backup>>
  BY DEF Compile, Link, files
<1>3. CASE Compile(b)
  <2> DEFINE out == Artifact(Generated(b), r.settings, Absent)
             q == [r EXCEPT !.pc = "link", !.out = out]
  <2>1. /\ q.pc = "link" /\ q.entry = r.entry /\ q.settings = r.settings
        /\ q.prog = r.prog /\ q.out.settings = r.settings
    BY <1>1 DEF Build, Artifact
  <2>2. Accepts(r.prog) => Informed(q, seen[b], disk)
    <3> HIDE DEF q
    <3> QED BY <1>1, <1>3, <2>1 DEF Informed, Ended, Storing, Compile
  <2>3. Set(b, Fresh("failed")) \/ (Accepts(r.prog) /\ Set(b, q))
    BY <1>3 DEF Compile, Fail
  <2> QED BY <1>2, <2>2, <2>3, FailInformed, InformedStep DEF InformedInv
<1>4. CASE Link(b)
  <2> DEFINE q == [r EXCEPT !.pc = "stage", !.out = [r.out EXCEPT !.dep = disk[Dep]]]
  <2>1. r.out \in Artifacts
    BY <1>1, <1>4 DEF Consistent, Link
  <2>2. /\ q.pc = "stage" /\ q.entry = r.entry /\ q.settings = r.settings
        /\ q.prog = r.prog /\ q.out.settings = r.out.settings /\ q.out.dep = disk[Dep]
    BY <1>1, <2>1 DEF Build, Artifacts
  <2>3. q = [r EXCEPT !.pc = "stage", !.out.dep = disk[Dep]]
    BY <1>1 DEF Build
  <2>4. Set(b, Fresh("failed")) \/ (disk[Dep] # Absent /\ Set(b, q))
    BY <1>4, <2>3 DEF Link, Fail
  <2>5. disk[Dep] # Absent => Informed(q, seen[b], disk)
    <3> HIDE DEF q
    <3> QED BY <1>1, <1>4, <2>2 DEF Informed, Ended, Storing, Link
  <2> QED BY <1>2, <2>4, <2>5, FailInformed, InformedStep DEF InformedInv
<1> QED BY <1>3, <1>4

\* What has been linked may be emitted.
LEMMA LinkedEmittable ==
    ASSUME TypeOK, HonestInv, CurrentInv, InformedInv, NEW b \in Builders,
           build[b].pc = "stage"
    PROVE  Emittable(build[b].out, seen[b], disk)
<1> DEFINE r == build[b]
<1>1. /\ r \in Build /\ Consistent(r) /\ Current(r, seen[b], disk)
      /\ Informed(r, seen[b], disk)
  BY Known
<1>2. /\ r.out.settings = disk[Manifest] /\ disk[Manifest] # Absent
      /\ r.out.dep = disk[Dep] /\ disk[Dep] # Absent
  BY <1>1 DEF Informed, Ended
<1>3. disk[Manifest] \in seen[b][Manifest] /\ disk[Dep] \in seen[b][Dep]
  BY <1>1, ContentTypes DEF Current, Ended
<1>4. r.prog \in Program /\ r.out.code = Compiled(r.prog) /\ Accepts(r.prog)
  BY <1>1 DEF Build, Consistent, Informed
<1>5. \A s \in DOMAIN r.prog : r.prog[s] \in seen[b][s]
  BY <1>1 DEF Current, Ended
<1>6. \E leaf \in Leaves : DOMAIN r.prog = {Root, leaf} /\ LeafOf(leaf, seen[b], disk)
  BY <1>1 DEF Informed
<1> QED BY <1>2, <1>3, <1>4, <1>5, <1>6 DEF Emittable

\* Staging: the configuration is still what was built with, so the new entry
\* records it.
LEMMA StageInformed ==
    ASSUME TypeOK, HonestInv, CurrentInv, InformedInv, NEW b \in Builders, Stage(b)
    PROVE  InformedInv'
<1> DEFINE r == build[b]
           e == Entry(b)
           q == [r EXCEPT !.pc = "clear", !.entry = e]
<1>1. /\ r \in Build /\ Consistent(r) /\ Informed(r, seen[b], disk) /\ r.pc = "stage"
  BY Known DEF Stage
<1>2. Emittable(r.out, seen[b], disk)
  BY <1>1, LinkedEmittable
<1>3. /\ r.out.settings = disk[Manifest] /\ disk[Manifest] # Absent
      /\ r.settings = disk[Manifest]
      /\ r.out.dep = disk[Dep] /\ disk[Dep] # Absent
  BY <1>1 DEF Informed, Ended
<1>4. e.out = r.out /\ e.inputs = Inputs(b)
  BY DEF Entry
<1>5. Manifest \notin DOMAIN r.prog /\ Dep \notin DOMAIN r.prog
  <2>1. DOMAIN r.prog \in SUBSET Sources
    BY <1>1, AboutElim DEF Build, Program
  <2> QED BY <2>1, ProjectAssumption
<1>6. /\ {Manifest, Dep} \subseteq DOMAIN Inputs(b)
      /\ Inputs(b)[Manifest] = disk[Manifest] /\ Inputs(b)[Dep] = disk[Dep]
  BY <1>3, <1>5 DEF Inputs
<1>7. \E prog \in Program : \E leaf \in Leaves :
        /\ DOMAIN prog = {Root, leaf} /\ Accepts(prog) /\ r.out.code = Compiled(prog)
        /\ Route \notin Edited => leaf = disk[Route]
  BY <1>2 DEF Emittable, LeafOf
<1>8. Recorded(e, disk)
  <2> HIDE DEF e
  <2> QED BY <1>3, <1>4, <1>6, <1>7 DEF Recorded
<1>9. q.pc = "clear" /\ q.entry = e /\ q.out = r.out /\ q.settings = r.settings
  BY <1>1 DEF Build
<1>10. Informed(q, seen[b], disk)
  <2> HIDE DEF e, q
  <2> QED BY <1>2, <1>3, <1>8, <1>9 DEF Informed, Ended, Storing
<1> QED BY <1>10, InformedStep DEF Stage, files, InformedInv

\* Replacing the cache.
LEMMA InstallInformed ==
    ASSUME TypeOK, HonestInv, CurrentInv, InformedInv, NEW b \in Builders,
           ClearBackup(b) \/ KeepOld(b) \/ Install(b)
    PROVE  InformedInv'
<1> DEFINE r == build[b]
           Kept(q) == /\ q.pc \in {"keep", "install", "tidy"}
                      /\ q.entry = r.entry /\ q.settings = r.settings /\ q.out = r.out
<1>1. r \in Build /\ Consistent(r) /\ Informed(r, seen[b], disk)
  BY Known
<1>2. r.pc \in Storing
  BY DEF ClearBackup, KeepOld, Install, Storing
<1>3. r.entry # None /\ Recorded(r.entry, disk)
  BY <1>1, <1>2 DEF Consistent, Informed
<1>4. ASSUME NEW q, Kept(q)
      PROVE  Informed(q, seen[b], disk)
  BY <1>1, <1>2, <1>4 DEF Informed, Ended, Storing
<1>5. /\ Kept([r EXCEPT !.pc = "keep"]) /\ Kept([r EXCEPT !.pc = "install"])
      /\ Kept([r EXCEPT !.pc = "tidy"])
  BY <1>1 DEF Build
<1> HIDE DEF Kept
<1>6. \E q : Kept(q) /\ Set(b, q)
  BY <1>5 DEF ClearBackup, KeepOld, Install
<1>7. /\ main' # None => Recorded(main', disk)
      /\ backup' # None => Recorded(backup', disk)
  BY <1>3 DEF ClearBackup, KeepOld, Install, files, InformedInv
<1>8. UNCHANGED <<disk, seen>>
  BY DEF ClearBackup, KeepOld, Install
<1> QED BY <1>4, <1>6, <1>7, <1>8, InformedStep

\* Emitting what was compiled.
LEMMA EmitInformed ==
    ASSUME TypeOK, HonestInv, CurrentInv, InformedInv, NEW b \in Builders,
           Tidy(b) \/ StoreFails(b)
    PROVE  InformedInv' /\ Emittable(build[b].out, seen[b], disk)
<1> DEFINE r == build[b]
           q == [Fresh("done") EXCEPT !.out = r.out]
<1>1. Informed(r, seen[b], disk) /\ r.pc \in Storing \union {"stage", "tidy"}
  BY Known DEF Tidy, StoreFails, Storing
<1>2. Emittable(r.out, seen[b], disk)
  BY <1>1, LinkedEmittable DEF Informed
<1>3. q.pc = "done" /\ q.entry = None /\ q.out = r.out
  BY DEF Fresh
<1>4. Informed(q, seen[b], disk)
  BY <1>2, <1>3 DEF Informed, Emittable, Ended, Storing
<1>5. UNCHANGED <<disk, seen>> /\ Set(b, q)
  BY DEF Tidy, StoreFails, Emitted
<1>6. /\ main' # None => Recorded(main', disk)
      /\ backup' # None => Recorded(backup', disk)
  BY DEF Tidy, StoreFails, files, InformedInv
<1> QED BY <1>2, <1>4, <1>5, <1>6, InformedStep

\* A new build.
LEMMA BeginInformed ==
    ASSUME TypeOK, InformedInv, NEW b \in Builders, Begin(b)
    PROVE  InformedInv'
<1>1. \A o \in Builders : o # b => seen'[o] = seen[o]
  BY DEF Begin, TypeOK
<1>2. ASSUME NEW o \in Builders
      PROVE  Informed(build'[o], seen'[o], disk')
  <2>1. CASE o = b
    <3>1. build'[o] = Fresh("project")
      BY <2>1, SetType DEF TypeOK, Begin
    <3> QED BY <3>1, FreshInformed
  <2>2. CASE o # b
    <3>1. build'[o] = build[o]
      BY <2>2, SetType DEF TypeOK, Begin
    <3> QED BY <1>1, <2>2, <3>1 DEF InformedInv, Begin
  <2> QED BY <2>1, <2>2
<1> QED BY <1>2 DEF InformedInv, Begin, files

\* An edit leaves the mod.qz alone, or the invariant says nothing of it.
LEMMA EditRecorded ==
    ASSUME TypeOK, NEW f \in Edited, NEW c, Edit(f, c), NEW e, Recorded(e, disk)
    PROVE  Recorded(e, disk')
<1>1. Route \notin Edited => disk'[Route] = disk[Route]
  BY ContentTypes DEF Edit, TypeOK
<1> QED BY <1>1 DEF Recorded

\* An edit changes nothing a running build knows.
LEMMA EditInformed ==
    ASSUME TypeOK, CurrentInv, InformedInv, Steady,
           NEW f \in Edited, NEW c, Edit(f, c)
    PROVE  InformedInv'
<1>1. Route \notin Edited => disk'[Route] = disk[Route]
  BY ContentTypes DEF Edit, TypeOK
<1>2. ASSUME NEW b \in Builders
      PROVE  Informed(build'[b], seen'[b], disk')
  <2> DEFINE r == build[b]
  <2>1. r \in Build /\ Informed(r, seen[b], disk) /\ build' = build
    BY DEF TypeOK, InformedInv, Edit
  <2>2. r.entry # None => Recorded(r.entry, disk')
    BY <2>1, EditRecorded DEF Informed
  <2>3. CASE Running(b)
    <3>1. seen'[b] = [seen[b] EXCEPT ![f] = @ \union {c}]
      BY <2>3 DEF Edit
    <3>2. \A g \in Files : seen[b][g] \subseteq seen'[b][g]
      BY <3>1 DEF TypeOK
    <3>3. f \notin {Manifest, Dep}
      BY <2>3 DEF Edit, Steady
    <3>4. disk'[Manifest] = disk[Manifest] /\ disk'[Dep] = disk[Dep]
      BY <3>3 DEF Edit, TypeOK
    <3>5. \A leaf \in Leaves : LeafOf(leaf, seen[b], disk) => LeafOf(leaf, seen'[b], disk')
      BY <1>1, <3>2, ContentTypes DEF LeafOf
    <3>6. \A out : Emittable(out, seen[b], disk) => Emittable(out, seen'[b], disk')
      <4> SUFFICES ASSUME NEW out, Emittable(out, seen[b], disk)
                   PROVE  Emittable(out, seen'[b], disk')
        OBVIOUS
      <4>1. PICK prog \in Program : \E leaf \in Leaves :
              /\ DOMAIN prog = {Root, leaf} /\ Accepts(prog) /\ out.code = Compiled(prog)
              /\ LeafOf(leaf, seen[b], disk)
              /\ \A s \in DOMAIN prog : prog[s] \in seen[b][s]
        BY DEF Emittable
      <4>2. \A s \in DOMAIN prog : prog[s] \in seen'[b][s]
        BY <3>2, <4>1, AboutElim, ContentTypes DEF Program
      <4>3. out.settings \in seen'[b][Manifest] \ {Absent}
              /\ out.dep \in seen'[b][Dep] \ {Absent}
        BY <3>2, ContentTypes DEF Emittable
      <4> QED BY <3>5, <4>1, <4>2, <4>3 DEF Emittable
    <3>7. r.pc # "done"
      BY <2>3 DEF Running, Ended
    <3> QED BY <2>1, <2>2, <3>4, <3>5, <3>6, <3>7 DEF Informed
  <2>4. CASE ~ Running(b)
    <3>1. seen'[b] = seen[b] /\ r.pc \in Ended
      BY <2>4 DEF Edit, Running
    <3> QED BY <2>1, <2>2, <3>1 DEF Informed, Ended, Storing
  <2> QED BY <2>3, <2>4
<1> QED BY <1>2, EditRecorded DEF InformedInv, Edit, files

\* Every step keeps what processes know of the configuration.
LEMMA NextInformed ==
    ASSUME TypeOK, HonestInv, CurrentInv, InformedInv, Steady, [Next]_vars
    PROVE  InformedInv'
<1>1. CASE UNCHANGED vars
  BY <1>1 DEF vars, files, InformedInv
<1>2. ASSUME NEW f \in Edited, NEW c, Edit(f, c)
      PROVE  InformedInv'
  BY <1>2, EditInformed
<1>3. ASSUME NEW b \in Builders, Step(b)
      PROVE  InformedInv'
  <2>1. CASE Begin(b)
    BY <2>1, BeginInformed
  <2>2. CASE LoadProject(b) \/ OpenCache(b)
    BY <2>2, LookupInformed
  <2>3. CASE ReadCache(b) \/ CheckInput(b)
    BY <2>3, CheckInformed
  <2>4. CASE Hit(b)
    BY <2>4, HitInformed
  <2>5. CASE LoadRoot(b) \/ ResolveImport(b) \/ LoadLeaf(b)
    BY <2>5, LoadInformed
  <2>6. CASE Fingerprint(b) \/ OpenUnits(b) \/ ReadUnits(b)
    BY <2>6, ContextInformed
  <2>7. CASE Compile(b) \/ Link(b)
    BY <2>7, CompileInformed
  <2>8. CASE Stage(b)
    BY <2>8, StageInformed
  <2>9. CASE ClearBackup(b) \/ KeepOld(b) \/ Install(b)
    BY <2>9, InstallInformed
  <2>10. CASE Tidy(b) \/ StoreFails(b)
    BY <2>10, EmitInformed
  <2>11. CASE Crash(b)
    BY <2>11, FailInformed DEF Crash, files
  <2> QED BY <1>3, <2>1, <2>2, <2>3, <2>4, <2>5, <2>6, <2>7, <2>8, <2>9, <2>10, <2>11 DEF Step
<1> QED BY <1>1, <1>2, <1>3 DEF Next

\* The three invariants together.
CacheInv == TypeOK /\ HonestInv /\ CurrentInv /\ InformedInv

\* They hold in the initial states.
LEMMA CacheInvInit == Init => CacheInv
<1>1. Init => CurrentInv
  BY NothingKnown DEF Init, CurrentInv, Current, Fresh, Ended, Storing
<1>2. Init => InformedInv
  BY FreshInformed DEF Init, InformedInv
<1> QED BY <1>1, <1>2, InitHolds DEF CacheInv

\* Every step keeps them.
LEMMA CacheInvNext == ASSUME Steady, CacheInv, [Next]_vars PROVE CacheInv'
<1>1. TypeOK' /\ HonestInv'
  BY NextKeeps DEF CacheInv
<1>2. CurrentInv'
  BY NextCurrent DEF CacheInv, Steady
<1>3. InformedInv'
  BY NextInformed DEF CacheInv
<1> QED BY <1>1, <1>2, <1>3 DEF CacheInv

\* If the manifest, the dependency and the existence of files hold still while a
\* build runs, no build emits under a configuration that was replaced before it
\* began (Project::load, store, the checks of try_load).
THEOREM ConfigurationStaysCurrent == ASSUME Steady PROVE Spec => []ConfigurationIsCurrent
<1>1. CacheInv => ConfigurationIsCurrent
  BY DEF CacheInv, InformedInv, Informed, ConfigurationIsCurrent
<1>2. CacheInv /\ [Next]_vars => CacheInv'
  BY CacheInvNext
<1> QED BY <1>1, <1>2, CacheInvInit, PTL DEF Spec

-----------------------------------------------------------------------------
(* The cached build implements the full one *)

\* What the outside sees of each process.
Results == [b \in Builders |-> Shown(build[b])]

\* The full build is of the same project.
LEMMA SameProject ==
    /\ Full!Files = Files /\ Full!Disks = Disks
    /\ \A f : Full!ContentOf(f) = ContentOf(f)
    /\ \A prog : Full!Accepts(prog) <=> Accepts(prog)
    /\ \A prog : Full!Compiled(prog) = Compiled(prog)
    /\ \A code, settings, dep : Full!Artifact(code, settings, dep) = Artifact(code, settings, dep)
<1>1. Full!Files = Files
  BY DEF Full!Files, Files, Full!Sources, Sources
<1>2. \A f : Full!ContentOf(f) = ContentOf(f)
  BY DEF Full!ContentOf, ContentOf, Full!Sources, Sources
<1>3. \A text, leaf, settings, dep :
        Full!DiskOf(text, leaf, settings, dep) = DiskOf(text, leaf, settings, dep)
  BY <1>1 DEF Full!DiskOf, DiskOf, Full!Sources, Sources
<1>4. Full!Disks = Disks
  <2> DEFINE Contents == {t \in [Sources -> Text] : \A s \in Sources : t[s] \in Texts[s]}
  <2>1. Full!Disks = {Full!DiskOf(text, leaf, settings, dep) :
                        text \in Contents, leaf \in Leaves,
                        settings \in Settings, dep \in Revisions}
    BY DEF Full!Disks, Full!Sources, Sources, Full!Text, Text
  <2>2. Disks = {DiskOf(text, leaf, settings, dep) :
                   text \in Contents, leaf \in Leaves,
                   settings \in Settings, dep \in Revisions}
    BY DEF Disks
  <2> HIDE DEF Contents
  <2>3. \A d : d \in Full!Disks <=> d \in Disks
    BY <1>3, <2>1, <2>2
  <2> QED BY <2>3
<1>5. \A prog : Full!Accepts(prog) <=> Accepts(prog)
  BY DEF Full!Accepts, Accepts
<1>6. \A prog : Full!Compiled(prog) = Compiled(prog)
  BY DEF Full!Compiled, Compiled, Full!CodeOf, CodeOf, Full!Signatures, Signatures
<1>7. \A code, settings, dep :
        Full!Artifact(code, settings, dep) = Artifact(code, settings, dep)
  BY DEF Full!Artifact, Artifact
<1> QED BY <1>1, <1>2, <1>4, <1>5, <1>6, <1>7

\* A process at work looks busy, and only such a one.
LEMMA ShownValues ==
    ASSUME NEW r
    PROVE  /\ r.pc = "idle" => Shown(r) = Idle
           /\ r.pc = "failed" => Shown(r) = Failed
           /\ r.pc = "done" => Shown(r) = r.out
           /\ r.pc \notin Ended => Shown(r) = Busy
  BY DEF Shown, Ended

\* Busy is what every running process shows, and no other.
LEMMA BusyIsRunning ==
    ASSUME TypeOK, HonestInv, NEW b \in Builders
    PROVE  Results[b] = Busy <=> Running(b)
<1>1. Consistent(build[b])
  BY DEF HonestInv
<1>2. build[b].pc = "done" => build[b].out \in Artifacts
  BY <1>1 DEF Consistent
<1> QED BY <1>2, ShownValues, BusyIsApart DEF Results, Running, Ended

\* One process changes what it shows.
LEMMA OneShown ==
    ASSUME TypeOK, NEW b \in Builders, NEW q, Set(b, q)
    PROVE  Results' = [Results EXCEPT ![b] = Shown(q)]
<1>1. build'[b] = q /\ \A o \in Builders : o # b => build'[o] = build[o]
  BY SetType DEF TypeOK
<1> QED BY <1>1 DEF Results

\* A step in which a process goes on is invisible.
LEMMA GoingOn ==
    ASSUME TypeOK, NEW b \in Builders, NEW q, Set(b, q), Running(b), q.pc \notin Ended,
           UNCHANGED <<disk, seen>>
    PROVE  UNCHANGED Full!vars
<1>1. Shown(q) = Busy /\ Results[b] = Busy
  BY ShownValues DEF Results, Running
<1>2. Results' = [Results EXCEPT ![b] = Busy]
  BY <1>1, OneShown
<1>3. Results' = Results
  BY <1>1, <1>2 DEF Results
<1> QED BY <1>3 DEF Full!vars, Results

\* A process gives up for something it has read, as the full build may.
LEMMA GivingUp ==
    ASSUME TypeOK, HonestInv, NEW b \in Builders, Fail(b), Running(b),
           UNCHANGED <<disk, seen>>,
           \/ \E f \in Files : Absent \in seen[b][f]
           \/ \E prog \in Full!Loaded(seen[b]) : ~ Accepts(prog)
    PROVE  Full!Refuse(b)
<1>1. Results' = [Results EXCEPT ![b] = Shown(Fresh("failed"))]
  BY OneShown DEF Fail
<1>2. Shown(Fresh("failed")) = Failed
  BY ShownValues DEF Fresh
<1>3. Results[b] = Busy
  BY BusyIsRunning
<1> QED BY <1>1, <1>2, <1>3, SameProject DEF Full!Refuse, Results

\* A process emits what a full build of what it has read emits.
LEMMA Emitting ==
    ASSUME TypeOK, HonestInv, NEW b \in Builders, NEW out \in Artifacts,
           Emittable(out, seen[b], disk), Running(b),
           Set(b, [Fresh("done") EXCEPT !.out = out]), UNCHANGED <<disk, seen>>
    PROVE  Full!Emit(b)
<1> DEFINE q == [Fresh("done") EXCEPT !.out = out]
<1>1. Shown(q) = out
  BY ShownValues DEF Fresh
<1>2. Results' = [Results EXCEPT ![b] = out]
  BY <1>1, OneShown
<1>3. Results[b] = Busy
  BY BusyIsRunning
<1>4. \E prog \in Full!Loaded(seen[b]) :
        \E settings \in seen[b][Manifest], dep \in seen[b][Dep] :
          /\ Accepts(prog) /\ settings # Absent /\ dep # Absent
          /\ out = Artifact(Compiled(prog), settings, dep)
  BY EmittedInFull
<1>5. \E prog \in Full!Loaded(seen[b]) :
        \E settings \in seen[b][Manifest], dep \in seen[b][Dep] :
          /\ Full!Accepts(prog) /\ settings # Absent /\ dep # Absent
          /\ out = Full!Artifact(Full!Compiled(prog), settings, dep)
  BY <1>4, SameProject
<1>6. \E prog \in Full!Loaded(seen[b]) :
        \E settings \in seen[b][Manifest], dep \in seen[b][Dep] :
          /\ Full!Accepts(prog) /\ settings # Absent /\ dep # Absent
          /\ Results' = [Results EXCEPT ![b] =
                           Full!Artifact(Full!Compiled(prog), settings, dep)]
  <2> HIDE DEF Results
  <2> QED BY <1>2, <1>5
<1> QED BY <1>3, <1>6 DEF Full!Emit, Results

\* A new build starts a full one.
LEMMA BeginInFull ==
    ASSUME TypeOK, HonestInv, NEW b \in Builders, Begin(b)
    PROVE  Full!Start(b)
<1>1. Results' = [Results EXCEPT ![b] = Shown(Fresh("project"))]
  BY OneShown DEF Begin
<1>2. Shown(Fresh("project")) = Busy
  BY ShownValues DEF Fresh, Ended
<1>3. Results[b] # Busy
  BY BusyIsRunning DEF Begin
<1> QED BY <1>1, <1>2, <1>3, SameProject DEF Full!Start, Results, Begin

\* A hit emits what a full build would, because the mod.qz is still the one the
\* entry was made under.
LEMMA HitInFull ==
    ASSUME CacheInv, Route \notin Edited, NEW b \in Builders, Hit(b)
    PROVE  Full!Emit(b)
<1> DEFINE r == build[b]
           e == r.entry
<1> USE DEF CacheInv
<1>1. /\ r \in Build /\ Consistent(r) /\ Current(r, seen[b], disk)
      /\ Informed(r, seen[b], disk) /\ r.pc = "check" /\ r.todo = {}
  BY Known DEF Hit
<1>2. e # None /\ Covers(e) /\ Recorded(e, disk) /\ e \in CacheEntry
  BY <1>1 DEF Consistent, Current, Informed, Build
<1>3. \A f \in DOMAIN e.inputs : e.inputs[f] \in seen[b][f] /\ e.inputs[f] # Absent
  <2>1. \A f \in DOMAIN e.inputs : e.inputs[f] \in Content
    BY <1>2 DEF CacheEntry
  <2> QED BY <1>1, <2>1, AbsentIsNoContent DEF Current
<1>4. e.out.settings \in seen[b][Manifest] \ {Absent} /\ e.out.dep \in seen[b][Dep] \ {Absent}
  BY <1>2, <1>3 DEF Recorded
<1>5. PICK prog \in Program : \E leaf \in Leaves :
        /\ DOMAIN prog = {Root, leaf} /\ Accepts(prog) /\ e.out.code = Compiled(prog)
        /\ leaf = disk[Route]
  BY <1>2 DEF Recorded
<1>6. \A s \in DOMAIN prog : prog[s] \in seen[b][s]
  <2>1. DOMAIN e.out.code = DOMAIN prog
          /\ \A s \in DOMAIN prog : e.out.code[s].text = prog[s]
    BY <1>5 DEF Compiled, CodeOf
  <2> QED BY <1>2, <1>3, <2>1 DEF Covers
<1>7. disk[Route] \in seen[b][Route]
  BY <1>1, ContentTypes DEF Current, Ended
<1>8. Emittable(e.out, seen[b], disk)
  BY <1>4, <1>5, <1>6, <1>7 DEF Emittable, LeafOf
<1>9. e.out \in Artifacts
  BY <1>2 DEF CacheEntry
<1>10. Running(b)
  BY <1>1 DEF Running, Ended
<1> QED BY <1>8, <1>9, <1>10, Emitting DEF Hit

\* The last step of a build emits what was compiled.
LEMMA EmitInFull ==
    ASSUME CacheInv, NEW b \in Builders, Tidy(b) \/ StoreFails(b)
    PROVE  Full!Emit(b)
<1> DEFINE r == build[b]
<1> USE DEF CacheInv
<1>1. Consistent(r) /\ r.pc \in Storing \union {"stage", "tidy"}
  BY Known DEF Tidy, StoreFails, Storing
<1>2. r.out \in Artifacts
  BY <1>1 DEF Consistent
<1>3. Emittable(r.out, seen[b], disk)
  BY EmitInformed
<1>4. Running(b)
  BY <1>1 DEF Running, Ended, Storing
<1>5. UNCHANGED <<disk, seen>> /\ Set(b, [Fresh("done") EXCEPT !.out = r.out])
  BY DEF Tidy, StoreFails, Emitted
<1> QED BY <1>2, <1>3, <1>4, <1>5, Emitting

\* A missing file, or a rejected program, fails a full build as well; otherwise
\* reading, compiling and linking go on unseen.
LEMMA WorkInFull ==
    ASSUME CacheInv, NEW b \in Builders,
           \/ LoadProject(b) \/ LoadRoot(b) \/ ResolveImport(b) \/ LoadLeaf(b)
           \/ Compile(b) \/ Link(b)
    PROVE  Full!Refuse(b) \/ UNCHANGED Full!vars
<1> DEFINE r == build[b]
<1> USE DEF CacheInv
<1>1. /\ r \in Build /\ Consistent(r) /\ Current(r, seen[b], disk)
      /\ Informed(r, seen[b], disk)
  BY Known
<1>2. /\ r.pc \in {"project", "load", "resolve", "leaf", "compile", "link"}
      /\ UNCHANGED <<disk, seen>>
  BY DEF LoadProject, LoadRoot, ResolveImport, LoadLeaf, Compile, Link
<1>3. Running(b)
  BY <1>2 DEF Running, Ended
<1>4. \A f \in Files : disk[f] \in seen[b][f]
  BY <1>1, <1>3 DEF Current, Running
<1>5. ASSUME NEW f \in Files, disk[f] = Absent, Fail(b)
      PROVE  Full!Refuse(b)
  BY <1>2, <1>3, <1>4, <1>5, GivingUp
<1>6. ASSUME NEW q, Set(b, q), q.pc \notin Ended
      PROVE  UNCHANGED Full!vars
  BY <1>2, <1>3, <1>6, GoingOn
<1>7. CASE LoadProject(b)
  <2> DEFINE q == [r EXCEPT !.pc = "open", !.settings = disk[Manifest]]
  <2>1. q.pc \notin Ended
    BY <1>1 DEF Build, Ended
  <2> QED BY <1>5, <1>6, <1>7, <2>1, ContentTypes DEF LoadProject
<1>8. CASE LoadRoot(b)
  <2> DEFINE q == [r EXCEPT !.pc = "resolve", !.prog = [s \in {Root} |-> disk[Root]]]
  <2>1. q.pc \notin Ended
    BY <1>1 DEF Build, Ended
  <2> QED BY <1>5, <1>6, <1>8, <2>1, ContentTypes DEF LoadRoot
<1>9. CASE ResolveImport(b)
  <2> DEFINE q == [r EXCEPT !.pc = "leaf", !.leaf = disk[Route]]
  <2>1. q.pc \notin Ended
    BY <1>1 DEF Build, Ended
  <2> QED BY <1>5, <1>6, <1>9, <2>1, ContentTypes DEF ResolveImport
<1>10. CASE LoadLeaf(b)
  <2> DEFINE S == DOMAIN r.prog \union {r.leaf}
             prog == [s \in S |-> IF s \in DOMAIN r.prog THEN r.prog[s] ELSE disk[s]]
             q == [r EXCEPT !.pc = "context", !.prog = prog]
  <2>1. q.pc \notin Ended
    BY <1>1 DEF Build, Ended
  <2>2. r.leaf \in Files
    BY <1>1, <1>10, ContentTypes DEF Consistent, LoadLeaf
  <2> QED BY <1>5, <1>6, <1>10, <2>1, <2>2 DEF LoadLeaf
<1>11. CASE Compile(b)
  <2> DEFINE q == [r EXCEPT !.pc = "link",
                            !.out = Artifact(Generated(b), r.settings, Absent)]
  <2>1. q.pc \notin Ended
    BY <1>1 DEF Build, Ended
  <2>2. r.prog \in Program /\ \A s \in DOMAIN r.prog : r.prog[s] \in seen[b][s]
    BY <1>1, <1>3 DEF Build, Current, Running
  <2>3. \E leaf \in Leaves : DOMAIN r.prog = {Root, leaf} /\ LeafOf(leaf, seen[b], disk)
    BY <1>1, <1>11 DEF Informed, Compile
  <2>4. r.prog \in Full!Loaded(seen[b])
    BY <2>2, <2>3, ProgramLoaded
  <2>5. Fail(b) /\ ~ Accepts(r.prog) => Full!Refuse(b)
    BY <1>2, <1>3, <2>4, GivingUp
  <2> QED BY <1>6, <1>11, <2>1, <2>5 DEF Compile
<1>12. CASE Link(b)
  <2> DEFINE q == [r EXCEPT !.pc = "stage", !.out.dep = disk[Dep]]
  <2>1. q.pc \notin Ended
    BY <1>1 DEF Build, Ended
  <2> QED BY <1>5, <1>6, <1>12, <2>1, ContentTypes DEF Link
<1> QED BY <1>7, <1>8, <1>9, <1>10, <1>11, <1>12

\* Looking up and storing are unseen.
LEMMA CacheInFull ==
    ASSUME TypeOK, NEW b \in Builders,
           \/ OpenCache(b) \/ ReadCache(b) \/ CheckInput(b) \/ Fingerprint(b)
           \/ OpenUnits(b) \/ ReadUnits(b) \/ Stage(b) \/ ClearBackup(b)
           \/ KeepOld(b) \/ Install(b)
    PROVE  UNCHANGED Full!vars
<1> DEFINE r == build[b]
<1>1. r \in Build
  BY DEF TypeOK
<1>2. Running(b) /\ UNCHANGED <<disk, seen>>
  BY DEF OpenCache, ReadCache, CheckInput, Fingerprint, OpenUnits, Open, ReadUnits, Stage,
         ClearBackup, KeepOld, Install, Running, Ended
<1> DEFINE At(pc) == [r EXCEPT !.pc = pc]
           In(pc, slot) == [r EXCEPT !.pc = pc, !.slot = slot]
           OnGoing(q) == q.pc \notin Ended
<1>3. \A pc \in Phases \ Ended, slot \in Slots : OnGoing(At(pc)) /\ OnGoing(In(pc, slot))
  BY <1>1 DEF Build
<1>4. \E q : Set(b, q) /\ OnGoing(q)
  <2>1. CASE OpenCache(b)
    <3>1. OnGoing(In("read", "main")) /\ OnGoing(In("read", "backup")) /\ OnGoing(At("load"))
      BY <1>3 DEF Phases, Ended, Slots
    <3> HIDE DEF OnGoing
    <3> QED BY <2>1, <3>1 DEF OpenCache, Open
  <2>2. CASE OpenUnits(b)
    <3>1. /\ OnGoing(In("readUnits", "main")) /\ OnGoing(In("readUnits", "backup"))
          /\ OnGoing(At("compile"))
      BY <1>3 DEF Phases, Ended, Slots
    <3> HIDE DEF OnGoing
    <3> QED BY <2>2, <3>1 DEF OpenUnits, Open
  <2>3. CASE ReadCache(b)
    <3> DEFINE e == CacheStored[r.slot]
               q == [r EXCEPT !.pc = "check", !.entry = e, !.todo = DOMAIN e.inputs]
    <3>1. OnGoing(At("load")) /\ OnGoing(q)
      BY <1>1 DEF Build, Ended
    <3> HIDE DEF OnGoing
    <3> QED BY <2>3, <3>1 DEF ReadCache
  <2>4. CASE CheckInput(b)
    <3>1. PICK f \in r.todo :
            Set(b, IF disk[f] = r.entry.inputs[f]
                     THEN [r EXCEPT !.todo = @ \ {f}]
                     ELSE [r EXCEPT !.pc = "load", !.entry = None, !.todo = {}])
      BY <2>4 DEF CheckInput
    <3>2. /\ OnGoing([r EXCEPT !.todo = @ \ {f}])
          /\ OnGoing([r EXCEPT !.pc = "load", !.entry = None, !.todo = {}])
      BY <1>1, <2>4 DEF Build, Ended, CheckInput
    <3> HIDE DEF OnGoing
    <3> QED BY <3>1, <3>2
  <2>5. CASE Fingerprint(b)
    <3> DEFINE q == [r EXCEPT !.pc = "openUnits",
                              !.context = [sigs |-> Signatures(r.prog),
                                           manifest |-> disk[Manifest], dep |-> disk[Dep]]]
    <3>1. OnGoing(q)
      BY <1>1 DEF Build, Ended
    <3> QED BY <2>5, <3>1 DEF Fingerprint
  <2>6. CASE ReadUnits(b)
    <3> DEFINE u == Reusable(CacheStored[r.slot], r.context, r.prog)
    <3>1. OnGoing([r EXCEPT !.pc = "compile", !.units = u])
      BY <1>1 DEF Build, Ended
    <3> QED BY <2>6, <3>1 DEF ReadUnits
  <2>7. CASE Stage(b)
    <3> DEFINE e == Entry(b)
    <3>1. OnGoing([r EXCEPT !.pc = "clear", !.entry = e])
      BY <1>1 DEF Build, Ended
    <3> QED BY <2>7, <3>1 DEF Stage
  <2>8. CASE ClearBackup(b) \/ KeepOld(b) \/ Install(b)
    <3>1. OnGoing(At("keep")) /\ OnGoing(At("install")) /\ OnGoing(At("tidy"))
      BY <1>3 DEF Phases, Ended, Slots
    <3> HIDE DEF OnGoing
    <3> QED BY <2>8, <3>1 DEF ClearBackup, KeepOld, Install
  <2> QED BY <2>1, <2>2, <2>3, <2>4, <2>5, <2>6, <2>7, <2>8
<1> QED BY <1>2, <1>4, GoingOn

\* A killed process dies.
LEMMA CrashInFull ==
    ASSUME TypeOK, HonestInv, NEW b \in Builders, Crash(b)
    PROVE  Full!Die(b)
<1>1. Results' = [Results EXCEPT ![b] = Shown(Fresh("idle"))]
  BY OneShown DEF Crash
<1>2. Shown(Fresh("idle")) = Idle
  BY ShownValues DEF Fresh
<1>3. Results[b] = Busy
  BY BusyIsRunning DEF Crash
<1> QED BY <1>1, <1>2, <1>3 DEF Full!Die, Results, Crash

\* An edit is a write.
LEMMA EditInFull ==
    ASSUME TypeOK, HonestInv, NEW f \in Edited, NEW c, Edit(f, c)
    PROVE  Full!Write(f, c)
<1>1. \A b \in Builders : Running(b) <=> Results[b] = Busy
  BY BusyIsRunning
<1>2. seen' = [b \in Builders |->
                 IF Results[b] = Busy THEN [seen[b] EXCEPT ![f] = @ \union {c}]
                                      ELSE seen[b]]
  BY <1>1 DEF Edit
<1>3. Results' = Results
  BY DEF Results, Edit
<1> QED BY <1>2, <1>3 DEF Full!Write, Results, Edit

\* Every step of the cached build is a step of the full one, or none.
LEMMA NextInFull ==
    ASSUME CacheInv, Route \notin Edited, [Next]_vars
    PROVE  [Full!Next]_(Full!vars)
<1> USE DEF CacheInv
<1>1. CASE UNCHANGED vars
  BY <1>1 DEF vars, Full!vars
<1>2. ASSUME NEW f \in Edited, NEW c \in ContentOf(f) \union {Absent}, Edit(f, c)
      PROVE  Full!Next
  BY <1>2, EditInFull, CacheAssumption, SameProject DEF Full!Next
<1>3. ASSUME NEW b \in Builders, Step(b)
      PROVE  Full!Next \/ UNCHANGED Full!vars
  <2>1. CASE Begin(b)
    BY <2>1, BeginInFull DEF Full!Next
  <2>2. CASE Hit(b)
    BY <2>2, HitInFull DEF Full!Next
  <2>3. CASE \/ LoadProject(b) \/ LoadRoot(b) \/ ResolveImport(b) \/ LoadLeaf(b)
             \/ Compile(b) \/ Link(b)
    BY <2>3, WorkInFull DEF Full!Next
  <2>4. CASE \/ OpenCache(b) \/ ReadCache(b) \/ CheckInput(b) \/ Fingerprint(b)
             \/ OpenUnits(b) \/ ReadUnits(b) \/ Stage(b) \/ ClearBackup(b)
             \/ KeepOld(b) \/ Install(b)
    BY <2>4, CacheInFull
  <2>5. CASE Tidy(b) \/ StoreFails(b)
    BY <2>5, EmitInFull DEF Full!Next
  <2>6. CASE Crash(b)
    BY <2>6, CrashInFull DEF Full!Next
  <2> QED BY <1>3, <2>1, <2>2, <2>3, <2>4, <2>5, <2>6 DEF Step
<1> QED BY <1>1, <1>2, <1>3 DEF Next

\* The initial states are those of the full build.
LEMMA InitInFull == Init => Full!Init
<1>1. Shown(Fresh("idle")) = Idle
  BY ShownValues DEF Fresh
<1> QED BY <1>1, SameProject DEF Init, Full!Init

\* Whatever the cache holds, however many processes build at once, are killed or
\* fail to store, and whichever sources change under them, every build behaves as
\* a full compilation of contents that were on disk while it ran
\* (build_with_progress, try_load, load_codegen_units, store).  It takes the
\* manifest and the dependency to hold still during builds and the mod.qz to hold
\* still altogether: the store hashes the former late and never hashes the latter.
THEOREM CacheIsTransparent ==
    ASSUME Steady, Route \notin Edited
    PROVE  Spec => BuildsInFull
<1>1. CacheInv /\ [Next]_vars => CacheInv'
  BY CacheInvNext
<1>2. CacheInv /\ [Next]_vars => [Full!Next]_(Full!vars)
  BY NextInFull
<1> QED BY <1>1, <1>2, CacheInvInit, InitInFull, PTL DEF Spec, BuildsInFull, Full!Spec
=============================================================================
