------------------------------ MODULE QzcCache -----------------------------
(***************************************************************************)
(* qz build with its incremental cache (incremental.qzc), run by several   *)
(* processes on one project while the user edits it.  Each step is one     *)
(* access to the file system: hashing an input, reading a source, reading  *)
(* or renaming the cache.  A process may be killed between any two steps.  *)
(***************************************************************************)
EXTENDS Project, Naturals

CONSTANTS
    Builders,
    Idle, Busy, Failed,
    None,        \* no cache file, or no entry read
    Racing,      \* files the user may rewrite while a build runs
    Vanishing,   \* files the user may delete while a build runs
    Edited,      \* files the user changes at all
    MaxEdits, MaxBuilds   \* bounds

VARIABLES
    disk,        \* content of every input file
    main,        \* the entry in incremental.qzc
    backup,      \* the entry in incremental.qzc.bak
    build,       \* what each process knows
    seen,        \* contents each file has had since the process began (history)
    edits, builds   \* how many there have been

vars == <<disk, main, backup, build, seen, edits, builds>>
files == <<main, backup>>
counts == <<edits, builds>>

ASSUME CacheAssumption ==
    /\ Racing \subseteq Files /\ Vanishing \subseteq Files /\ Edited \subseteq Files
    /\ MaxEdits \in Nat /\ MaxBuilds \in Nat

Slots == {"main", "backup"}

Phases == {"idle", "project", "open", "read", "check", "load", "resolve", "leaf",
           "context", "openUnits", "readUnits", "compile", "link", "stage",
           "clear", "keep", "install", "tidy", "done", "failed"}

Content == UNION {ContentOf(f) : f \in Files}

Context == [sigs : About(Sigs), manifest : Settings \union {Absent},
            dep : Revisions \union {Absent}]

Unit == [hash : Text, code : Code]

\* incremental.qzc: the inputs with their hashes, the linked module, and the
\* functions of each source with the hash of its text.
CacheEntry == [inputs : UNION {[S -> Content] : S \in SUBSET Files},
               out : Artifacts, context : Context, units : About(Unit)]

Build == [pc : Phases, settings : Settings \union {Absent}, slot : Slots,
          entry : CacheEntry \union {None}, todo : SUBSET Files,
          leaf : Leaves \union {Absent}, prog : Program,
          context : Context \union {Absent}, units : About(Unit),
          out : Artifacts \union {None}]

ASSUME NoneIsNoEntry == None \notin CacheEntry

\* A process at work shows no artifact, and neither idleness nor failure.
ASSUME BusyIsApart == Busy \notin Artifacts \union {Idle, Failed}

Nothing == [s \in {} |-> Absent]

Fresh(pc) ==
    [pc |-> pc, settings |-> Absent, slot |-> "main", entry |-> None, todo |-> {},
     leaf |-> Absent, prog |-> Nothing, context |-> Absent, units |-> Nothing,
     out |-> None]

Ended == {"idle", "done", "failed"}

Running(b) == build[b].pc \notin Ended

Set(b, r) == build' = [build EXCEPT ![b] = r]

Fail(b) == Set(b, Fresh("failed"))

CacheStored == [main |-> main, backup |-> backup]
-----------------------------------------------------------------------------
(* Cache lookup *)

\* The project is loaded, which reads the manifest, before the cache is tried.
Begin(b) ==
    /\ ~ Running(b) /\ builds < MaxBuilds
    /\ builds' = builds + 1
    /\ seen' = [seen EXCEPT ![b] = [f \in Files |-> {disk[f]}]]
    /\ Set(b, Fresh("project"))
    /\ UNCHANGED <<disk, files, edits>>

LoadProject(b) ==
    /\ build[b].pc = "project"
    /\ IF disk[Manifest] = Absent
         THEN Fail(b)
         ELSE Set(b, [build[b] EXCEPT !.pc = "open", !.settings = disk[Manifest]])
    /\ UNCHANGED <<disk, files, seen, counts>>

\* read_cache first asks which file exists ...
Open(b, pc, opened, missing) ==
    /\ build[b].pc = pc
    /\ Set(b, IF main # None THEN [build[b] EXCEPT !.pc = opened, !.slot = "main"]
              ELSE IF backup # None
                THEN [build[b] EXCEPT !.pc = opened, !.slot = "backup"]
                ELSE [build[b] EXCEPT !.pc = missing])
    /\ UNCHANGED <<disk, files, seen, counts>>

OpenCache(b) == Open(b, "open", "read", "load")

\* ... and then reads it: by then another process may have renamed it, which is
\* an error the caller ignores.
ReadCache(b) ==
    /\ build[b].pc = "read"
    /\ LET e == CacheStored[build[b].slot] IN
         Set(b, IF e = None THEN [build[b] EXCEPT !.pc = "load"]
                ELSE [build[b] EXCEPT !.pc = "check", !.entry = e,
                                      !.todo = DOMAIN e.inputs])
    /\ UNCHANGED <<disk, files, seen, counts>>

\* Mutant: a missing input is not looked at.
CheckInputThatExists(b) ==
    /\ build[b].pc = "check"
    /\ \E f \in build[b].todo :
         Set(b, IF disk[f] \in {Absent, build[b].entry.inputs[f]}
                  THEN [build[b] EXCEPT !.todo = @ \ {f}]
                  ELSE [build[b] EXCEPT !.pc = "load", !.entry = None, !.todo = {}])
    /\ UNCHANGED <<disk, files, seen, counts>>

\* One input is hashed; a missing or different file is a miss.
CheckInput(b) ==
    /\ build[b].pc = "check"
    /\ \E f \in build[b].todo :
         Set(b, IF disk[f] = build[b].entry.inputs[f]
                  THEN [build[b] EXCEPT !.todo = @ \ {f}]
                  ELSE [build[b] EXCEPT !.pc = "load", !.entry = None, !.todo = {}])
    /\ UNCHANGED <<disk, files, seen, counts>>

Hit(b) ==
    /\ build[b].pc = "check" /\ build[b].todo = {}
    /\ Set(b, [Fresh("done") EXCEPT !.out = build[b].entry.out])
    /\ UNCHANGED <<disk, files, seen, counts>>
-----------------------------------------------------------------------------
(* Compilation *)

\* The loader reads the entry, the mod.qz its import goes through, and the file
\* that one names.  The mod.qz is not one of the loaded files.
LoadRoot(b) ==
    /\ build[b].pc = "load"
    /\ IF disk[Root] = Absent
         THEN Fail(b)
         ELSE Set(b, [build[b] EXCEPT !.pc = "resolve", !.prog = [s \in {Root} |-> disk[Root]]])
    /\ UNCHANGED <<disk, files, seen, counts>>

ResolveImport(b) ==
    /\ build[b].pc = "resolve"
    /\ IF disk[Route] = Absent
         THEN Fail(b)
         ELSE Set(b, [build[b] EXCEPT !.pc = "leaf", !.leaf = disk[Route]])
    /\ UNCHANGED <<disk, files, seen, counts>>

LoadLeaf(b) ==
    /\ build[b].pc = "leaf"
    /\ LET leaf == build[b].leaf
           prog == build[b].prog
       IN
         IF disk[leaf] = Absent
           THEN Fail(b)
           ELSE Set(b, [build[b] EXCEPT
                          !.pc = "context",
                          !.prog = [s \in DOMAIN prog \union {leaf} |->
                                      IF s \in DOMAIN prog THEN prog[s] ELSE disk[s]]])
    /\ UNCHANGED <<disk, files, seen, counts>>

\* semantic_context_hash: the declarations loaded, the configuration files now.
Fingerprint(b) ==
    /\ build[b].pc = "context"
    /\ Set(b, [build[b] EXCEPT
                 !.pc = "openUnits",
                 !.context = [sigs |-> Signatures(build[b].prog),
                              manifest |-> disk[Manifest], dep |-> disk[Dep]]])
    /\ UNCHANGED <<disk, files, seen, counts>>

OpenUnits(b) == Open(b, "openUnits", "readUnits", "compile")

\* Mutant: the context a unit was compiled in is not compared.
ReusableAnywhere(e, context, prog) ==
    IF e = None THEN Nothing
    ELSE [s \in {s \in DOMAIN e.units \intersect DOMAIN prog :
                   e.units[s].hash = prog[s]} |-> e.units[s]]

\* Mutant: the hash of the source is not compared.
ReusableByName(e, context, prog) ==
    IF e = None \/ e.context # context THEN Nothing
    ELSE [s \in DOMAIN e.units \intersect DOMAIN prog |-> e.units[s]]

\* load_codegen_units reads the cache again, perhaps another entry by now.
Reusable(e, context, prog) ==
    IF e = None \/ e.context # context THEN Nothing
    ELSE [s \in {s \in DOMAIN e.units \intersect DOMAIN prog :
                   e.units[s].hash = prog[s]} |-> e.units[s]]

ReadUnits(b) ==
    /\ build[b].pc = "readUnits"
    /\ Set(b, [build[b] EXCEPT
                 !.pc = "compile",
                 !.units = Reusable(CacheStored[build[b].slot],
                                    build[b].context, build[b].prog)])
    /\ UNCHANGED <<disk, files, seen, counts>>

\* Mutant: the cached record is restored in place of its code.
GeneratedWhole(b) ==
    [s \in DOMAIN build[b].prog |->
       IF s \in DOMAIN build[b].units THEN build[b].units[s]
                                      ELSE CodeOf(s, build[b].prog)]

\* Analysis covers the whole program; code is restored where a unit is kept.
Generated(b) ==
    [s \in DOMAIN build[b].prog |->
       IF s \in DOMAIN build[b].units THEN build[b].units[s].code
                                      ELSE CodeOf(s, build[b].prog)]

Compile(b) ==
    /\ build[b].pc = "compile"
    /\ IF ~ Accepts(build[b].prog)
         THEN Fail(b)
         ELSE Set(b, [build[b] EXCEPT
                        !.pc = "link",
                        !.out = Artifact(Generated(b), build[b].settings, Absent)])
    /\ UNCHANGED <<disk, files, seen, counts>>

Link(b) ==
    /\ build[b].pc = "link"
    /\ IF disk[Dep] = Absent
         THEN Fail(b)
         ELSE Set(b, [build[b] EXCEPT !.pc = "stage", !.out.dep = disk[Dep]])
    /\ UNCHANGED <<disk, files, seen, counts>>
-----------------------------------------------------------------------------
(* incremental::store *)

\* Mutant: every file is hashed now, as it is on disk.
InputsFromDisk(b) ==
    [f \in {f \in DOMAIN build[b].prog \union {Manifest, Dep} : disk[f] # Absent} |-> disk[f]]

\* Mutant: the dependency is not an input.
InputsWithoutDep(b) ==
    LET prog == build[b].prog IN
    [f \in {f \in DOMAIN prog \union {Manifest} : disk[f] # Absent} |->
       IF f \in DOMAIN prog THEN prog[f] ELSE disk[f]]

\* Sources carry the hash of the text that was loaded; the configuration files
\* are hashed here; a file that is gone by now is not listed.  The entry goes to
\* a temporary file named after the process, which nobody else reads.
Inputs(b) ==
    LET prog == build[b].prog IN
    [f \in {f \in DOMAIN prog \union {Manifest, Dep} : disk[f] # Absent} |->
       IF f \in DOMAIN prog THEN prog[f] ELSE disk[f]]

Entry(b) ==
    LET prog == build[b].prog code == build[b].out.code IN
    [inputs |-> Inputs(b), out |-> build[b].out, context |-> build[b].context,
     units |-> [s \in DOMAIN prog |-> [hash |-> prog[s], code |-> code[s]]]]

Stage(b) ==
    /\ build[b].pc = "stage"
    /\ Set(b, [build[b] EXCEPT !.pc = "clear", !.entry = Entry(b)])
    /\ UNCHANGED <<disk, files, seen, counts>>

ClearBackup(b) ==
    /\ build[b].pc = "clear"
    /\ backup' = None
    /\ Set(b, [build[b] EXCEPT !.pc = "keep"])
    /\ UNCHANGED <<disk, main, seen, counts>>

\* Mutant: the old entry is removed before the new one is installed.
KeepNothing(b) ==
    /\ build[b].pc = "keep"
    /\ main' = None
    /\ Set(b, [build[b] EXCEPT !.pc = "install"])
    /\ UNCHANGED <<disk, backup, seen, counts>>

KeepOld(b) ==
    /\ build[b].pc = "keep"
    /\ IF main # None THEN backup' = main /\ main' = None
                      ELSE UNCHANGED files
    /\ Set(b, [build[b] EXCEPT !.pc = "install"])
    /\ UNCHANGED <<disk, seen, counts>>

Install(b) ==
    /\ build[b].pc = "install"
    /\ main' = build[b].entry
    /\ Set(b, [build[b] EXCEPT !.pc = "tidy"])
    /\ UNCHANGED <<disk, backup, seen, counts>>

Emitted(b) == Set(b, [Fresh("done") EXCEPT !.out = build[b].out])

Tidy(b) ==
    /\ build[b].pc = "tidy"
    /\ backup' = None
    /\ Emitted(b)
    /\ UNCHANGED <<disk, main, seen, counts>>

\* Any of these calls may fail, also because another process was faster.  The
\* build warns and goes on; a failed install puts the backup back.
StoreFails(b) ==
    /\ build[b].pc \in {"stage", "clear", "keep", "install", "tidy"}
    /\ IF build[b].pc = "install" /\ backup # None
         THEN main' = backup /\ backup' = None
         ELSE UNCHANGED files
    /\ Emitted(b)
    /\ UNCHANGED <<disk, seen, counts>>
-----------------------------------------------------------------------------
(* The environment *)

\* The process is killed, or the machine stops.
Crash(b) ==
    /\ Running(b)
    /\ Set(b, Fresh("idle"))
    /\ UNCHANGED <<disk, files, seen, counts>>

Edit(f, c) ==
    /\ edits < MaxEdits /\ disk[f] # c
    /\ \/ \A b \in Builders : ~ Running(b)
       \/ f \in (IF c = Absent THEN Vanishing ELSE Racing)
    /\ disk' = [disk EXCEPT ![f] = c]
    /\ seen' = [b \in Builders |->
                  IF Running(b) THEN [seen[b] EXCEPT ![f] = @ \union {c}] ELSE seen[b]]
    /\ edits' = edits + 1
    /\ UNCHANGED <<files, build, builds>>

Init ==
    /\ disk \in Disks
    /\ main = None /\ backup = None
    /\ build = [b \in Builders |-> Fresh("idle")]
    /\ seen = [b \in Builders |-> [f \in Files |-> {}]]
    /\ edits = 0 /\ builds = 0

Step(b) ==
    \/ Begin(b) \/ LoadProject(b) \/ OpenCache(b) \/ ReadCache(b) \/ CheckInput(b) \/ Hit(b)
    \/ LoadRoot(b) \/ ResolveImport(b) \/ LoadLeaf(b) \/ Fingerprint(b)
    \/ OpenUnits(b) \/ ReadUnits(b) \/ Compile(b) \/ Link(b)
    \/ Stage(b) \/ ClearBackup(b) \/ KeepOld(b) \/ Install(b) \/ Tidy(b)
    \/ StoreFails(b) \/ Crash(b)

Next ==
    \/ \E b \in Builders : Step(b)
    \/ \E f \in Edited : \E c \in ContentOf(f) \union {Absent} : Edit(f, c)

Spec == Init /\ [][Next]_vars
-----------------------------------------------------------------------------
(* Properties *)

\* What the outside sees of a process.
Shown(r) ==
    CASE r.pc = "idle" -> Idle
      [] r.pc = "failed" -> Failed
      [] r.pc = "done" -> r.out
      [] OTHER -> Busy

Full == INSTANCE FullBuild WITH result <- [b \in Builders |-> Shown(build[b])]

TypeOK ==
    /\ disk \in [Files -> Content \union {Absent}]
    /\ \A f \in Files : disk[f] \in ContentOf(f) \union {Absent}
    /\ main \in CacheEntry \union {None}
    /\ backup \in CacheEntry \union {None}
    /\ build \in [Builders -> Build]
    /\ seen \in [Builders -> [Files -> SUBSET (Content \union {Absent})]]
    /\ edits \in Nat /\ builds \in Nat

\* Whatever the cache holds, whoever else builds or is killed, and whichever
\* files change meanwhile, a build emits what a full compilation of contents
\* that were on disk during this build would emit, and fails only if that would.
BuildsInFull == Full!Spec

\* No emitted artifact holds a function compiled against declarations other
\* than those the artifact itself was made of, however its functions were
\* collected from the cache and from fresh compilation.
CoherentArtifacts ==
    \A b \in Builders : build[b].pc = "done" => Coherent(build[b].out.code)

\* Every source text an artifact was made from was the text of that file at some
\* moment of the build that emits it.
SourcesAreCurrent ==
    \A b \in Builders : build[b].pc = "done" =>
        \A s \in DOMAIN build[b].out.code : build[b].out.code[s].text \in seen[b][s]

\* The same of the manifest and of the dependency.
ConfigurationIsCurrent ==
    \A b \in Builders : build[b].pc = "done" =>
        /\ build[b].out.settings \in seen[b][Manifest]
        /\ build[b].out.dep \in seen[b][Dep]

\* No step of a store, and no failure or kill in it, takes away an installed
\* entry without leaving one to read.
EntrySurvives == [][main # None => main' # None \/ backup' # None]_vars
=============================================================================
