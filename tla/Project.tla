------------------------------ MODULE Project ------------------------------
(***************************************************************************)
(* What a build of a Quazi project reads and what it produces.  A project  *)
(* has an entry source, Root, which imports one name through a mod.qz,     *)
(* Route; the mod.qz says which of the Leaves the name comes from.  The    *)
(* build also reads the manifest (quazi.toml) and a binary dependency (a   *)
(* .qzi file).  Hashes are taken to be injective, so a hash is the content. *)
(***************************************************************************)
CONSTANTS
    Root,        \* the entry source
    Leaves,      \* the sources an import may resolve to
    Route,       \* the mod.qz the loader consults to resolve it
    Manifest,    \* quazi.toml
    Dep,         \* the .qzi dependency
    Sigs,        \* declarations of a source: what other sources depend on
    Bodies,      \* function bodies of a source
    Broken,      \* the bodies the compiler rejects
    Texts,       \* the texts each source may have
    Settings,    \* contents of the manifest
    Revisions,   \* contents of the dependency
    Absent       \* the content of a file that does not exist

Sources == {Root} \union Leaves

Files == Sources \union {Route, Manifest, Dep}

Text == UNION {Texts[s] : s \in Sources}

ASSUME ProjectAssumption ==
    /\ Root \notin Leaves
    /\ Route \notin Sources
    /\ Manifest \notin Sources \union {Route}
    /\ Dep \notin Sources \union {Route, Manifest}
    /\ Texts \in [Sources -> SUBSET [sig : Sigs, body : Bodies]]
    /\ Absent \notin Text \union Leaves \union Settings \union Revisions

ContentOf(f) ==
    CASE f \in Sources -> Texts[f]
      [] f = Route -> Leaves
      [] f = Manifest -> Settings
      [] f = Dep -> Revisions

DiskOf(text, leaf, settings, dep) ==
    [f \in Files |-> CASE f \in Sources -> text[f]
                      [] f = Route -> leaf
                      [] f = Manifest -> settings
                      [] f = Dep -> dep]

\* Every file is there.
Disks == {DiskOf(text, leaf, settings, dep) :
            text \in {t \in [Sources -> Text] : \A s \in Sources : t[s] \in Texts[s]}, leaf \in Leaves,
            settings \in Settings, dep \in Revisions}

\* What is known of some of the sources.
About(T) == UNION {[S -> T] : S \in SUBSET Sources}

\* The loader's result: the text of every source it loaded.
Program == About(Text)

Signatures(prog) == [s \in DOMAIN prog |-> prog[s].sig]

Accepts(prog) == \A s \in DOMAIN prog : prog[s].body \notin Broken

\* Bytecode of the functions of s: its own text under everybody's declarations.
Code == [text : Text, context : About(Sigs)]

CodeOf(s, prog) == [text |-> prog[s], context |-> Signatures(prog)]

Compiled(prog) == [s \in DOMAIN prog |-> CodeOf(s, prog)]

Artifacts == [code : About(Code), settings : Settings \union {Absent},
              dep : Revisions \union {Absent}]

Artifact(code, settings, dep) == [code |-> code, settings |-> settings, dep |-> dep]

\* Every function was compiled against the declarations the artifact contains.
Coherent(code) ==
    \A s \in DOMAIN code :
        code[s].context = [t \in DOMAIN code |-> code[t].text.sig]
=============================================================================
