------------------------------- MODULE Loader --------------------------------
(***************************************************************************)
(* The files of a program (loader.rs): what an import names, and the order *)
(* in which collect takes the files.                                       *)
(*                                                                         *)
(* A path is the sequence of its names, a file being named without its     *)
(* suffix.  tree maps the path of every file to [imports, public], an      *)
(* import being [path, items, relative, pub] with items <<"single", n>>,   *)
(* <<"aliased", n, alias>>, <<"multiple", names>> or <<"all">>; packages   *)
(* maps a name to [src, entry, root].  Imports excluded by @cfg are not    *)
(* in the tree.                                                            *)
(***************************************************************************)
EXTENDS Naturals, Sequences, FiniteSets, SequencesExt

Unresolved == [unresolved |-> TRUE]
Found(path) == [path |-> path]

HasFile(tree, path) == path \in DOMAIN tree
Gateway(dir) == dir \o <<"mod">>
HasDirectory(tree, dir) == \E p \in DOMAIN tree : IsStrictPrefix(dir, p)
Dir(path) == Front(path)

\* import_base_and_remainder: one name imported from a path is its last segment.
Segments(i) == IF i.items[1] \in {"single", "aliased"} THEN i.path \o <<i.items[2]>> ELSE i.path
-----------------------------------------------------------------------------
(* Gateways. *)

\* Mutant: what the gateway imports for itself is visible too.
Mentions(i, name) ==
  CASE i.items[1] = "single" -> i.items[2] = name
    [] i.items[1] = "aliased" -> i.items[3] = name
    [] i.items[1] = "multiple" -> name \in i.items[2]
    [] OTHER -> TRUE

ExportsName(i, name) ==
  /\ i.pub
  /\ CASE i.items[1] = "single" -> i.items[2] = name
       [] i.items[1] = "aliased" -> i.items[3] = name
       [] i.items[1] = "multiple" -> name \in i.items[2]
       [] OTHER -> TRUE

\* is_pub_exported_from_mod.
HasExport(tree, gateway, name) == \E k \in DOMAIN tree[gateway].imports : ExportsName(tree[gateway].imports[k], name)

-----------------------------------------------------------------------------
\* The files a public import may mean: the name's own file, then the module's;
\* a directory stands for its gateway.
Candidates(i, dir, name) ==
  CASE i.items[1] \in {"single", "aliased"} -> <<dir \o i.path \o <<i.items[2]>>>>
    [] i.items[1] = "multiple" -> <<dir \o i.path \o <<name>>>>
    [] OTHER -> <<>>
AllCandidates(i, dir, name) == Candidates(i, dir, name) \o (IF i.path = <<>> THEN <<>> ELSE <<dir \o i.path>>)
FileOrGateway(tree, path) ==
  IF HasFile(tree, path) THEN <<path>> ELSE IF HasFile(tree, Gateway(path)) THEN <<Gateway(path)>> ELSE <<>>

RECURSIVE ExportedFile(_, _, _)
\* What the first public import says that leads to a file; a wildcard asks the
\* gateway below, then the directory.
ExportedBy(tree, i, dir, name) ==
  LET sub == dir \o i.path
      below == IF i.items[1] = "all" /\ i.path # <<>> /\ HasFile(tree, Gateway(sub))
               THEN ExportedFile(tree, Gateway(sub), name) ELSE <<>>
      beside == IF i.items[1] = "all" /\ i.path # <<>> /\ HasFile(tree, sub \o <<name>>) THEN <<sub \o <<name>>>> ELSE <<>>
      listed == FlattenSeq([k \in DOMAIN AllCandidates(i, dir, name) |-> FileOrGateway(tree, AllCandidates(i, dir, name)[k])])
  IN IF ~ExportsName(i, name) THEN <<>> ELSE below \o beside \o listed

\* find_pub_exported_file, as a sequence of one path or none.
ExportedFile(tree, gateway, name) ==
  LET imports == tree[gateway].imports
      all == FlattenSeq([k \in DOMAIN imports |-> ExportedBy(tree, imports[k], Dir(gateway), name)])
  IN IF all = <<>> THEN <<>> ELSE <<Head(all)>>

\* Through a gateway: what it exports, or the gateway where that is no file.
Through(tree, gateway, name) ==
  IF ~HasExport(tree, gateway, name) THEN Unresolved
  ELSE Found(IF ExportedFile(tree, gateway, name) = <<>> THEN gateway ELSE ExportedFile(tree, gateway, name)[1])

\* The longest prefix of the remaining segments that is a file.
LongestFile(tree, dir, rest) ==
  LET lens == {n \in 1..Len(rest) : HasFile(tree, dir \o SubSeq(rest, 1, n))}
  IN IF lens = {} THEN <<>> ELSE <<dir \o SubSeq(rest, 1, CHOOSE n \in lens : \A m \in lens : m <= n)>>

\* resolve_module_file.
ModuleFile(tree, spec, name) ==
  IF HasFile(tree, Gateway(spec.src)) THEN ExportedFile(tree, Gateway(spec.src), name)
  ELSE IF HasFile(tree, Gateway(spec.src \o <<name>>)) THEN <<Gateway(spec.src \o <<name>>)>>
  ELSE IF HasFile(tree, spec.src \o <<name>>) THEN <<spec.src \o <<name>>>>
  ELSE <<>>
-----------------------------------------------------------------------------
(* An import of a package. *)

Present(tree, path) == IF HasFile(tree, path) THEN Found(path) ELSE Unresolved

WithoutGateway(tree, spec, rest) ==
  LET files == LongestFile(tree, spec.src, rest) \o ModuleFile(tree, spec, rest[1]) \o <<spec.entry>>
  IN Present(tree, files[1])

PackageFile(tree, spec, rest) ==
  IF rest = <<>> \/ (spec.root /\ Len(rest) = 1 /\ rest[1] \in tree[spec.entry].public) THEN Present(tree, spec.entry)
  ELSE IF HasFile(tree, Gateway(spec.src)) THEN Through(tree, Gateway(spec.src), rest[1])
  ELSE IF HasFile(tree, Gateway(spec.src \o <<rest[1]>>))
       THEN IF Len(rest) > 1 THEN Through(tree, Gateway(spec.src \o <<rest[1]>>), rest[2])
            ELSE Found(Gateway(spec.src \o <<rest[1]>>))
  ELSE WithoutGateway(tree, spec, rest)

\* `import std`: the modules whose members the file names.
UsedModules(tree, spec, used) == FlattenSeq([k \in DOMAIN used |-> ModuleFile(tree, spec, used[k])])
-----------------------------------------------------------------------------
(* An import of a file beside the importer. *)

FilesIn(tree, dir) == SetToSeq({p \in DOMAIN tree : Dir(p) = dir})

DirectoryFiles(tree, dir) ==
  IF HasFile(tree, Gateway(dir)) THEN <<Found(Gateway(dir))>>
  ELSE IF HasDirectory(tree, dir) THEN [k \in DOMAIN FilesIn(tree, dir) |-> Found(FilesIn(tree, dir)[k])]
  ELSE <<Unresolved>>

LocalFiles(tree, here, base, rest) ==
  LET dir == here \o <<base>>
      longest == LongestFile(tree, dir, rest)
  IN IF HasFile(tree, dir) THEN <<Found(dir)>>
     ELSE IF rest = <<>> THEN DirectoryFiles(tree, dir)
     ELSE IF HasFile(tree, Gateway(dir)) THEN <<Through(tree, Gateway(dir), rest[1])>>
     ELSE IF longest = <<>> THEN <<Unresolved>> ELSE <<Found(longest[1])>>

\* local_import_paths: what one import loads; one without a path loads nothing.
ImportedFiles(tree, packages, file, i) ==
  LET base == Segments(i)[1]
      rest == Tail(Segments(i))
  IN IF Segments(i) = <<>> THEN <<>>
     ELSE IF ~i.relative /\ base \in DOMAIN packages
     THEN IF rest = <<>> /\ base = "std"
          THEN LET used == UsedModules(tree, packages[base], tree[file].used) IN [k \in DOMAIN used |-> Found(used[k])]
          ELSE <<PackageFile(tree, packages[base], rest)>>
     ELSE LocalFiles(tree, Dir(file), base, rest)
-----------------------------------------------------------------------------
(* Collecting. *)

\* load is [visited, sources, edges, failed].
RECURSIVE Collect(_, _, _, _)
CollectImports(tree, packages, load, file) ==
  LET found == FlattenSeq([k \in DOMAIN tree[file].imports |-> ImportedFiles(tree, packages, file, tree[file].imports[k])])
      step(l, f) == IF l.failed THEN l
                    ELSE Collect(tree, packages, [l EXCEPT !.edges = @ \cup {<<file, f.path>>}], f.path)
  IN IF \E k \in DOMAIN found : found[k] = Unresolved THEN [load EXCEPT !.failed = TRUE]
     ELSE FoldLeft(LAMBDA l, f : step(l, f), load, found)

\* Mutant: a file goes before what it imports.
CollectFirst(tree, packages, load, file) ==
  IF file \in load.visited THEN load
  ELSE CollectImports(tree, packages, [load EXCEPT !.visited = @ \cup {file}, !.sources = Append(@, file)], file)

\* A file follows what it imports.
Collect(tree, packages, load, file) ==
  IF file \in load.visited THEN load
  ELSE LET after == CollectImports(tree, packages, [load EXCEPT !.visited = @ \cup {file}], file)
       IN IF after.failed THEN after ELSE [after EXCEPT !.sources = Append(@, file)]

NothingLoaded == [visited |-> {}, sources |-> <<>>, edges |-> {}, failed |-> FALSE]

\* collect_sources: the prelude, the entries.
LoadPrograms(tree, packages, prelude, entries) ==
  FoldLeft(LAMBDA l, f : IF l.failed THEN l ELSE Collect(tree, packages, l, f), NothingLoaded, prelude \o entries)
=============================================================================
