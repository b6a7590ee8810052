----------------------------- MODULE BuildCases ------------------------------
(***************************************************************************)
(* What the parts of a build are tried on (MCBuild).                       *)
(***************************************************************************)
EXTENDS Naturals, Sequences, FiniteSets, TLC

-----------------------------------------------------------------------------
(* Small functions over one owned parameter and two locals, some of them   *)
(* references: what comes before, a part that a path may leave out or      *)
(* repeat, and what comes after.                                           *)

CONSTANTS given, second, third, view,      \* owners and a reference
          fnGiven, fnSecond, fnThird       \* function owners

Var(x) == <<"var", x>>
New == <<"make">>
Do(e) == <<"do", e>>
Give(x) == Do(<<"call", <<Var(x)>>>>)
Renew(x) == Do(<<"assign", x, New>>)

Atoms(x) == {Renew(x), Do(<<"assign", x, <<"pass", <<Var(x)>>>>>>), Give(x), Do(<<"field", x>>), <<"ret", Var(x)>>}
Returns == {<<"retvoid">>, <<"ret", New>>}

PathParts(x, z) ==
  {<<a>> : a \in Atoms(x) \cup Returns \cup {<<"let", z, New>>, <<"let", z, Var(x)>>}}
  \cup {<<a, b>> : a \in Atoms(x) \cup {<<"let", z, New>>}, b \in {<<"break">>, <<"continue">>, Give(x)}}
  \cup {<< <<"let", z, New>>, a>> : a \in Atoms(z)}
  \cup {<< <<"let", z, Var(x)>>, Renew(x)>>}
  \cup {<< <<"let", view, <<"ref", x>>>>, a>> : a \in Atoms(x)}
Leaves(part) == \E k \in DOMAIN part : part[k][1] \in {"break", "continue"}
Branches(x, z) == {part \in PathParts(x, z) : ~Leaves(part)}

Middles(x, y, z) ==
  {<<"while", part>> : part \in PathParts(x, z)}
  \cup {<<"if", part, <<>>>> : part \in Branches(x, z)}
  \cup {<<"if", <<Do(<<"field", x>>)>>, part>> : part \in Branches(x, z)}
  \cup {<<"each", Var(x), part>> : part \in PathParts(y, z)}
  \cup {<<"while", << <<"if", part, <<>>>>, Do(<<"field", x>>)>> >> : part \in PathParts(x, z)}
  \cup {Do(e) : e \in {<<"and", <<"value">>, <<"call", <<Var(x)>>>>>>,
                       <<"match", Var(x), << <<"value">>, <<"call", <<Var(y)>>>> >> >>,
                       <<"try", <<"value">>>>, <<"free", x>>,
                       <<"method", "exclusive", x, <<Var(x)>>>>, <<"method", "shared", x, <<Var(y)>>>>,
                       <<"method", "value", x, <<Var(y)>>>>,
                       <<"call", << <<"refmut", x>>, Var(y)>> >>, <<"call", << <<"ref", x>>, Var(x)>> >>,
                       <<"update", x, <<"value">>>>}}
  \cup {<<"let", z, <<"build", <<Var(x), Var(y)>>>>>>, <<"let", view, <<"refmut", x>>>>, <<"let", z, <<"closure", <<"value">>>>>>}

Ends(x, y) == {<<>>} \cup {<<a>> : a \in Atoms(x) \cup Atoms(y) \cup {<<"ret", New>>}}

Over3(x, y, z) ==
  {<< <<x>>, before \o <<middle>> \o end>> :
     before \in {<< <<"let", y, New>> >>, << <<"let", y, Var(x)>> >>, << <<"let", y, New>>, <<"let", view, <<"ref", x>>>> >>,
                 << <<"let", y, New>>, Give(x)>>},
     middle \in Middles(x, y, z), end \in Ends(x, y)}
  \cup {<< <<x>>, << <<"declare", y>>, middle>> \o end>> :
     middle \in {<<"if", <<Renew(y)>>, <<>>>>, <<"while", <<Renew(y)>>>>, Renew(y), Do(<<"assign", y, Var(x)>>)}, end \in Ends(x, y)}

MCFunctions == Over3(given, second, third) \cup {f \in Over3(fnGiven, fnSecond, fnThird) : Len(f[2]) <= 2}

-----------------------------------------------------------------------------
(* Matches on a flag with a payload, on a pair of a bool and a flag, and on *)
(* a bool: <<arms, type, value, the bool a guard may ask for, the register *)
(* of the value>>, the value and the bool being the two parameters.        *)

CONSTANT Enums
Mat == INSTANCE Matching

MCEnums == [Flag |-> [Off |-> <<>>, On |-> <<"bool">>], Pair |-> [Both |-> <<"bool", "Flag">>]]

BoolPatterns == {<<"any">>, <<"bind", "x">>, <<"lit", 0>>, <<"lit", 1>>}
FlagPatterns == {<<"any">>, <<"bind", "f">>, <<"variant", "Off", <<>>>>} \cup {<<"variant", "On", <<b>>>> : b \in BoolPatterns}
PairPatterns ==
  {<<"any">>} \cup {<<"variant", "Both", <<b, f>>>> :
     b \in {<<"any">>, <<"bind", "y">>, <<"lit", 1>>},
     f \in {<<"any">>, <<"bind", "z">>, <<"variant", "On", << <<"bind", "x">> >> >>}}

Guards(pattern) == {<<"none">>, <<"on">>} \cup {<<"is", x>> : x \in Mat!Bindings(pattern) \cap {"x", "y"}}
Arms(patterns) == UNION {{[pattern |-> p, guard |-> g] : g \in Guards(p)} : p \in patterns}
UpTo3(S) == {<<a>> : a \in S} \cup {<<a, b>> : a, b \in S} \cup {<<a, b, c>> : a, b, c \in S}

Bools == {<<"bool", 0>>, <<"bool", 1>>}
Flags == {<<"enum", "Off", <<>>>>} \cup {<<"enum", "On", <<b>>>> : b \in Bools}
Pairs == {<<"enum", "Both", <<b, f>>>> : b \in Bools, f \in Flags}

Accepted(arms, type) == {a \in arms : Mat!AcceptsMatch(a, type)}
MatchTasks ==
  (Accepted(UpTo3(Arms(FlagPatterns)), "Flag") \X {"Flag"} \X Flags \X Bools \X {0, 1})
  \cup (Accepted({<<a, b>> : a, b \in Arms(PairPatterns)}, "Pair") \X {"Pair"} \X Pairs \X Bools \X {0, 1})
  \cup (Accepted({<<a, b>> : a, b \in Arms(BoolPatterns)}, "bool") \X {"bool"} \X Bools \X Bools \X {0, 1})

-----------------------------------------------------------------------------
(* A project that calls a library through its file: the library as it was   *)
(* compiled, the version of the compiler that wrote the file, what became   *)
(* of the file, the name the project gives the library and what else the    *)
(* project defines.                                                         *)

Qzi == INSTANCE QziModules

I(op, reg, arg, flag) == [op |-> op, reg |-> reg, arg |-> arg, flag |-> flag]
Ret == I("ret", 0, 0, 0)
Fn(name, regs, consts, code) ==
  [name |-> name, params |-> 0, regs |-> regs, flags |-> {}, consts |-> consts, code |-> code]

Features == {"plain", "closure", "preowned", "lea", "implicit", "unsigned", "trap", "bytes", "global",
             "foreign", "export", "receivers", "any", "wide", "far", "kind"}

\* What a feature puts into `parse`: constants and instructions.
ConstantsOf(feature) ==
  CASE feature = "closure" -> << <<"fn", <<"scan">> >> >>
    [] feature = "preowned" -> << <<"fn", <<"closure">> >> >>
    [] feature \in {"bytes", "global", "foreign"} -> << <<feature>> >>
    [] feature = "kind" -> << <<"int", 1>> >>
    [] OTHER -> <<>>
CodeOf(feature) ==
  CASE feature \in {"closure", "bytes", "global", "preowned"} -> <<I("const", 0, 0, 0)>>
    [] feature = "lea" -> <<I("lea", 0, 1, 2)>>
    [] feature = "implicit" -> <<I("lea", 0, 1, 0)>>
    [] feature = "unsigned" -> <<I("div", 0, 1, 1)>>
    [] feature = "trap" -> <<I("trap", 0, 0, 0)>>
    [] feature \in {"foreign", "kind"} -> <<I("callext", 0, 0, 0)>>
    [] feature = "wide" -> <<I("mov", 3, 0, 0)>>
    [] feature = "far" -> <<I("jmp", 0, 9, 0)>>
    [] OTHER -> <<>>

\* json has parse, which calls scan and util.fmt; util.fmt calls util.pad.
Json(name, kind, feature) ==
  [name |-> name, kind |-> kind, args |-> FALSE, interface |-> {feature} \cap {"receivers", "any"}, relocs |-> {},
   chunks |-> <<[Fn(<<"parse">>, 3, ConstantsOf(feature), <<I("call", 0, 1, 0)>> \o CodeOf(feature) \o <<I("call", 0, 2, 0), Ret>>)
                   EXCEPT !.flags = {feature} \cap {"export"}],
                Fn(<<"scan">>, 1, <<>>, <<Ret>>),
                Fn(<<"util", "fmt">>, 1, <<>>, <<I("call", 0, 3, 0), Ret>>),
                Fn(<<"util", "pad">>, 1, <<>>, <<Ret>>)>>
              \o (IF feature = "preowned" THEN <<Fn(<<"closure">>, 1, <<>>, <<Ret>>)>> ELSE <<>>)
              \o (IF kind = "executable" THEN <<Fn(<<"main">>, 1, <<>>, <<Ret>>)>> ELSE <<>>)]

\* The project: main calls the library's parse, and fmt of its own `util`.
Symbol(lib, dep) == IF lib = <<>> THEN <<"parse">> ELSE dep \o <<"parse">>
Project(own, symbol) ==
  LET fmt == Fn(<<"util", "fmt">>, 1, <<>>, <<I("call", 0, 2, 0), Ret>>)
      pad == Fn(<<"util", "pad">>, 1, <<>>, <<Ret>>)
      trim == Fn(<<"util", "trim">>, 1, <<>>, <<Ret>>)
  IN [name |-> <<"app">>, kind |-> "executable", args |-> FALSE, interface |-> {},
      relocs |-> {[chunk |-> 1, at |-> 1, symbol |-> symbol]},
      chunks |-> <<Fn(<<"main">>, 1, <<>>, <<I("call", 0, 0, 0)>> \o (IF own = "none" THEN <<>> ELSE <<I("call", 0, 1, 0)>>) \o <<Ret>>)>>
                 \o (CASE own = "none" -> <<>>
                       [] own = "same" -> <<fmt, pad>>
                       [] own = "other" -> <<Fn(<<"util", "fmt">>, 2, <<>>, <<Ret>>)>>
                       [] own = "trims" -> <<fmt, trim>>)]

\* The file as a compiler of that version would have written it.
WrittenBy(version, m) ==
  LET words == Qzi!ChunksPayload(m.chunks)
      next == [words EXCEPT ![2] = version]
      flagless == <<"QZI", 2, Len(m.chunks)>> \o Qzi!FlattenSeq([k \in DOMAIN m.chunks |->
                    LET w == Qzi!ChunkWords([m.chunks[k] EXCEPT !.flags = {}]) IN SubSeq(w, 1, 3) \o SubSeq(w, 5, Len(w))])
  IN IF version >= 6 THEN Qzi!Layout(version, Qzi!Sections(m)) ELSE IF version = 2 THEN flagless ELSE next

\* What became of it: cut short, made longer, a section lost, doubled, moved.
Damages == {"cut", "longer", "lost", "doubled", "gap", "astray"}
Damaged(damage, words, m) ==
  LET ss == Qzi!Sections(m)
      last == Len(words)
  IN CASE damage = "whole" -> words
       [] damage = "cut" -> SubSeq(words, 1, last - 1)
       [] damage = "longer" -> Append(words, 0)
       [] damage = "lost" -> Qzi!Layout(words[2], <<ss[1], ss[2], ss[4]>>)
       [] damage = "doubled" -> Qzi!Layout(words[2], ss \o <<ss[2]>>)
       [] damage = "gap" -> [words EXCEPT ![6] = @ - 1]
       [] damage = "astray" -> Qzi!Layout(words[2], [ss EXCEPT ![3].words = <<1, [chunk |-> 1, at |-> 9, symbol |-> <<"scan">>]>>])

\* What a library of this compiler is: json, written as a library.
Library(task) == Qzi!Qualify(Json(task.lib, task.kind, task.feature))

QziTasks ==
  {t \in [lib : {<<>>, <<"json">>}, kind : {"library", "executable"}, feature : Features, version : 1..10,
          damage : {"whole"} \cup Damages, dep : {<<"json">>, <<"j">>}, own : {"none", "same", "other", "trims"}] :
     /\ t.kind = "executable" => t.feature = "plain" /\ t.own = "none" /\ t.lib = <<"json">>
     /\ t.damage # "whole" => t.version \in {5, 9} /\ t.own = "none" /\ t.lib = <<"json">>
     /\ t.version = 5 => t.damage \in {"whole", "cut", "longer"}
     /\ t.version = 10 => t.own = "none"
     /\ t.own # "none" => t.feature \in {"plain", "closure"}}

Build(task) ==
  LET m == Library(task)
      words == IF task.version = 9 /\ ~Qzi!Writable(m) THEN <<>> ELSE Damaged(task.damage, WrittenBy(task.version, m), m)
      read == Qzi!Deserialize(words)
      dep == Qzi!Depend(read, task.dep)
  IN [read |-> read,
      linked |-> IF Qzi!IsRefused(dep) THEN Qzi!Refused
                 ELSE Qzi!Link(<<Project(task.own, Symbol(dep.name, task.dep)), dep>>)]
-----------------------------------------------------------------------------
(* What a build promises. *)

\* The formats a feature needs, and the features no file may have.
Since(feature) ==
  CASE feature \in {"receivers", "any", "unsigned", "trap", "lea"} -> 7
    [] feature = "global" -> 5
    [] feature = "bytes" -> 4
    [] feature \in {"foreign", "export"} -> 3
    [] OTHER -> 2
Malformed == {"implicit", "wide", "far", "kind"}
Readable(task) ==
  /\ task.version \in 2..9
  /\ task.damage = "whole"
  /\ task.feature \notin Malformed
  /\ task.feature = "preowned" => task.version >= 7
  \* Files of one payload have no interface, and their flags were not told apart.
  /\ task.version = 6 => Since(task.feature) <= 6
  /\ task.version < 5 /\ task.feature \in {"bytes", "global", "foreign"} => Since(task.feature) <= task.version

\* A file is read as the module it was written from, or not at all.
ReadAsWritten(task, answer) ==
  IF ~Readable(task) THEN Qzi!IsRefused(answer.read)
  ELSE LET m == Library(task)
       IN /\ ~Qzi!IsRefused(answer.read)
          /\ task.version >= 3 => answer.read.chunks = m.chunks
          /\ answer.read.relocs = Qzi!Relocations(m)
          /\ task.version >= 6 => answer.read.name = m.name /\ answer.read.interface = m.interface

\* The name a function of the library has in the program.
FinalName(task, name) ==
  IF task.version < 6 \/ task.lib = <<>> THEN IF task.lib = <<>> \/ Len(name) > 1 THEN name ELSE task.lib \o name
  ELSE IF Len(name) = 1 THEN task.dep \o name ELSE name

Callees(chunks, c) == [i \in DOMAIN c.code |-> IF c.code[i].op = "call" THEN chunks[c.code[i].arg + 1].name ELSE <<>>]
FnConstants(c) == {k[2] : k \in {k \in Qzi!Range(c.consts) : k[1] = "fn"}}

\* Nothing is refused that could be linked.
Linkable(task) ==
  /\ Readable(task) /\ task.kind = "library" /\ task.own \in {"none", "same"}
  /\ task.version >= 6 \/ task.lib = <<>>

\* In the program every function of the library calls the functions it called in
\* its source, under their names there, and so does every function of the project.
LinkedAsBuilt(task, answer) ==
  IF Qzi!IsRefused(answer.linked) THEN ~Linkable(task) ELSE
  LET source == Json(task.lib, task.kind, task.feature).chunks
      project == Project(task.own, Symbol(answer.read.name, task.dep))
      chunks == answer.linked.chunks
      At(name) == chunks[Qzi!IndexIn(chunks, name)]
      Named(names) == [i \in DOMAIN names |-> IF names[i] = <<>> THEN <<>> ELSE FinalName(task, names[i])]
      Meant(c) == [i \in DOMAIN c.code |->
                     IF c.name = <<"main">> /\ i = 1 THEN FinalName(task, <<"parse">>) ELSE Callees(project.chunks, c)[i]]
  IN /\ Cardinality({c.name : c \in Qzi!Range(chunks)}) = Len(chunks)
     /\ \A c \in Qzi!Range(source) :
          /\ Qzi!IndexIn(chunks, FinalName(task, c.name)) # 0
          /\ Callees(chunks, At(FinalName(task, c.name))) = Named(Callees(source, c))
          /\ FnConstants(At(FinalName(task, c.name))) = {FinalName(task, n) : n \in FnConstants(c)}
     /\ \A c \in Qzi!Range(project.chunks) : Callees(chunks, At(c.name)) = Meant(c)

\* The project's calls are not among the relocations the linker compares.
Redirects(task) == task.own = "trims"

-----------------------------------------------------------------------------
(* A program of a directory with a gateway, one without, and a package with *)
(* an entry, perhaps a gateway and a directory of its own; what the main    *)
(* file, the gateways and the files behind them import.                     *)

Load == INSTANCE Loader

Import(path, items, pub) == [path |-> path, items |-> items, relative |-> FALSE, pub |-> pub]
One(path, name) == Import(path, <<"single", name>>, FALSE)
Pub(path, items) == Import(path, items, TRUE)
File(imports) == [imports |-> imports, public |-> {"f"}, used |-> <<"io">>]

MainImports ==
  {One(<<>>, "a"), One(<<>>, "d"), One(<<>>, "e"), One(<<>>, "pkg"), One(<<>>, "std"), One(<<"a">>, "b"), One(<<"a">>, "c"),
   One(<<"a", "b">>, "f"), One(<<"d">>, "x"), One(<<"d", "n">>, "y"), One(<<"pkg">>, "f"), One(<<"pkg">>, "s"),
   One(<<"pkg", "s">>, "t"), One(<<"pkg", "u">>, "f"), One(<<"std">>, "io"), One(<<"std", "io">>, "f"),
   Import(<<"a">>, <<"multiple", {"b", "g"}>>, FALSE), Import(<<"a", "b">>, <<"all">>, FALSE),
   Import(<<"e">>, <<"aliased", "f", "h">>, FALSE), [One(<<>>, "pkg") EXCEPT !.relative = TRUE]}

\* What the gateway of a exports; what a.b imports.
GatewayExports ==
  {<<>>, <<Pub(<<>>, <<"single", "b">>)>>, <<Pub(<<"b">>, <<"single", "f">>)>>, <<Pub(<<>>, <<"multiple", {"b", "c"}>>)>>,
   <<Pub(<<"b">>, <<"aliased", "f", "c">>)>>, <<Pub(<<"n">>, <<"all">>)>>, <<Import(<<>>, <<"single", "b">>, FALSE)>>}
InnerImports == {<<>>, <<One(<<>>, "c")>>, <<One(<<"n">>, "y")>>, <<One(<<>>, "missing")>>, <<One(<<"pkg">>, "f")>>}
PackageExports == {<<>>, <<Pub(<<>>, <<"single", "s">>)>>, <<Pub(<<"s">>, <<"single", "t">>)>>}

Holding(path, imports) == [p \in {path} |-> File(imports)]
Present(there, files) == IF there THEN files ELSE <<>>

\* The tree of a task: p is the project, k the package, l the library `std`.
Tree(t) ==
  Holding(<<"p", "main">>, t.main) @@ Holding(<<"p", "a", "mod">>, t.gateway) @@ Holding(<<"p", "a", "b">>, t.inner) @@ Holding(<<"p", "a", "c">>, <<>>)
  @@ Holding(<<"p", "a", "n", "y">>, <<One(<<>>, "y")>>) @@ Holding(<<"p", "a", "n", "mod">>, <<Pub(<<>>, <<"single", "y">>)>>)
  @@ Holding(<<"p", "d", "x">>, <<>>) @@ Holding(<<"p", "d", "n", "mod">>, <<>>) @@ Holding(<<"p", "d", "n", "y">>, <<>>) @@ Holding(<<"p", "e">>, <<>>)
  @@ Holding(<<"k", "lib">>, t.package) @@ Holding(<<"k", "s", "t">>, <<>>) @@ Holding(<<"k", "s", "mod">>, t.package) @@ Holding(<<"k", "u">>, <<One(<<>>, "lib")>>)
  @@ Holding(<<"l", "core">>, <<>>) @@ Holding(<<"l", "io">>, <<One(<<>>, "core")>>)
  @@ Present(t.closed, Holding(<<"k", "mod">>, t.package))

LoaderPackages == [n \in {"pkg", "std"} |-> IF n = "pkg" THEN [src |-> <<"k">>, entry |-> <<"k", "lib">>, root |-> TRUE]
                                        ELSE [src |-> <<"l">>, entry |-> <<"l", "core">>, root |-> FALSE]]

LoadTasks == [main : {<<i>> : i \in MainImports} \cup {<<i, j>> : i, j \in MainImports},
              gateway : GatewayExports, inner : InnerImports, package : PackageExports, closed : BOOLEAN]

Loaded(t) == Load!LoadPrograms(Tree(t), LoaderPackages, <<>>, <<<<"p", "main">>>>)
-----------------------------------------------------------------------------
(* What loading promises. *)

Directories(path) == {SubSeq(path, 1, n) : n \in 1..(Len(path) - 1)}

\* A public import of the gateway leads to the file, or to a directory above it.
Leads(tree, gateway, file) ==
  \E k \in DOMAIN tree[gateway].imports :
    LET i == tree[gateway].imports[k]
        named == IF i.items[1] = "multiple" THEN {i.path \o <<n>> : n \in i.items[2]} ELSE {Load!Segments(i)}
    IN i.pub /\ \E path \in named \cup ({i.path} \ {<<>>}) : Load!IsPrefix(Load!Dir(gateway) \o path, file)

\* The outermost gateway between a file and what it imports.
Gates(tree, file, imported) ==
  {dir \in Directories(imported) : Load!HasFile(tree, Load!Gateway(dir)) /\ dir \notin Directories(file)}
Outermost(dirs) == {d \in dirs : \A e \in dirs : Len(d) <= Len(e)}

\* Loading asks the gateway beside the importer or of a package; what lies
\* behind a directory without one is visible.
Asked(tree, file, dir) == Len(dir) = Len(Load!Dir(file)) + 1 \/ dir[1] # file[1]

EntryFiles == {LoaderPackages[n].entry : n \in DOMAIN LoaderPackages}

GatewaysDecide(tree, load) ==
  \A e \in {e \in load.edges : e[2] \notin EntryFiles} : \A dir \in Outermost(Gates(tree, e[1], e[2])) :
    Asked(tree, e[1], dir) => e[2] = Load!Gateway(dir) \/ Leads(tree, Load!Gateway(dir), e[2])

RECURSIVE Reach(_, _)
Reach(load, from) ==
  LET more == from \cup {e[2] : e \in {e \in load.edges : e[1] \in from}}
  IN IF more = from THEN from ELSE Reach(load, more)

LoadedAt(load, file) == CHOOSE k \in DOMAIN load.sources : load.sources[k] = file

\* What a file imports goes before it, unless it imports the file in turn.
DependenciesFirst(load) ==
  \A e \in load.edges :
    LoadedAt(load, e[2]) < LoadedAt(load, e[1]) \/ e[1] \in Reach(load, {e[2]})

LoadedOnce(load) == Cardinality(Load!Range(load.sources)) = Len(load.sources)

LoadsWhatIsVisible(t, load) ==
  load.failed \/ (GatewaysDecide(Tree(t), load) /\ DependenciesFirst(load) /\ LoadedOnce(load))

=============================================================================
