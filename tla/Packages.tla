------------------------------ MODULE Packages -----------------------------
(***************************************************************************)
(* The dependencies of a project: quazi.toml names them, quazi.lock pins   *)
(* them, <out_dir>/deps holds what was fetched.  Every qz command and      *)
(* every analysis of the language server resolves them, with no lock       *)
(* between processes; each step is one git command or one access to a      *)
(* file, and a process may be killed between any two.                      *)
(*                                                                         *)
(* A commit of a repository, or the content a URL serves, is a number that *)
(* grows with each publication.  A package's own dependencies, archives    *)
(* once unpacked and the interfaces of QZI packages are left out.          *)
(***************************************************************************)
EXTENDS Naturals, Sequences, FiniteSets

CONSTANTS
    Order,               \* the names of dependencies, in the manifest's order
    GitUrls, FileUrls,
    Default, Latest,     \* no version asked for; version = "latest"
    Wanted,              \* for each name, the dependencies a manifest may declare
    FirstManifest,
    Colleagues,          \* the manifests that may arrive with a lock from another machine
    Processes,
    Does,                \* the commands each of them runs
    Idle, NoLock, Torn,  \* Torn: a file being written, or left half written
    Absent, NoTree,      \* not in the cache; a clone with nothing checked out
    MaxPublished, MaxChanges, MaxRuns   \* bounds

VARIABLES
    manifest, lock,
    remote,     \* the newest commit or content of each URL
    clone,      \* git/<url>: the commits fetched, the one checked out
    file,       \* <kind>/<url>: the content downloaded
    job,        \* what each process knows
    foreign,    \* a lock came from another machine (history)
    changes, runs

packageVars == <<manifest, lock, remote, clone, file, job, foreign, changes, runs>>
cacheVars == <<clone, file>>
texts == <<manifest, lock>>
history == <<foreign, changes, runs>>

PackageNames == {Order[i] : i \in 1..Len(Order)}
Urls == GitUrls \union FileUrls
Versions == 0..MaxPublished

Clones == [known : Versions, tree : Versions \union {NoTree}]

Dependencies == [url : Urls, sel : {Default, Latest} \union Versions]

PackagesParameters ==
    /\ Order \in Seq(PackageNames) /\ GitUrls \intersect FileUrls = {}
    /\ Wanted \in [PackageNames -> SUBSET Dependencies]
    /\ \A a \in PackageNames : \A d \in Wanted[a] : d.sel = Latest => d.url \in GitUrls
    /\ MaxPublished \in Nat /\ MaxChanges \in Nat /\ MaxRuns \in Nat
    /\ {Default, Latest, NoTree} \intersect Versions = {} /\ Absent \notin Clones

About(S) == UNION {[A -> S] : A \in SUBSET PackageNames}

Manifests == {man \in About(UNION {Wanted[a] : a \in PackageNames}) : \A a \in DOMAIN man : man[a] \in Wanted[a]}
Locks == About([url : Urls, sel : {Default, Latest} \union Versions, pin : Versions])

Commands == {"build", "analyse", "edit"}

CommandParameters ==
    /\ Does \in [Processes -> SUBSET Commands]
    /\ FirstManifest \in Manifests /\ Colleagues \subseteq Manifests

ProcessSteps == {"rewrite", "rewriting", "unlock", "open", "collect", "package", "clone",
           "install", "fetch", "checkout", "head", "download", "verify", "ensure",
           "write", "writing", "ready", "restore", "restoring", "relock", "relocking"}

Jobs == [cmd : Commands, pc : ProcessSteps, man : Manifests, locked : Locks,
         todo : SUBSET PackageNames, res : About(Versions), temp : Versions,
         alone : BOOLEAN,   \* the project was its own so far (history)
         old : [manifest : Manifests, lock : Locks \union {NoLock, Torn}]]

Nothing == [a \in {} |-> 0]

PackagesTypeOK ==
    /\ manifest \in Manifests \union {Torn}
    /\ lock \in Locks \union {NoLock, Torn}
    /\ remote \in [Urls -> Versions]
    /\ clone \in [GitUrls -> {Absent} \union Clones]
    /\ file \in [FileUrls -> {Absent} \union Versions]
    /\ job \in [Processes -> {Idle} \union Jobs]
    /\ foreign \in BOOLEAN
    /\ changes \in 0..MaxChanges /\ runs \in 0..MaxRuns

PackagesInit ==
    /\ manifest = FirstManifest
    /\ lock = NoLock
    /\ remote = [u \in Urls |-> 0]
    /\ clone = [u \in GitUrls |-> Absent]
    /\ file = [u \in FileUrls |-> Absent]
    /\ job = [p \in Processes |-> Idle]
    /\ foreign = FALSE /\ changes = 0 /\ runs = 0

-----------------------------------------------------------------------------
(* What the manifest, the lock and the resolution say of each other. *)

Selector(d) == IF d.url \in GitUrls THEN d.sel ELSE Default

Floats(d) == d.url \in GitUrls /\ d.sel = Latest

\* The lock entry was made for another declaration.
Differs(d, e) ==
    \/ e.url # d.url
    \/ e.sel # Selector(d)
    \/ d.url \in FileUrls /\ d.sel # Default /\ e.pin # d.sel

\* What write_lockfile records.
Entries(man, res) ==
    [a \in DOMAIN man |-> [url |-> man[a].url, sel |-> Selector(man[a]), pin |-> res[a]]]

\* Mutant: the lock is not consulted.
TargetUnlocked(j, a) ==
    LET d == j.man[a] IN
    IF d.sel \in Versions THEN d.sel ELSE clone[d.url].known

\* The first of the commit asked for, the pin, the selector, the default branch.
Target(j, a) ==
    LET d == j.man[a] IN
    IF d.sel = Latest THEN clone[d.url].known
    ELSE IF a \in DOMAIN j.locked THEN j.locked[a].pin
    ELSE IF d.sel = Default THEN clone[d.url].known
    ELSE d.sel

\* The checksum a download must have, Default when any will do.
Checksum(j, a) ==
    IF a \in DOMAIN j.locked THEN j.locked[a].pin ELSE j.man[a].sel

Verified(j, a, content) == Checksum(j, a) \in {Default, content}

NeedsFetch(j, a) == a \notin DOMAIN j.locked \/ Floats(j.man[a])

-----------------------------------------------------------------------------
(* Commands. *)

\* What happens to the project disturbs every command under way.
Disturbed == [p \in Processes |-> IF job[p] = Idle THEN Idle ELSE [job[p] EXCEPT !.alone = FALSE]]

Starts(p, cmd, pc, man) ==
    /\ job[p] = Idle /\ runs < MaxRuns
    /\ runs' = runs + 1
    /\ job' = [Disturbed EXCEPT ![p] =
          [cmd |-> cmd, pc |-> pc, man |-> man, locked |-> Nothing, todo |-> {},
           res |-> Nothing, temp |-> 0, alone |-> \A q \in Processes : job[q] = Idle,
           old |-> IF cmd = "edit" THEN [manifest |-> manifest, lock |-> lock]
                   ELSE [manifest |-> Nothing, lock |-> NoLock]]]
    /\ UNCHANGED <<texts, remote, cacheVars, foreign, changes>>

Begin(p, cmd) == Starts(p, cmd, "open", Nothing)

\* qz add, qz remove: the manifest and the lock are read, then replaced.
BeginEdit(p, man) == manifest # Torn /\ Starts(p, "edit", "rewrite", man)

Add(p, a, d) ==
    /\ manifest # Torn /\ a \notin DOMAIN manifest
    /\ BeginEdit(p, [b \in DOMAIN manifest \union {a} |-> IF b = a THEN d ELSE manifest[b]])

RemoveName(p, a) ==
    /\ manifest # Torn /\ a \in DOMAIN manifest
    /\ BeginEdit(p, [b \in DOMAIN manifest \ {a} |-> manifest[b]])

At(p, pc) == job[p] # Idle /\ job[p].pc = pc

Goes(p, pc) == job' = [job EXCEPT ![p].pc = pc]

\* An error ends the command; qz add and qz remove put both files back.
Fails(p) ==
    IF job[p].cmd = "edit" THEN Goes(p, "restore") ELSE job' = [job EXCEPT ![p] = Idle]

\* fs::write empties the file, then fills it.
Rewrite(p) ==
    /\ At(p, "rewrite") /\ manifest' = Torn /\ Goes(p, "rewriting")
    /\ UNCHANGED <<lock, remote, cacheVars, history>>

Rewritten(p) ==
    /\ At(p, "rewriting") /\ manifest' = job[p].man /\ Goes(p, "unlock")
    /\ UNCHANGED <<lock, remote, cacheVars, history>>

Unlock(p) ==
    /\ At(p, "unlock") /\ lock' = NoLock /\ Goes(p, "open")
    /\ UNCHANGED <<manifest, remote, cacheVars, history>>

Open(p) ==
    /\ At(p, "open")
    /\ IF lock = Torn THEN Fails(p)
       ELSE job' = [job EXCEPT ![p].pc = "collect",
                               ![p].locked = IF lock = NoLock THEN Nothing ELSE lock]
    /\ UNCHANGED <<texts, remote, cacheVars, history>>

\* An analysis writes no lock: it goes straight to the sources.
AfterLast(j) == IF j.cmd = "analyse" THEN "ready" ELSE "ensure"

Collect(p) ==
    /\ At(p, "collect")
    /\ IF manifest = Torn THEN Fails(p)
       ELSE job' = [job EXCEPT ![p].man = manifest, ![p].todo = DOMAIN manifest,
                               ![p].pc = IF DOMAIN manifest = {} THEN AfterLast(job[p]) ELSE "package"]
    /\ UNCHANGED <<texts, remote, cacheVars, history>>

-----------------------------------------------------------------------------
(* One dependency: the first of job[p].todo, in the manifest's order. *)

First(names) ==
    Order[CHOOSE i \in DOMAIN Order : Order[i] \in names /\ \A k \in 1..(i - 1) : Order[k] \notin names]

Now(p) == First(job[p].todo)
Url(p) == job[p].man[Now(p)].url

Resolves(p, version) ==
    LET j == job[p]  left == j.todo \ {Now(p)} IN
    job' = [job EXCEPT
        ![p].res = [a \in DOMAIN j.res \union {Now(p)} |->
                        IF a = Now(p) THEN version ELSE j.res[a]],
        ![p].todo = left, ![p].temp = 0,
        ![p].pc = IF left = {} THEN AfterLast(j) ELSE "package"]

IsLockedElsewise(p) ==
    LET j == job[p] IN Now(p) \in DOMAIN j.locked /\ Differs(j.man[Now(p)], j.locked[Now(p)])

Refuse(p) ==
    /\ At(p, "package") /\ IsLockedElsewise(p) /\ Fails(p)
    /\ UNCHANGED <<texts, remote, cacheVars, history>>

PickGit(p) ==
    /\ At(p, "package") /\ ~IsLockedElsewise(p) /\ Url(p) \in GitUrls
    /\ Goes(p, IF clone[Url(p)] = Absent THEN "clone"
               ELSE IF NeedsFetch(job[p], Now(p)) THEN "fetch" ELSE "checkout")
    /\ UNCHANGED <<texts, remote, cacheVars, history>>

\* git clone --no-checkout into a directory of the process's own.
Clone(p) ==
    /\ At(p, "clone")
    /\ job' = [job EXCEPT ![p].temp = remote[Url(p)], ![p].pc = "install"]
    /\ UNCHANGED <<texts, remote, cacheVars, history>>

\* The first to finish installs its clone, the others drop theirs, or fail
\* when they see it only as they rename.
Install(p) ==
    /\ At(p, "install")
    /\ \/ /\ clone' = IF clone[Url(p)] = Absent
                      THEN [clone EXCEPT ![Url(p)] = [known |-> job[p].temp, tree |-> NoTree]]
                      ELSE clone
          /\ job' = [job EXCEPT ![p].temp = 0, ![p].pc = "checkout"]
       \/ clone[Url(p)] # Absent /\ UNCHANGED clone /\ Fails(p)
    /\ UNCHANGED <<texts, remote, file, history>>

Fetch(p) ==
    /\ At(p, "fetch")
    /\ clone' = [clone EXCEPT ![Url(p)].known = remote[Url(p)]]
    /\ Goes(p, "checkout")
    /\ UNCHANGED <<texts, remote, file, history>>

\* Git knows no commit it has not fetched.
Checkout(p) ==
    /\ At(p, "checkout")
    /\ LET target == Target(job[p], Now(p)) IN
       IF target > clone[Url(p)].known THEN Fails(p) /\ UNCHANGED clone
       ELSE /\ clone' = [clone EXCEPT ![Url(p)].tree = target]
            /\ Goes(p, "head")
    /\ UNCHANGED <<texts, remote, file, history>>

\* Mutant: the revision is asked of the repository (git ls-remote).
ReadRemoteHead(p) ==
    /\ At(p, "head") /\ Resolves(p, remote[Url(p)])
    /\ UNCHANGED <<texts, remote, cacheVars, history>>

\* git rev-parse HEAD, in the tree every process shares.
ReadHead(p) ==
    /\ At(p, "head") /\ Resolves(p, clone[Url(p)].tree)
    /\ UNCHANGED <<texts, remote, cacheVars, history>>

\* Mutant: a file in the cache is taken to be the one locked.
TakeFileUnverified(p) ==
    /\ At(p, "package") /\ ~IsLockedElsewise(p) /\ Url(p) \in FileUrls
    /\ LET content == file[Url(p)] IN
       IF content = Absent THEN Goes(p, "download")
       ELSE Resolves(p, IF Now(p) \in DOMAIN job[p].locked THEN job[p].locked[Now(p)].pin ELSE content)
    /\ UNCHANGED <<texts, remote, cacheVars, history>>

TakeFile(p) ==
    /\ At(p, "package") /\ ~IsLockedElsewise(p) /\ Url(p) \in FileUrls
    /\ LET content == file[Url(p)] IN
       IF content = Absent THEN Goes(p, "download")
       ELSE IF Verified(job[p], Now(p), content) THEN Resolves(p, content)
       ELSE Fails(p)
    /\ UNCHANGED <<texts, remote, cacheVars, history>>

Download(p) ==
    /\ At(p, "download")
    /\ job' = [job EXCEPT ![p].temp = remote[Url(p)], ![p].pc = "verify"]
    /\ UNCHANGED <<texts, remote, cacheVars, history>>

\* Verified before it is renamed into place, over another's download.
Verify(p) ==
    /\ At(p, "verify")
    /\ LET content == job[p].temp IN
       IF Verified(job[p], Now(p), content)
       THEN file' = [file EXCEPT ![Url(p)] = content] /\ Resolves(p, content)
       ELSE Fails(p) /\ UNCHANGED file
    /\ UNCHANGED <<texts, remote, clone, history>>

NetworkFails(p) ==
    /\ \/ At(p, "clone") \/ At(p, "fetch") \/ At(p, "download")
    /\ Fails(p)
    /\ UNCHANGED <<texts, remote, cacheVars, history>>

-----------------------------------------------------------------------------
(* The lockfile, and the end of a command. *)

\* Mutant: a lock that exists is not validated.
EnsureExists(p) ==
    LET j == job[p] IN
    /\ At(p, "ensure")
    /\ Goes(p, IF DOMAIN j.man # {} /\ (lock = NoLock \/ \E a \in DOMAIN j.man : Floats(j.man[a]))
               THEN "write" ELSE "ready")
    /\ UNCHANGED <<texts, remote, cacheVars, history>>

\* Every package is resolved.  With a dependency on "latest" the lock is
\* written again, whatever it holds; else it is validated, if there is one.
Ensure(p) ==
    LET j == job[p] IN
    /\ At(p, "ensure")
    /\ IF DOMAIN j.man = {} THEN Goes(p, "ready")
       ELSE IF lock = NoLock \/ \E a \in DOMAIN j.man : Floats(j.man[a]) THEN Goes(p, "write")
       ELSE IF lock = Torn \/ lock # Entries(j.man, j.res) THEN Fails(p)
       ELSE Goes(p, "ready")
    /\ UNCHANGED <<texts, remote, cacheVars, history>>

WriteLock(p) ==
    /\ At(p, "write") /\ lock' = Torn /\ Goes(p, "writing")
    /\ UNCHANGED <<manifest, remote, cacheVars, history>>

LockWritten(p) ==
    /\ At(p, "writing") /\ lock' = Entries(job[p].man, job[p].res) /\ Goes(p, "ready")
    /\ UNCHANGED <<manifest, remote, cacheVars, history>>

\* The sources of the dependencies are read; the command is over.
Finish(p) ==
    /\ At(p, "ready") /\ job' = [job EXCEPT ![p] = Idle]
    /\ UNCHANGED <<texts, remote, cacheVars, history>>

Restore(p) ==
    /\ At(p, "restore") /\ manifest' = Torn /\ Goes(p, "restoring")
    /\ UNCHANGED <<lock, remote, cacheVars, history>>

ManifestRestored(p) ==
    /\ At(p, "restoring") /\ manifest' = job[p].old.manifest /\ Goes(p, "relock")
    /\ UNCHANGED <<lock, remote, cacheVars, history>>

Relock(p) ==
    /\ At(p, "relock")
    /\ IF job[p].old.lock = NoLock
       THEN lock' = NoLock /\ job' = [job EXCEPT ![p] = Idle]
       ELSE lock' = Torn /\ Goes(p, "relocking")
    /\ UNCHANGED <<manifest, remote, cacheVars, history>>

Relocked(p) ==
    /\ At(p, "relocking") /\ lock' = job[p].old.lock /\ job' = [job EXCEPT ![p] = Idle]
    /\ UNCHANGED <<manifest, remote, cacheVars, history>>

Killed(p) ==
    /\ job[p] # Idle /\ job' = [job EXCEPT ![p] = Idle]
    /\ UNCHANGED <<texts, remote, cacheVars, history>>

-----------------------------------------------------------------------------
(* The user and the world. *)

\* What a user does to the texts disturbs the commands that run.
Touches ==
    /\ changes < MaxChanges /\ changes' = changes + 1
    /\ job' = Disturbed
    /\ UNCHANGED <<remote, cacheVars, runs>>

EditByHand(a, d) ==
    /\ manifest # Torn
    /\ manifest' = [b \in DOMAIN manifest \union {a} |-> IF b = a THEN d ELSE manifest[b]]
    /\ Touches /\ UNCHANGED <<lock, foreign>>

DeleteLock ==
    /\ lock # NoLock /\ lock' = NoLock
    /\ Touches /\ UNCHANGED <<manifest, foreign>>

\* A colleague's manifest and lock arrive with the sources.
Pull(man, pins) ==
    /\ \A a \in DOMAIN man : /\ pins[a] <= remote[man[a].url]
                             /\ man[a].sel \in Versions => pins[a] = man[a].sel
    /\ manifest' = man /\ lock' = Entries(man, pins)
    /\ foreign' = TRUE
    /\ Touches

Publish(u) ==
    /\ remote[u] < MaxPublished
    /\ remote' = [remote EXCEPT ![u] = @ + 1]
    /\ UNCHANGED <<texts, cacheVars, job, history>>

-----------------------------------------------------------------------------

Edit(p) == \E a \in PackageNames : RemoveName(p, a) \/ \E d \in Wanted[a] : Add(p, a, d)

Package(p) ==
    \/ Refuse(p) \/ PickGit(p) \/ Clone(p) \/ Install(p) \/ Fetch(p) \/ Checkout(p)
    \/ ReadHead(p) \/ TakeFile(p) \/ Download(p) \/ Verify(p) \/ NetworkFails(p)

Process(p) ==
    \/ \E cmd \in Does[p] \ {"edit"} : Begin(p, cmd)
    \/ "edit" \in Does[p] /\ Edit(p)
    \/ Rewrite(p) \/ Rewritten(p) \/ Unlock(p) \/ Open(p) \/ Collect(p)
    \/ Package(p)
    \/ Ensure(p) \/ WriteLock(p) \/ LockWritten(p) \/ Finish(p)
    \/ Restore(p) \/ ManifestRestored(p) \/ Relock(p) \/ Relocked(p) \/ Killed(p)

User ==
    \/ \E a \in PackageNames : \E d \in Wanted[a] : EditByHand(a, d)
    \/ DeleteLock
    \/ \E man \in Colleagues : \E pins \in [DOMAIN man -> Versions] : Pull(man, pins)

PackagesNext == (\E p \in Processes : Process(p)) \/ User \/ (\E u \in Urls : Publish(u))

PackagesSpec == PackagesInit /\ [][PackagesNext]_packageVars

-----------------------------------------------------------------------------
(* Properties.  "Alone" is a command no other ran beside, and whose texts   *)
(* nobody touched meanwhile.                                               *)

AtEnd(p) == At(p, "ready") /\ job[p].alone

\* Two declarations of one repository; its one tree cannot serve both.
IsShared(man, a) == \E b \in DOMAIN man \ {a} : man[b].url = man[a].url

\* A command alone that succeeds leaves a lock that holds what it resolved,
\* and what it resolved is the version the manifest names, if it names one:
\* whatever kills, failures, edits and other commands came before.
LockHoldsResolution ==
    \A p \in Processes : AtEnd(p) =>
        LET j == job[p] IN
        /\ j.cmd # "analyse" /\ DOMAIN j.man # {} => lock = Entries(j.man, j.res)
        /\ \A a \in DOMAIN j.man : j.man[a].sel \in Versions /\ j.locked = Nothing =>
               j.res[a] = j.man[a].sel

\* A command alone resolves a locked dependency to its pin, however much its
\* URL has published since, unless the manifest says "latest".
PinsAreResolved ==
    \A p \in Processes : AtEnd(p) =>
        LET j == job[p] IN
        \A a \in DOMAIN j.man \intersect DOMAIN j.locked :
            ~Floats(j.man[a]) => j.res[a] = j.locked[a].pin

\* What a command alone is about to read is what it resolved, unless two of
\* its dependencies are revisions of one repository.
SourcesMatch ==
    \A p \in Processes : AtEnd(p) =>
        LET j == job[p] IN
        \A a \in DOMAIN j.man : ~IsShared(j.man, a) =>
            LET u == j.man[a].url IN
            IF u \in GitUrls THEN clone[u].tree = j.res[a] ELSE file[u] = j.res[a]

\* A lock written on this machine pins commits its clones have: however
\* processes interleave, a locked build needs no network.
LocalPinsAreFetched ==
    lock \notin {NoLock, Torn} /\ ~foreign =>
        \A a \in DOMAIN lock : lock[a].url \in GitUrls =>
            /\ clone[lock[a].url] # Absent
            /\ lock[a].pin <= clone[lock[a].url].known
\* A locked dependency is resolved to its pin, and a clone of this machine has it.
PinsAreKept == PinsAreResolved /\ LocalPinsAreFetched

=============================================================================
