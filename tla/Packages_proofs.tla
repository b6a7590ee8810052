-------------------------- MODULE Packages_proofs ---------------------------
(***************************************************************************)
(* Theorems about module Packages, for any number of processes, names and  *)
(* repositories: every variable keeps its type, a lock written here pins   *)
(* commits its clones have, and what a command alone resolves is its pins, *)
(* is in its lock, and is what its sources are.                            *)
(***************************************************************************)
EXTENDS Packages, WellFoundedInduction, TLAPS

-----------------------------------------------------------------------------
(* Numbers, names and maps. *)

\* A nonempty set of numbers has a least one.
LEMMA LeastNat ==
    ASSUME NEW T, T \subseteq Nat, T # {}
    PROVE  \E x \in T : \A y \in T : x <= y
<1> DEFINE Less == {ss \in Nat \X Nat : ss[1] < ss[2]}
<1>1. IsWellFoundedOn(Less, Nat)
  BY NatLessThanWellFounded, Zenon DEF OpToRel
<1>2. PICK x \in T : \A y \in T : <<y, x>> \notin Less
  BY <1>1, WFMin
<1>3. \A y \in T : ~ (y < x)
  BY <1>2
<1> QED
  BY <1>3

\* The first of some names is one of them.
LEMMA FirstIsOne ==
    ASSUME PackagesParameters, NEW S \in SUBSET PackageNames, S # {}
    PROVE  First(S) \in S
<1> DEFINE Places == {i \in DOMAIN Order : Order[i] \in S}
<1>1. Order \in Seq(PackageNames) /\ DOMAIN Order = 1..Len(Order) /\ Len(Order) \in Nat
  BY DEF PackagesParameters
<1>2. Places \subseteq Nat /\ Places # {}
  BY <1>1 DEF PackageNames
<1>3. PICK i \in Places : \A k \in Places : i <= k
  BY <1>2, LeastNat
<1>4. \A k \in 1..(i - 1) : Order[k] \notin S
  <2> TAKE k \in 1..(i - 1)
  <2>1. k \in DOMAIN Order /\ ~ (i <= k)
    BY <1>1, <1>2, <1>3
  <2> QED
    BY <2>1, <1>3
<1> HIDE DEF Places
<1>5. \E n \in DOMAIN Order : Order[n] \in S /\ \A k \in 1..(n - 1) : Order[k] \notin S
  BY <1>3, <1>4 DEF Places
<1> QED
  BY <1>5 DEF First

\* About(S): the maps from some of the names to S.
LEMMA AboutIs ==
    ASSUME NEW S, NEW f
    PROVE  f \in About(S) <=> DOMAIN f \subseteq PackageNames /\ f \in [DOMAIN f -> S]
  BY DEF About

LEMMA NothingIsAbout == \A S : Nothing \in About(S) /\ DOMAIN Nothing = {}
  BY AboutIs DEF Nothing

LEMMA ManifestsAre ==
    ASSUME PackagesParameters, NEW man
    PROVE  man \in Manifests <=>
             /\ DOMAIN man \subseteq PackageNames /\ man = [a \in DOMAIN man |-> man[a]]
             /\ \A a \in DOMAIN man : man[a] \in Wanted[a]
<1>1. man \in Manifests => man \in [DOMAIN man -> UNION {Wanted[a] : a \in PackageNames}] /\ DOMAIN man \subseteq PackageNames
  BY AboutIs DEF Manifests
<1>2. ASSUME DOMAIN man \subseteq PackageNames, man = [a \in DOMAIN man |-> man[a]],
             \A a \in DOMAIN man : man[a] \in Wanted[a]
      PROVE  man \in Manifests
  <2>1. \A a \in DOMAIN man : man[a] \in UNION {Wanted[b] : b \in PackageNames}
    BY <1>2
  <2>2. man \in [DOMAIN man -> UNION {Wanted[b] : b \in PackageNames}]
    BY <1>2, <2>1
  <2>3. man \in About(UNION {Wanted[b] : b \in PackageNames})
    BY <1>2, <2>2, AboutIs
  <2> QED
    BY <1>2, <2>3 DEF Manifests
<1>3. man \in Manifests => \A a \in DOMAIN man : man[a] \in Wanted[a]
  BY DEF Manifests
<1> QED
  BY <1>1, <1>2, <1>3

LEMMA ManifestGives ==
    ASSUME PackagesParameters, NEW man \in Manifests, NEW a \in DOMAIN man
    PROVE  /\ a \in PackageNames /\ man[a] \in Dependencies /\ man[a].url \in Urls
           /\ man[a].sel \in {Default, Latest} \union Versions
           /\ man[a].sel = Latest => man[a].url \in GitUrls
<1>1. a \in PackageNames /\ man[a] \in Wanted[a]
  BY ManifestsAre
<1>2. Wanted[a] \subseteq Dependencies /\ \A d \in Wanted[a] : d.sel = Latest => d.url \in GitUrls
  BY <1>1 DEF PackagesParameters
<1> QED
  BY <1>1, <1>2 DEF Dependencies

\* What write_lockfile records is a lock.
LEMMA EntriesAreALock ==
    ASSUME PackagesParameters, NEW man \in Manifests, NEW res,
           \A a \in DOMAIN man : res[a] \in Versions
    PROVE  Entries(man, res) \in Locks /\ DOMAIN Entries(man, res) = DOMAIN man
<1>1. DOMAIN Entries(man, res) = DOMAIN man /\ DOMAIN man \subseteq PackageNames
  BY ManifestsAre DEF Entries
<1>2. \A a \in DOMAIN man : [url |-> man[a].url, sel |-> Selector(man[a]), pin |-> res[a]]
          \in [url : Urls, sel : {Default, Latest} \union Versions, pin : Versions]
  BY ManifestGives DEF Selector
<1>3. Entries(man, res) \in [DOMAIN man -> [url : Urls, sel : {Default, Latest} \union Versions, pin : Versions]]
  BY <1>2 DEF Entries
<1> QED
  BY <1>1, <1>3, AboutIs DEF Locks

LEMMA LockGives ==
    ASSUME NEW pins \in Locks, NEW a \in DOMAIN pins
    PROVE  pins[a].url \in Urls /\ pins[a].pin \in Versions /\ a \in PackageNames
<1>1. pins \in [DOMAIN pins -> [url : Urls, sel : {Default, Latest} \union Versions, pin : Versions]]
      /\ DOMAIN pins \subseteq PackageNames
  BY AboutIs DEF Locks
<1> QED
  BY <1>1
-----------------------------------------------------------------------------
(***************************************************************************)
(* The inductive invariant behind TypeOK and LocalPinsAreFetched: what a   *)
(* command has done at each stage, what it knows is in the clones, and     *)
(* clones and URLs only grow.                                              *)
(***************************************************************************)

OneStages == {"package", "clone", "install", "fetch", "checkout", "head", "download", "verify"}

EndStages == {"ensure", "write", "writing", "ready"}

FirstStages == {"rewrite", "rewriting", "unlock", "open", "collect"}

\* What is resolved, and what is left.
Stage(j) ==
    /\ j.pc \in FirstStages => j.res = Nothing
    /\ j.pc \in OneStages => /\ j.todo # {} /\ j.todo \intersect DOMAIN j.res = {}
                             /\ j.todo \union DOMAIN j.res = DOMAIN j.man
    /\ j.pc \in EndStages => DOMAIN j.res = DOMAIN j.man
    /\ DOMAIN j.res \subseteq DOMAIN j.man

UrlOf(j) == j.man[First(j.todo)].url

\* Where the dependency of the turn is, in clones c and at URLs r.
Turn(c, r, j) ==
    /\ j.pc \in {"clone", "install", "fetch", "checkout", "head"} => UrlOf(j) \in GitUrls
    /\ j.pc \in {"download", "verify"} => UrlOf(j) \in FileUrls
    /\ j.pc \in {"fetch", "checkout", "head"} => c[UrlOf(j)] # Absent
    /\ j.pc = "head" => c[UrlOf(j)].tree \in Versions
    /\ j.pc = "install" => j.temp <= r[UrlOf(j)]

Has(c, u, version) == c[u] # Absent /\ version <= c[u].known

\* The clones have what was resolved, and what a lock pins.
Resolved(c, j) == \A a \in DOMAIN j.res : j.man[a].url \in GitUrls => Has(c, j.man[a].url, j.res[a])

Fetched(c, pins) == \A a \in DOMAIN pins : pins[a].url \in GitUrls => Has(c, pins[a].url, pins[a].pin)

Written(pins) == pins \notin {NoLock, Torn}

\* f: a lock came from another machine.
Sound(c, r, f, j) ==
    /\ Stage(j) /\ Turn(c, r, j) /\ Resolved(c, j)
    /\ ~f /\ Written(j.old.lock) => Fetched(c, j.old.lock)

JobsInv == \A p \in Processes : job[p] # Idle => Sound(clone, remote, foreign, job[p])

ClonesInv ==
    \A u \in GitUrls : clone[u] # Absent =>
        /\ clone[u].known <= remote[u]
        /\ clone[u].tree \in Versions => clone[u].tree <= clone[u].known

LockInv == ~foreign /\ Written(lock) => Fetched(clone, lock)

CommandInv == PackagesTypeOK /\ JobsInv /\ ClonesInv /\ LockInv

\* From one step to the next the caches and the world only gain.
Gains ==
    /\ \A u \in GitUrls : clone[u] # Absent =>
         /\ clone'[u] # Absent /\ clone[u].known <= clone'[u].known
         /\ clone[u].tree \in Versions => clone'[u].tree \in Versions
    /\ \A u \in Urls : remote[u] <= remote'[u]
    /\ foreign => foreign'

CacheType(c) == c \in [GitUrls -> {Absent} \union Clones]
RemoteType(r) == r \in [Urls -> Versions]

LEMMA VersionsAreNumbers == ASSUME PackagesParameters PROVE Versions \subseteq Nat
  BY DEF PackagesParameters, Versions

LEMMA CloneGives ==
    ASSUME PackagesParameters, CacheType(clone), NEW u \in GitUrls, clone[u] # Absent
    PROVE  clone[u] \in Clones /\ clone[u].known \in Versions /\ clone[u].tree \in Versions \union {NoTree}
  BY DEF CacheType, Clones

LEMMA JobGives ==
    ASSUME PackagesParameters, NEW j \in Jobs
    PROVE  /\ j.cmd \in Commands /\ j.pc \in ProcessSteps /\ j.man \in Manifests /\ j.locked \in Locks
           /\ j.todo \in SUBSET PackageNames /\ j.res \in About(Versions) /\ j.temp \in Versions
           /\ j.alone \in BOOLEAN /\ j.old.manifest \in Manifests /\ j.old.lock \in Locks \union {NoLock, Torn}
           /\ \A a \in DOMAIN j.res : j.res[a] \in Versions
           /\ DOMAIN j.res \subseteq PackageNames
<1>1. /\ j.cmd \in Commands /\ j.pc \in ProcessSteps /\ j.man \in Manifests /\ j.locked \in Locks
      /\ j.todo \in SUBSET PackageNames /\ j.res \in About(Versions) /\ j.temp \in Versions
      /\ j.alone \in BOOLEAN /\ j.old.manifest \in Manifests /\ j.old.lock \in Locks \union {NoLock, Torn}
  BY DEF Jobs
<1>2. j.res \in [DOMAIN j.res -> Versions] /\ DOMAIN j.res \subseteq PackageNames
  BY <1>1, AboutIs
<1> QED
  BY <1>1, <1>2

\* The dependency of the turn.
LEMMA TurnIsIn ==
    ASSUME PackagesParameters, NEW j \in Jobs, Stage(j), j.pc \in OneStages
    PROVE  /\ First(j.todo) \in j.todo /\ First(j.todo) \in DOMAIN j.man /\ First(j.todo) \notin DOMAIN j.res
           /\ UrlOf(j) \in Urls /\ j.man[First(j.todo)] \in Dependencies
           /\ j.man[First(j.todo)].sel \in {Default, Latest} \union Versions
           /\ j.man[First(j.todo)].sel = Latest => UrlOf(j) \in GitUrls
<1>1. j.todo \in SUBSET PackageNames /\ j.todo # {} /\ j.todo \subseteq DOMAIN j.man /\ j.todo \intersect DOMAIN j.res = {}
  BY JobGives DEF Stage
<1>2. First(j.todo) \in j.todo
  BY <1>1, FirstIsOne
<1> QED
  BY <1>1, <1>2, JobGives, ManifestGives DEF UrlOf

\* What was sound of a command stays so.
LEMMA SoundStays ==
    ASSUME PackagesParameters, CacheType(clone), CacheType(clone'), RemoteType(remote), RemoteType(remote'),
           Gains, NEW j \in Jobs, Sound(clone, remote, foreign, j)
    PROVE  Sound(clone', remote', foreign', j)
<1>1. Stage(j) /\ Turn(clone, remote, j) /\ Resolved(clone, j)
  BY DEF Sound
<1>h. ASSUME NEW u \in GitUrls, NEW v \in Versions, Has(clone, u, v) PROVE Has(clone', u, v)
  <2>1. clone[u] # Absent /\ clone'[u] # Absent /\ clone[u].known <= clone'[u].known /\ v <= clone[u].known
    BY <1>h DEF Has, Gains
  <2>2. clone[u].known \in Nat /\ clone'[u].known \in Nat /\ v \in Nat
    BY <2>1, VersionsAreNumbers DEF CacheType, Clones
  <2> QED
    BY <2>1, <2>2 DEF Has
<1>2. Turn(clone', remote', j)
  <2>1. j.pc \in {"fetch", "checkout", "head"} => clone'[UrlOf(j)] # Absent
    BY <1>1 DEF Turn, Gains
  <2>2. j.pc = "head" => clone'[UrlOf(j)].tree \in Versions
    BY <1>1 DEF Turn, Gains
  <2>3. ASSUME j.pc = "install" PROVE j.temp <= remote'[UrlOf(j)]
    <3>1. UrlOf(j) \in Urls /\ j.temp \in Nat /\ j.temp <= remote[UrlOf(j)]
      BY <1>1, <2>3, JobGives, VersionsAreNumbers DEF Turn, Urls
    <3>2. remote[UrlOf(j)] \in Nat /\ remote'[UrlOf(j)] \in Nat /\ remote[UrlOf(j)] <= remote'[UrlOf(j)]
      BY <3>1, VersionsAreNumbers DEF RemoteType, Gains
    <3> QED
      BY <3>1, <3>2
  <2> QED
    BY <1>1, <2>1, <2>2, <2>3 DEF Turn
<1>3. Resolved(clone', j)
  BY <1>1, <1>h, JobGives DEF Resolved
<1>4. ~foreign' /\ Written(j.old.lock) => Fetched(clone', j.old.lock)
  <2> SUFFICES ASSUME ~foreign', Written(j.old.lock) PROVE Fetched(clone', j.old.lock)
    OBVIOUS
  <2>1. Fetched(clone, j.old.lock) /\ j.old.lock \in Locks
    BY JobGives DEF Sound, Gains, Written
  <2> QED
    BY <2>1, <1>h, LockGives DEF Fetched
<1> QED
  BY <1>1, <1>2, <1>3, <1>4 DEF Sound

\* One command moves, the others stay.
LEMMA JobMoves ==
    ASSUME PackagesParameters, PackagesTypeOK, JobsInv, CacheType(clone'), RemoteType(remote'), Gains,
           NEW p \in Processes, NEW X \in {Idle} \union Jobs, job' = [job EXCEPT ![p] = X],
           X # Idle => Sound(clone', remote', foreign', X)
    PROVE  job' \in [Processes -> {Idle} \union Jobs] /\ JobsInv'
<1>1. job \in [Processes -> {Idle} \union Jobs] /\ CacheType(clone) /\ RemoteType(remote)
  BY DEF PackagesTypeOK, CacheType, RemoteType
<1>2. job' \in [Processes -> {Idle} \union Jobs]
  BY <1>1
<1>3. ASSUME NEW q \in Processes, job'[q] # Idle PROVE Sound(clone', remote', foreign', job'[q])
  <2>1. CASE q = p
    BY <2>1, <1>1, <1>3
  <2>2. CASE q # p
    <3>1. job'[q] = job[q] /\ job[q] \in Jobs
      BY <2>2, <1>1, <1>3
    <3>2. Sound(clone, remote, foreign, job[q])
      BY <3>1, <1>3 DEF JobsInv
    <3> QED
      BY <3>1, <3>2, <1>1, SoundStays
  <2> QED
    BY <2>1, <2>2
<1> QED
  BY <1>2, <1>3 DEF JobsInv

\* What a lock pins stays fetched.
LEMMA FetchedStays ==
    ASSUME PackagesParameters, CacheType(clone), CacheType(clone'), Gains, NEW pins \in Locks, Fetched(clone, pins)
    PROVE  Fetched(clone', pins)
<1>1. ASSUME NEW a \in DOMAIN pins, pins[a].url \in GitUrls PROVE Has(clone', pins[a].url, pins[a].pin)
  <2>1. Has(clone, pins[a].url, pins[a].pin) /\ pins[a].pin \in Versions
    BY <1>1, LockGives DEF Fetched
  <2>2. clone[pins[a].url] # Absent /\ clone'[pins[a].url] # Absent
    BY <1>1, <2>1 DEF Has, Gains
  <2>3. clone[pins[a].url].known \in Nat /\ clone'[pins[a].url].known \in Nat /\ pins[a].pin \in Nat
    BY <1>1, <2>1, <2>2, VersionsAreNumbers DEF CacheType, Clones
  <2> QED
    BY <1>1, <2>1, <2>2, <2>3 DEF Has, Gains
<1> QED
  BY <1>1 DEF Fetched

-----------------------------------------------------------------------------
(* Kinds of steps. *)

MovedTo(j, pc) == [j EXCEPT !.pc = pc]

LEMMA MovedIsAJob ==
    ASSUME NEW j \in Jobs, NEW pc \in ProcessSteps
    PROVE  /\ MovedTo(j, pc) \in Jobs /\ MovedTo(j, pc).pc = pc
           /\ MovedTo(j, pc).cmd = j.cmd /\ MovedTo(j, pc).man = j.man /\ MovedTo(j, pc).locked = j.locked
           /\ MovedTo(j, pc).todo = j.todo /\ MovedTo(j, pc).res = j.res /\ MovedTo(j, pc).temp = j.temp
           /\ MovedTo(j, pc).old = j.old /\ MovedTo(j, pc).alone = j.alone /\ UrlOf(MovedTo(j, pc)) = UrlOf(j)
  BY DEF MovedTo, Jobs, UrlOf

\* A move to a stage is sound if what that stage needs is there.
LEMMA MovedIsSound ==
    ASSUME PackagesParameters, NEW c, NEW r, NEW f, NEW j \in Jobs, NEW pc \in ProcessSteps, Sound(c, r, f, j),
           pc \in FirstStages => j.res = Nothing,
           pc \in OneStages => j.pc \in OneStages,
           pc \in EndStages => DOMAIN j.res = DOMAIN j.man,
           Turn(c, r, MovedTo(j, pc))
    PROVE  Sound(c, r, f, MovedTo(j, pc))
<1>1. Stage(MovedTo(j, pc))
  BY MovedIsAJob DEF Stage, Sound
<1>2. Resolved(c, MovedTo(j, pc))
  BY MovedIsAJob DEF Resolved, Sound
<1> QED
  BY <1>1, <1>2, MovedIsAJob DEF Sound

\* The job of a process at a stage.
LEMMA AtGives ==
    ASSUME CommandInv, NEW p \in Processes, NEW pc, At(p, pc)
    PROVE  job[p] \in Jobs /\ job[p].pc = pc /\ job[p] # Idle /\ Sound(clone, remote, foreign, job[p])
  BY DEF CommandInv, PackagesTypeOK, JobsInv, At

LEMMA GoesIs ==
    ASSUME NEW p \in Processes, NEW pc, Goes(p, pc)
    PROVE  job' = [job EXCEPT ![p] = MovedTo(job[p], pc)]
  BY DEF Goes, MovedTo

\* What a failed command leaves.
AfterFailure(j) == IF j.cmd = "edit" THEN MovedTo(j, "restore") ELSE Idle

LEMMA FailsIs ==
    ASSUME NEW p \in Processes, Fails(p)
    PROVE  job' = [job EXCEPT ![p] = AfterFailure(job[p])]
  BY GoesIs DEF Fails, AfterFailure

LEMMA FailedIsSound ==
    ASSUME PackagesParameters, NEW c, NEW r, NEW f, NEW j \in Jobs, Sound(c, r, f, j)
    PROVE  /\ AfterFailure(j) \in {Idle} \union Jobs
           /\ AfterFailure(j) # Idle => Sound(c, r, f, AfterFailure(j))
<1>1. "restore" \in ProcessSteps /\ "restore" \notin FirstStages \union OneStages \union EndStages
  BY DEF ProcessSteps, FirstStages, OneStages, EndStages
<1>2. MovedTo(j, "restore").pc = "restore" /\ MovedTo(j, "restore") \in Jobs
  BY <1>1, MovedIsAJob
<1>3. Turn(c, r, MovedTo(j, "restore"))
  BY <1>2 DEF Turn
<1>4. Sound(c, r, f, MovedTo(j, "restore"))
  BY <1>1, <1>3, MovedIsSound
<1> QED
  BY <1>2, <1>4 DEF AfterFailure

\* A step that changes one command and what it reports of the rest.
LEMMA Moves ==
    ASSUME PackagesParameters, CommandInv, NEW p \in Processes, NEW X \in {Idle} \union Jobs,
           job' = [job EXCEPT ![p] = X], X # Idle => Sound(clone', remote', foreign', X),
           manifest' \in Manifests \union {Torn}, lock' \in Locks \union {NoLock, Torn},
           CacheType(clone'), UNCHANGED <<remote, history>>,
           file' \in [FileUrls -> {Absent} \union Versions],
           Gains, ClonesInv', LockInv'
    PROVE  CommandInv'
<1>1. RemoteType(remote')
  BY DEF CommandInv, PackagesTypeOK, RemoteType
<1>2. job' \in [Processes -> {Idle} \union Jobs] /\ JobsInv'
  BY <1>1, JobMoves DEF CommandInv
<1> QED
  BY <1>2 DEF CommandInv, PackagesTypeOK, CacheType, history

LEMMA NothingLost ==
    ASSUME PackagesParameters, PackagesTypeOK, UNCHANGED <<remote, clone, foreign>>
    PROVE  Gains /\ CacheType(clone')
<1>1. \A u \in GitUrls : clone[u] # Absent => clone[u].known \in Nat
  BY CloneGives, VersionsAreNumbers DEF PackagesTypeOK, CacheType
<1>2. \A u \in Urls : remote[u] \in Nat
  BY VersionsAreNumbers DEF PackagesTypeOK
<1> QED
  BY <1>1, <1>2 DEF Gains, CacheType, PackagesTypeOK

\* A step that changes one command and nothing else.
LEMMA QuietMove ==
    ASSUME PackagesParameters, CommandInv, NEW p \in Processes, NEW X \in {Idle} \union Jobs,
           job' = [job EXCEPT ![p] = X], X # Idle => Sound(clone, remote, foreign, X),
           UNCHANGED <<texts, remote, cacheVars, history>>
    PROVE  CommandInv'
<1>1. UNCHANGED <<manifest, lock, remote, clone, file, foreign, changes, runs>>
  BY DEF texts, cacheVars, history
<1>2. Gains /\ CacheType(clone')
  BY <1>1, NothingLost DEF CommandInv
<1>3. X # Idle => Sound(clone', remote', foreign', X)
  BY <1>1
<1>4. ClonesInv' /\ LockInv'
  BY <1>1 DEF CommandInv, ClonesInv, LockInv, Fetched, Has, Written
<1>5. /\ manifest' \in Manifests \union {Torn} /\ lock' \in Locks \union {NoLock, Torn}
      /\ file' \in [FileUrls -> {Absent} \union Versions]
  BY <1>1 DEF CommandInv, PackagesTypeOK
<1> QED
  BY <1>1, <1>2, <1>3, <1>4, <1>5, Moves DEF history

LEMMA QuietFailure ==
    ASSUME PackagesParameters, CommandInv, NEW p \in Processes, job[p] # Idle, Fails(p),
           UNCHANGED <<texts, remote, cacheVars, history>>
    PROVE  CommandInv'
<1>1. job[p] \in Jobs /\ Sound(clone, remote, foreign, job[p])
  BY DEF CommandInv, PackagesTypeOK, JobsInv
<1>2. AfterFailure(job[p]) \in {Idle} \union Jobs /\ (AfterFailure(job[p]) # Idle => Sound(clone, remote, foreign, AfterFailure(job[p])))
  BY <1>1, FailedIsSound
<1> QED
  BY <1>2, FailsIs, QuietMove

\* A quiet move to another stage.
LEMMA QuietGo ==
    ASSUME PackagesParameters, CommandInv, NEW p \in Processes, job[p] # Idle, NEW pc \in ProcessSteps, Goes(p, pc),
           UNCHANGED <<texts, remote, cacheVars, history>>,
           pc \in FirstStages => job[p].res = Nothing,
           pc \in OneStages => job[p].pc \in OneStages,
           pc \in EndStages => DOMAIN job[p].res = DOMAIN job[p].man,
           Turn(clone, remote, MovedTo(job[p], pc))
    PROVE  CommandInv'
<1>1. job[p] \in Jobs /\ Sound(clone, remote, foreign, job[p])
  BY DEF CommandInv, PackagesTypeOK, JobsInv
<1>2. MovedTo(job[p], pc) \in Jobs /\ Sound(clone, remote, foreign, MovedTo(job[p], pc))
  BY <1>1, MovedIsAJob, MovedIsSound
<1> QED
  BY <1>2, GoesIs, QuietMove

-----------------------------------------------------------------------------
(* Each action keeps the invariant. *)

LEMMA InitKeeps == ASSUME PackagesParameters, CommandParameters, PackagesInit PROVE CommandInv
<1>1. PackagesTypeOK
  <2>1. 0 \in Versions /\ MaxChanges \in Nat /\ MaxRuns \in Nat
    BY DEF PackagesParameters, Versions
  <2>2. remote \in [Urls -> Versions] /\ clone \in [GitUrls -> {Absent} \union Clones]
        /\ file \in [FileUrls -> {Absent} \union Versions] /\ job \in [Processes -> {Idle} \union Jobs]
    BY <2>1 DEF PackagesInit
  <2>3. manifest \in Manifests /\ lock = NoLock /\ foreign \in BOOLEAN
    BY DEF PackagesInit, CommandParameters
  <2>4. changes \in 0..MaxChanges /\ runs \in 0..MaxRuns
    BY <2>1 DEF PackagesInit
  <2> QED
    BY <2>2, <2>3, <2>4 DEF PackagesTypeOK
<1>2. JobsInv /\ ClonesInv
  BY DEF PackagesInit, JobsInv, ClonesInv
<1>3. LockInv
  BY DEF PackagesInit, LockInv, Written
<1> QED
  BY <1>1, <1>2, <1>3 DEF CommandInv

\* What happens to the project leaves every command what it was but for one field.
LEMMA DisturbedIs ==
    ASSUME PackagesParameters, CommandInv
    PROVE  /\ Disturbed \in [Processes -> {Idle} \union Jobs]
           /\ \A p \in Processes : Disturbed[p] # Idle =>
                /\ job[p] # Idle /\ Disturbed[p] = [job[p] EXCEPT !.alone = FALSE]
                /\ Disturbed[p].alone = FALSE
                /\ Sound(clone, remote, foreign, Disturbed[p])
<1>1. ASSUME NEW p \in Processes, job[p] # Idle
      PROVE  LET d == [job[p] EXCEPT !.alone = FALSE] IN
             d \in Jobs /\ d.alone = FALSE /\ Sound(clone, remote, foreign, d)
  <2> DEFINE d == [job[p] EXCEPT !.alone = FALSE]
  <2>1. job[p] \in Jobs /\ Sound(clone, remote, foreign, job[p])
    BY <1>1 DEF CommandInv, PackagesTypeOK, JobsInv
  <2>2. d \in Jobs /\ d.pc = job[p].pc /\ d.man = job[p].man /\ d.todo = job[p].todo /\ d.res = job[p].res
        /\ d.temp = job[p].temp /\ d.old = job[p].old /\ d.alone = FALSE
    BY <2>1 DEF Jobs
  <2> HIDE DEF d
  <2>3. Stage(d) /\ Turn(clone, remote, d) /\ Resolved(clone, d)
    BY <2>1, <2>2 DEF Sound, Stage, Turn, Resolved, UrlOf
  <2>4. Sound(clone, remote, foreign, d)
    BY <2>1, <2>2, <2>3 DEF Sound
  <2> QED
    BY <2>2, <2>4 DEF d
<1>2. \A p \in Processes : Disturbed[p] = IF job[p] = Idle THEN Idle ELSE [job[p] EXCEPT !.alone = FALSE]
  BY DEF Disturbed
<1> HIDE DEF Disturbed
<1>3. Disturbed \in [Processes -> {Idle} \union Jobs]
  <2>1. \A p \in Processes : Disturbed[p] \in {Idle} \union Jobs
    BY <1>1, <1>2
  <2>2. Disturbed = [p \in Processes |-> Disturbed[p]]
    BY DEF Disturbed
  <2> QED
    BY <2>1, <2>2
<1> QED
  BY <1>1, <1>2, <1>3

\* The job of a command that starts.
Fresh(cmd, pc, man, alone, old) ==
    [cmd |-> cmd, pc |-> pc, man |-> man, locked |-> Nothing, todo |-> {},
     res |-> Nothing, temp |-> 0, alone |-> alone, old |-> old]

LEMMA FreshIsSound ==
    ASSUME PackagesParameters, NEW cmd \in Commands, NEW pc \in FirstStages, NEW man \in Manifests,
           NEW alone \in BOOLEAN,
           NEW old \in [manifest : Manifests, lock : Locks \union {NoLock, Torn}],
           NEW c, NEW r, NEW f, ~f /\ Written(old.lock) => Fetched(c, old.lock)
    PROVE  /\ Fresh(cmd, pc, man, alone, old) \in Jobs
           /\ Fresh(cmd, pc, man, alone, old).alone = alone
           /\ Sound(c, r, f, Fresh(cmd, pc, man, alone, old))
<1> DEFINE j == Fresh(cmd, pc, man, alone, old)
<1>1. /\ j.cmd = cmd /\ j.pc = pc /\ j.man = man /\ j.locked = Nothing /\ j.todo = {} /\ j.res = Nothing
      /\ j.temp = 0 /\ j.alone = alone /\ j.old = old
  BY DEF Fresh
<1>2. pc \in ProcessSteps /\ pc \notin OneStages /\ pc \notin EndStages
      /\ pc \notin {"clone", "install", "fetch", "checkout", "head", "download", "verify"}
  BY DEF FirstStages, OneStages, EndStages, ProcessSteps
<1>3. Nothing \in Locks /\ Nothing \in About(Versions) /\ DOMAIN Nothing = {} /\ 0 \in Versions
  BY NothingIsAbout DEF Locks, PackagesParameters, Versions
<1>4. j \in Jobs
  BY <1>2, <1>3 DEF Fresh, Jobs
<1> HIDE DEF j
<1>5. Stage(j) /\ Turn(c, r, j) /\ Resolved(c, j)
  BY <1>1, <1>2, <1>3 DEF Stage, Turn, Resolved
<1> QED
  BY <1>1, <1>4, <1>5 DEF Sound, j

LEMMA StartsKeeps ==
    ASSUME PackagesParameters, CommandInv, NEW p \in Processes, NEW cmd \in Commands, NEW pc \in FirstStages,
           NEW man \in Manifests, Starts(p, cmd, pc, man), cmd = "edit" => manifest # Torn
    PROVE  CommandInv'
<1> DEFINE old == IF cmd = "edit" THEN [manifest |-> manifest, lock |-> lock]
                  ELSE [manifest |-> Nothing, lock |-> NoLock]
           alone == \A q \in Processes : job[q] = Idle
           X == Fresh(cmd, pc, man, alone, old)
<1>1. job' = [Disturbed EXCEPT ![p] = X] /\ runs' = runs + 1 /\ runs < MaxRuns
      /\ UNCHANGED <<manifest, lock, remote, clone, file, foreign, changes>>
  BY DEF Starts, Fresh, texts, cacheVars
<1>2. old \in [manifest : Manifests, lock : Locks \union {NoLock, Torn}]
  <2>1. Nothing \in Manifests
    BY NothingIsAbout DEF Manifests
  <2>2. cmd = "edit" => manifest \in Manifests
    BY DEF CommandInv, PackagesTypeOK
  <2> QED
    BY <2>1, <2>2 DEF CommandInv, PackagesTypeOK
<1>3. ~foreign /\ Written(old.lock) => Fetched(clone, old.lock)
  BY DEF CommandInv, LockInv, Written
<1>4. X \in Jobs /\ Sound(clone, remote, foreign, X)
  <2>1. alone \in BOOLEAN
    OBVIOUS
  <2> HIDE DEF alone, old
  <2> QED
    BY <1>2, <1>3, <2>1, FreshIsSound
<1> HIDE DEF X
<1>5. PackagesTypeOK'
  <2>1. job' \in [Processes -> {Idle} \union Jobs]
    BY <1>1, <1>4, DisturbedIs
  <2>2. runs' \in 0..MaxRuns
    BY <1>1 DEF CommandInv, PackagesTypeOK, PackagesParameters
  <2> QED
    BY <1>1, <2>1, <2>2 DEF CommandInv, PackagesTypeOK
<1>6. JobsInv'
  <2>1. ASSUME NEW q \in Processes, job'[q] # Idle PROVE Sound(clone, remote, foreign, job'[q])
    <3>1. CASE q = p
      BY <3>1, <1>1, <1>4, DisturbedIs
    <3>2. CASE q # p
      BY <3>2, <2>1, <1>1, DisturbedIs
    <3> QED
      BY <3>1, <3>2
  <2> QED
    BY <1>1, <2>1 DEF JobsInv
<1> QED
  BY <1>1, <1>5, <1>6 DEF CommandInv, ClonesInv, LockInv, Fetched, Has, Written

LEMMA BeginKeeps ==
    ASSUME PackagesParameters, CommandInv, NEW p \in Processes, NEW cmd \in Commands \ {"edit"}, Begin(p, cmd)
    PROVE  CommandInv'
<1>1. Nothing \in Manifests
  BY NothingIsAbout DEF Manifests
<1>2. "open" \in FirstStages
  BY DEF FirstStages
<1> QED
  BY <1>1, <1>2, StartsKeeps DEF Begin

LEMMA EditKeeps ==
    ASSUME PackagesParameters, CommandInv, NEW p \in Processes, NEW a \in PackageNames,
           RemoveName(p, a) \/ \E d \in Wanted[a] : Add(p, a, d)
    PROVE  CommandInv'
<1>0. manifest # Torn /\ manifest \in Manifests
  BY DEF RemoveName, Add, CommandInv, PackagesTypeOK
<1>1. ASSUME NEW man \in Manifests, BeginEdit(p, man) PROVE CommandInv'
  BY <1>1, StartsKeeps DEF BeginEdit, Commands, FirstStages
<1>2. [b \in DOMAIN manifest \ {a} |-> manifest[b]] \in Manifests
  <2>1. \A b \in DOMAIN manifest : manifest[b] \in Wanted[b] /\ b \in PackageNames
    BY <1>0, ManifestsAre
  <2> QED
    BY <2>1, ManifestsAre
<1>3. ASSUME NEW d \in Wanted[a]
      PROVE  [b \in DOMAIN manifest \union {a} |-> IF b = a THEN d ELSE manifest[b]] \in Manifests
  <2>1. \A b \in DOMAIN manifest : manifest[b] \in Wanted[b] /\ b \in PackageNames
    BY <1>0, ManifestsAre
  <2> QED
    BY <2>1, ManifestsAre
<1>4. CASE RemoveName(p, a)
  BY <1>4, <1>1, <1>2 DEF RemoveName
<1>5. CASE \E d \in Wanted[a] : Add(p, a, d)
  BY <1>5, <1>1, <1>3 DEF Add
<1> QED
  BY <1>4, <1>5

\* The texts of the project.
LEMMA TextsKeep ==
    ASSUME PackagesParameters, CommandInv, NEW p \in Processes, NEW pc \in ProcessSteps, job[p] # Idle, Goes(p, pc),
           UNCHANGED <<remote, cacheVars, history>>,
           manifest' \in Manifests \union {Torn}, lock' \in Locks \union {NoLock, Torn},
           ~foreign /\ Written(lock') => Fetched(clone, lock'),
           pc \in FirstStages => job[p].res = Nothing,
           pc \notin OneStages,
           pc \in EndStages => DOMAIN job[p].res = DOMAIN job[p].man
    PROVE  CommandInv'
<1>1. job[p] \in Jobs /\ Sound(clone, remote, foreign, job[p])
  BY DEF CommandInv, PackagesTypeOK, JobsInv
<1>2. Turn(clone, remote, MovedTo(job[p], pc))
  BY <1>1, MovedIsAJob DEF Turn, OneStages
<1>3. MovedTo(job[p], pc) \in Jobs /\ Sound(clone, remote, foreign, MovedTo(job[p], pc))
  BY <1>1, <1>2, MovedIsAJob, MovedIsSound
<1>4. UNCHANGED <<remote, clone, file, foreign, changes, runs>>
  BY DEF cacheVars, history
<1>5. Gains /\ CacheType(clone') /\ file' \in [FileUrls -> {Absent} \union Versions]
  BY <1>4, NothingLost DEF CommandInv, PackagesTypeOK
<1>6. LockInv' /\ ClonesInv'
  BY <1>4 DEF CommandInv, ClonesInv, LockInv, Fetched, Has
<1> QED
  BY <1>3, <1>4, <1>5, <1>6, GoesIs, Moves

LEMMA RewriteKeeps ==
    ASSUME PackagesParameters, CommandInv, NEW p \in Processes, Rewrite(p) \/ Rewritten(p) \/ Unlock(p)
    PROVE  CommandInv'
<1>1. UNCHANGED <<remote, cacheVars, history>>
  BY DEF Rewrite, Rewritten, Unlock, cacheVars, history
<1>2. CASE Rewrite(p)
  <2>1. job[p] \in Jobs /\ job[p].res = Nothing /\ job[p] # Idle /\ lock' = lock /\ manifest' = Torn
    BY <1>2, AtGives DEF Rewrite, Sound, Stage, FirstStages
  <2> QED
    BY <1>1, <1>2, <2>1, TextsKeep DEF Rewrite, CommandInv, PackagesTypeOK, LockInv, ProcessSteps, OneStages, EndStages
<1>3. CASE Rewritten(p)
  <2>1. job[p] \in Jobs /\ job[p].res = Nothing /\ job[p] # Idle /\ lock' = lock /\ manifest' = job[p].man
    BY <1>3, AtGives DEF Rewritten, Sound, Stage, FirstStages
  <2>2. manifest' \in Manifests
    BY <2>1, JobGives
  <2> QED
    BY <1>1, <1>3, <2>1, <2>2, TextsKeep DEF Rewritten, CommandInv, PackagesTypeOK, LockInv, ProcessSteps, OneStages, EndStages
<1>4. CASE Unlock(p)
  <2>1. job[p] \in Jobs /\ job[p].res = Nothing /\ job[p] # Idle /\ lock' = NoLock /\ manifest' = manifest
    BY <1>4, AtGives DEF Unlock, Sound, Stage, FirstStages
  <2> QED
    BY <1>1, <1>4, <2>1, TextsKeep DEF Unlock, CommandInv, PackagesTypeOK, Written, ProcessSteps, OneStages, EndStages
<1> QED
  BY <1>2, <1>3, <1>4

LEMMA RestoreKeeps ==
    ASSUME PackagesParameters, CommandInv, NEW p \in Processes, Restore(p) \/ ManifestRestored(p) \/ Relock(p) \/ Relocked(p)
    PROVE  CommandInv'
<1>1. UNCHANGED <<remote, cacheVars, history>>
  BY DEF Restore, ManifestRestored, Relock, Relocked, cacheVars, history
<1>2. CASE Restore(p)
  <2>1. job[p] \in Jobs /\ job[p] # Idle /\ lock' = lock /\ manifest' = Torn
    BY <1>2, AtGives DEF Restore
  <2> QED
    BY <1>1, <1>2, <2>1, TextsKeep DEF Restore, CommandInv, PackagesTypeOK, LockInv, ProcessSteps, FirstStages, OneStages, EndStages
<1>3. CASE ManifestRestored(p)
  <2>1. job[p] \in Jobs /\ job[p] # Idle /\ lock' = lock /\ manifest' = job[p].old.manifest
    BY <1>3, AtGives DEF ManifestRestored
  <2>2. manifest' \in Manifests
    BY <2>1, JobGives
  <2> QED
    BY <1>1, <1>3, <2>1, <2>2, TextsKeep DEF ManifestRestored, CommandInv, PackagesTypeOK, LockInv, ProcessSteps, FirstStages, OneStages, EndStages
<1>4. ASSUME job' = [job EXCEPT ![p] = Idle], manifest' = manifest, lock' \in {NoLock, job[p].old.lock},
             job[p] \in Jobs, job[p] # Idle
      PROVE  CommandInv'
  <2>1. UNCHANGED <<remote, clone, file, foreign, changes, runs>>
    BY <1>1 DEF cacheVars, history
  <2>2. ~foreign /\ Written(lock') => Fetched(clone, lock')
    BY <1>4 DEF CommandInv, JobsInv, Sound, Written
  <2>3. lock' \in Locks \union {NoLock, Torn} /\ manifest' \in Manifests \union {Torn}
    BY <1>4, JobGives DEF CommandInv, PackagesTypeOK
  <2>4. Gains /\ CacheType(clone') /\ file' \in [FileUrls -> {Absent} \union Versions]
    BY <2>1, NothingLost DEF CommandInv, PackagesTypeOK
  <2>5. LockInv' /\ ClonesInv'
    BY <2>1, <2>2 DEF CommandInv, ClonesInv, LockInv, Fetched, Has
  <2> QED
    BY <1>4, <2>1, <2>3, <2>4, <2>5, Moves DEF history
<1>5. CASE Relock(p)
  <2>1. job[p] \in Jobs /\ job[p] # Idle /\ manifest' = manifest
    BY <1>5, AtGives DEF Relock
  <2>2. CASE job[p].old.lock = NoLock
    BY <1>4, <1>5, <2>1, <2>2 DEF Relock
  <2>3. CASE job[p].old.lock # NoLock
    <3>1. lock' = Torn /\ Goes(p, "relocking")
      BY <1>5, <2>3 DEF Relock
    <3> QED
      BY <1>1, <2>1, <3>1, TextsKeep DEF CommandInv, PackagesTypeOK, Written, ProcessSteps, FirstStages, OneStages, EndStages
  <2> QED
    BY <2>2, <2>3
<1>6. CASE Relocked(p)
  BY <1>4, <1>6, AtGives DEF Relocked
<1> QED
  BY <1>2, <1>3, <1>5, <1>6

LEMMA WriteKeeps ==
    ASSUME PackagesParameters, CommandInv, NEW p \in Processes, WriteLock(p) \/ LockWritten(p)
    PROVE  CommandInv'
<1>1. UNCHANGED <<remote, cacheVars, history>> /\ manifest' = manifest
  BY DEF WriteLock, LockWritten, cacheVars, history
<1>2. CASE WriteLock(p)
  <2>1. job[p] \in Jobs /\ job[p] # Idle /\ lock' = Torn /\ DOMAIN job[p].res = DOMAIN job[p].man
    BY <1>2, AtGives DEF WriteLock, Sound, Stage, EndStages
  <2> QED
    BY <1>1, <1>2, <2>1, TextsKeep DEF WriteLock, CommandInv, PackagesTypeOK, Written, ProcessSteps, FirstStages, OneStages, EndStages
<1>3. CASE LockWritten(p)
  <2>1. /\ job[p] \in Jobs /\ job[p] # Idle /\ lock' = Entries(job[p].man, job[p].res)
        /\ DOMAIN job[p].res = DOMAIN job[p].man /\ Resolved(clone, job[p])
    BY <1>3, AtGives DEF LockWritten, Sound, Stage, EndStages
  <2>2. lock' \in Locks /\ DOMAIN lock' = DOMAIN job[p].man
    BY <2>1, JobGives, EntriesAreALock
  <2>3. Fetched(clone, lock')
    BY <2>1, <2>2 DEF Fetched, Resolved, Entries
  <2> QED
    BY <1>1, <1>3, <2>1, <2>2, <2>3, TextsKeep DEF LockWritten, CommandInv, PackagesTypeOK, ProcessSteps, FirstStages, OneStages, EndStages
<1> QED
  BY <1>2, <1>3

LEMMA OpenKeeps == ASSUME PackagesParameters, CommandInv, NEW p \in Processes, Open(p) PROVE CommandInv'
<1>1. /\ job[p] \in Jobs /\ job[p] # Idle /\ job[p].res = Nothing /\ Sound(clone, remote, foreign, job[p])
      /\ UNCHANGED <<texts, remote, cacheVars, history>>
  BY AtGives DEF Open, Sound, Stage, FirstStages
<1>2. CASE lock = Torn
  BY <1>1, <1>2, QuietFailure DEF Open
<1>3. CASE lock # Torn
  <2> DEFINE X == [job[p] EXCEPT !.pc = "collect", !.locked = IF lock = NoLock THEN Nothing ELSE lock]
  <2>1. job' = [job EXCEPT ![p] = X]
    BY <1>3 DEF Open
  <2>2. (IF lock = NoLock THEN Nothing ELSE lock) \in Locks
    BY <1>3, NothingIsAbout DEF CommandInv, PackagesTypeOK, Locks
  <2>3. /\ X \in Jobs /\ X.pc = "collect" /\ X.man = job[p].man /\ X.todo = job[p].todo /\ X.res = Nothing
        /\ X.old = job[p].old
    BY <1>1, <2>2 DEF Jobs, ProcessSteps
  <2> HIDE DEF X
  <2>4. Stage(X) /\ Turn(clone, remote, X) /\ Resolved(clone, X)
    BY <2>3, NothingIsAbout DEF Stage, Turn, Resolved, OneStages, EndStages
  <2>5. Sound(clone, remote, foreign, X)
    BY <1>1, <2>3, <2>4 DEF Sound
  <2> QED
    BY <1>1, <2>1, <2>3, <2>5, QuietMove
<1> QED
  BY <1>2, <1>3

LEMMA AfterLastIs == \A j : AfterLast(j) \in EndStages /\ AfterLast(j) \in {"ready", "ensure"} /\ AfterLast(j) \in ProcessSteps
  BY DEF AfterLast, EndStages, ProcessSteps

LEMMA CollectKeeps == ASSUME PackagesParameters, CommandInv, NEW p \in Processes, Collect(p) PROVE CommandInv'
<1>1. /\ job[p] \in Jobs /\ job[p] # Idle /\ job[p].res = Nothing /\ Sound(clone, remote, foreign, job[p])
      /\ UNCHANGED <<texts, remote, cacheVars, history>>
  BY AtGives DEF Collect, Sound, Stage, FirstStages
<1>2. CASE manifest = Torn
  BY <1>1, <1>2, QuietFailure DEF Collect
<1>3. CASE manifest # Torn
  <2> DEFINE pc == IF DOMAIN manifest = {} THEN AfterLast(job[p]) ELSE "package"
             X == [job[p] EXCEPT !.man = manifest, !.todo = DOMAIN manifest, !.pc = pc]
  <2>1. job' = [job EXCEPT ![p] = X]
    BY <1>3 DEF Collect
  <2>2. manifest \in Manifests /\ DOMAIN manifest \in SUBSET PackageNames
    BY <1>3, ManifestsAre DEF CommandInv, PackagesTypeOK
  <2>3. pc \in ProcessSteps /\ (pc = "package" \/ (pc \in {"ready", "ensure"} /\ DOMAIN manifest = {}))
        /\ (pc = "package" => DOMAIN manifest # {})
    BY AfterLastIs DEF ProcessSteps
  <2> HIDE DEF pc
  <2>4. /\ X \in Jobs /\ X.pc = pc /\ X.man = manifest /\ X.todo = DOMAIN manifest /\ X.res = Nothing
        /\ X.old = job[p].old
    BY <1>1, <2>2, <2>3 DEF Jobs
  <2> HIDE DEF X
  <2>5. Stage(X) /\ Turn(clone, remote, X) /\ Resolved(clone, X)
    BY <2>3, <2>4, NothingIsAbout DEF Stage, Turn, Resolved, OneStages, EndStages, FirstStages
  <2>6. Sound(clone, remote, foreign, X)
    BY <1>1, <2>4, <2>5 DEF Sound
  <2> QED
    BY <1>1, <2>1, <2>4, <2>6, QuietMove
<1> QED
  BY <1>2, <1>3

\* A command with the dependency of its turn resolved.
Taken(j, version) ==
    [j EXCEPT !.res = [a \in DOMAIN j.res \union {First(j.todo)} |->
                           IF a = First(j.todo) THEN version ELSE j.res[a]],
              !.todo = j.todo \ {First(j.todo)}, !.temp = 0,
              !.pc = IF j.todo \ {First(j.todo)} = {} THEN AfterLast(j) ELSE "package"]

LEMMA ResolvesIs ==
    ASSUME NEW p \in Processes, NEW version, Resolves(p, version)
    PROVE  job' = [job EXCEPT ![p] = Taken(job[p], version)]
  BY DEF Resolves, Taken, Now

LEMMA TakenIs ==
    ASSUME PackagesParameters, NEW j \in Jobs, Stage(j), j.pc \in OneStages, NEW version \in Versions
    PROVE  LET X == Taken(j, version)  n == First(j.todo) IN
           /\ X \in Jobs /\ X.cmd = j.cmd /\ X.man = j.man /\ X.locked = j.locked /\ X.old = j.old /\ X.alone = j.alone
           /\ X.todo = j.todo \ {n} /\ DOMAIN X.res = DOMAIN j.res \union {n} /\ n \notin DOMAIN j.res
           /\ X.res[n] = version /\ \A a \in DOMAIN j.res : X.res[a] = j.res[a]
           /\ X.pc \in {"ready", "ensure", "package"} /\ (X.pc = "package" <=> X.todo # {})
<1> DEFINE X == Taken(j, version)
           n == First(j.todo)
           res == [a \in DOMAIN j.res \union {n} |-> IF a = n THEN version ELSE j.res[a]]
           pc == IF j.todo \ {n} = {} THEN AfterLast(j) ELSE "package"
<1>1. n \in j.todo /\ n \notin DOMAIN j.res /\ j.todo \in SUBSET PackageNames
  BY TurnIsIn, JobGives
<1>2. res \in About(Versions)
  <2>1. \A a \in DOMAIN j.res : j.res[a] \in Versions
    BY JobGives
  <2>2. DOMAIN j.res \subseteq PackageNames
    BY JobGives
  <2>3. res \in [DOMAIN res -> Versions] /\ DOMAIN res \subseteq PackageNames
    BY <1>1, <2>1, <2>2
  <2> QED
    BY <2>3, AboutIs
<1>3. pc \in ProcessSteps /\ pc \in {"ready", "ensure", "package"} /\ (pc = "package" <=> j.todo \ {n} # {})
  BY AfterLastIs DEF ProcessSteps
<1>4. 0 \in Versions
  BY DEF PackagesParameters, Versions
<1>5. X = [j EXCEPT !.res = res, !.todo = j.todo \ {n}, !.temp = 0, !.pc = pc]
  BY DEF Taken
<1> HIDE DEF pc, X
<1>6. /\ X \in Jobs /\ X.cmd = j.cmd /\ X.man = j.man /\ X.locked = j.locked /\ X.old = j.old /\ X.alone = j.alone
      /\ X.todo = j.todo \ {n} /\ X.pc = pc /\ X.res = res
  <2> HIDE DEF res, n
  <2> QED
    BY <1>1, <1>2, <1>3, <1>4, <1>5 DEF Jobs
<1>7. DOMAIN X.res = DOMAIN j.res \union {n} /\ X.res[n] = version /\ \A a \in DOMAIN j.res : X.res[a] = j.res[a]
  BY <1>1, <1>6
<1> QED
  BY <1>1, <1>3, <1>6, <1>7 DEF X

LEMMA TakenIsSound ==
    ASSUME PackagesParameters, NEW c, NEW r, NEW f, NEW j \in Jobs, Sound(c, r, f, j), j.pc \in OneStages,
           NEW version \in Versions, UrlOf(j) \in GitUrls => Has(c, UrlOf(j), version)
    PROVE  Taken(j, version) \in Jobs /\ Sound(c, r, f, Taken(j, version))
<1> DEFINE X == Taken(j, version)
           n == First(j.todo)
<1>0. Stage(j) /\ Resolved(c, j)
  BY DEF Sound
<1>1. /\ X \in Jobs /\ X.man = j.man /\ X.old = j.old
      /\ X.todo = j.todo \ {n} /\ DOMAIN X.res = DOMAIN j.res \union {n} /\ n \notin DOMAIN j.res
      /\ X.res[n] = version /\ \A a \in DOMAIN j.res : X.res[a] = j.res[a]
      /\ X.pc \in {"ready", "ensure", "package"} /\ (X.pc = "package" <=> X.todo # {})
  BY <1>0, TakenIs
<1>2. /\ j.todo # {} /\ j.todo \intersect DOMAIN j.res = {} /\ j.todo \union DOMAIN j.res = DOMAIN j.man
      /\ n \in j.todo
  BY <1>0, TurnIsIn DEF Stage
<1> HIDE DEF X, n
<1>3. Stage(X)
  BY <1>1, <1>2 DEF Stage, FirstStages, OneStages, EndStages
<1>4. Turn(c, r, X)
  BY <1>1 DEF Turn
<1>5. Resolved(c, X)
  <2>1. X.man[n].url = UrlOf(j)
    BY <1>1 DEF UrlOf, n
  <2> QED
    BY <1>0, <1>1, <2>1 DEF Resolved
<1> QED
  BY <1>1, <1>3, <1>4, <1>5 DEF Sound, X

\* The stages at a dependency.
LEMMA AtOne ==
    ASSUME PackagesParameters, CommandInv, NEW p \in Processes, NEW pc \in OneStages, At(p, pc)
    PROVE  /\ job[p] \in Jobs /\ job[p] # Idle /\ job[p].pc = pc /\ Sound(clone, remote, foreign, job[p])
           /\ Stage(job[p]) /\ Turn(clone, remote, job[p])
           /\ Url(p) = UrlOf(job[p]) /\ UrlOf(job[p]) \in Urls
           /\ Now(p) \in DOMAIN job[p].man /\ job[p].man[Now(p)].url = UrlOf(job[p])
           /\ job[p].man[Now(p)].sel \in {Default, Latest} \union Versions
           /\ job[p].man[Now(p)].sel = Latest => UrlOf(job[p]) \in GitUrls
<1>1. /\ job[p] \in Jobs /\ job[p] # Idle /\ job[p].pc = pc /\ Sound(clone, remote, foreign, job[p])
      /\ Stage(job[p]) /\ Turn(clone, remote, job[p])
  BY AtGives DEF Sound
<1> QED
  BY <1>1, TurnIsIn DEF Url, Now, UrlOf

LEMMA PickKeeps ==
    ASSUME PackagesParameters, CommandInv, NEW p \in Processes, Refuse(p) \/ PickGit(p) \/ NetworkFails(p)
    PROVE  CommandInv'
<1>1. CASE Refuse(p) \/ NetworkFails(p)
  BY <1>1, QuietFailure DEF Refuse, NetworkFails, At
<1>2. CASE PickGit(p)
  <2> DEFINE pc == IF clone[Url(p)] = Absent THEN "clone"
                   ELSE IF NeedsFetch(job[p], Now(p)) THEN "fetch" ELSE "checkout"
  <2>1. At(p, "package") /\ Goes(p, pc) /\ Url(p) \in GitUrls /\ UNCHANGED <<texts, remote, cacheVars, history>>
    BY <1>2 DEF PickGit
  <2>2. job[p] \in Jobs /\ job[p] # Idle /\ job[p].pc \in OneStages /\ Url(p) = UrlOf(job[p])
    BY <2>1, AtOne DEF OneStages
  <2>3. pc \in {"clone", "fetch", "checkout"} /\ (pc # "clone" => clone[UrlOf(job[p])] # Absent)
    BY <2>2
  <2> HIDE DEF pc
  <2>4. pc \in ProcessSteps /\ pc \in OneStages /\ pc \notin FirstStages /\ pc \notin EndStages
    BY <2>3 DEF ProcessSteps, OneStages, FirstStages, EndStages
  <2>5. Turn(clone, remote, MovedTo(job[p], pc))
    BY <2>1, <2>2, <2>3, <2>4, MovedIsAJob DEF Turn
  <2> QED
    BY <2>1, <2>2, <2>4, <2>5, QuietGo
<1> QED
  BY <1>1, <1>2

LEMMA FetchingKeeps ==
    ASSUME PackagesParameters, CommandInv, NEW p \in Processes, Clone(p) \/ Download(p)
    PROVE  CommandInv'
<1> DEFINE next == IF At(p, "clone") THEN "install" ELSE "verify"
           X == [job[p] EXCEPT !.temp = remote[Url(p)], !.pc = next]
<1>1. job' = [job EXCEPT ![p] = X] /\ UNCHANGED <<texts, remote, cacheVars, history>>
      /\ (At(p, "clone") \/ At(p, "download"))
  <2>1. CASE Clone(p)
    BY <2>1 DEF Clone
  <2>2. CASE Download(p)
    <3>1. ~ At(p, "clone")
      BY <2>2 DEF Download, At
    <3> QED
      BY <2>2, <3>1 DEF Download
  <2> QED
    BY <2>1, <2>2
<1>2. /\ job[p] \in Jobs /\ job[p] # Idle /\ Sound(clone, remote, foreign, job[p]) /\ Stage(job[p])
      /\ job[p].pc \in OneStages /\ Url(p) = UrlOf(job[p]) /\ UrlOf(job[p]) \in Urls
      /\ (At(p, "clone") => UrlOf(job[p]) \in GitUrls) /\ (~ At(p, "clone") => UrlOf(job[p]) \in FileUrls)
  BY <1>1, AtOne DEF OneStages, Turn
<1>3. remote[Url(p)] \in Versions /\ remote[Url(p)] \in Nat
  BY <1>2, VersionsAreNumbers DEF CommandInv, PackagesTypeOK
<1>4. next \in {"install", "verify"} /\ next \in ProcessSteps /\ (next = "install" <=> At(p, "clone"))
  BY DEF ProcessSteps
<1> HIDE DEF next
<1>5. /\ X \in Jobs /\ X.pc = next /\ X.man = job[p].man /\ X.todo = job[p].todo /\ X.res = job[p].res
      /\ X.old = job[p].old /\ X.temp = remote[Url(p)]
  BY <1>2, <1>3, <1>4 DEF Jobs
<1> HIDE DEF X
<1>6. Stage(X) /\ Resolved(clone, X)
  BY <1>2, <1>4, <1>5 DEF Sound, Stage, Resolved, FirstStages, OneStages, EndStages
<1>7. Turn(clone, remote, X)
  <2>1. UrlOf(X) = UrlOf(job[p])
    BY <1>5 DEF UrlOf
  <2>2. X.temp <= remote[UrlOf(X)]
    BY <1>2, <1>3, <1>5, <2>1
  <2> QED
    BY <1>2, <1>4, <1>5, <2>1, <2>2 DEF Turn
<1> QED
  BY <1>1, <1>2, <1>5, <1>6, <1>7, QuietMove DEF Sound

\* A step at one of the clones that loses nothing.
LEMMA CloneGains ==
    ASSUME PackagesParameters, CommandInv, NEW u \in GitUrls, NEW entry \in Clones,
           clone' = [clone EXCEPT ![u] = entry], UNCHANGED <<remote, foreign>>,
           clone[u] # Absent => /\ clone[u].known <= entry.known
                                /\ clone[u].tree \in Versions => entry.tree \in Versions
    PROVE  Gains /\ CacheType(clone') /\ RemoteType(remote') /\ clone'[u] = entry /\ entry # Absent
<1>1. CacheType(clone) /\ CacheType(clone') /\ RemoteType(remote)
  BY DEF CommandInv, PackagesTypeOK, CacheType, RemoteType
<1>2. clone'[u] = entry /\ entry # Absent
  BY <1>1 DEF CacheType, PackagesParameters
<1>3. ASSUME NEW v \in GitUrls, clone[v] # Absent
      PROVE  /\ clone'[v] # Absent /\ clone[v].known <= clone'[v].known
             /\ clone[v].tree \in Versions => clone'[v].tree \in Versions
  <2>1. CASE v = u
    BY <1>2, <1>3, <2>1
  <2>2. CASE v # u
    <3>1. clone'[v] = clone[v] /\ clone[v].known \in Nat
      BY <1>1, <1>3, <2>2, CloneGives, VersionsAreNumbers DEF CacheType
    <3> QED
      BY <1>3, <3>1
  <2> QED
    BY <2>1, <2>2
<1>4. \A v \in Urls : remote[v] <= remote'[v]
  BY <1>1, VersionsAreNumbers DEF RemoteType
<1> QED
  BY <1>1, <1>2, <1>3, <1>4 DEF Gains

LEMMA CloneMove ==
    ASSUME PackagesParameters, CommandInv, NEW p \in Processes, NEW u \in GitUrls, NEW entry \in Clones,
           clone' = [clone EXCEPT ![u] = entry],
           NEW X \in {Idle} \union Jobs, job' = [job EXCEPT ![p] = X], X # Idle => Sound(clone', remote, foreign, X),
           UNCHANGED <<texts, remote, file, history>>,
           entry.known <= remote[u], entry.tree \in Versions => entry.tree <= entry.known,
           clone[u] # Absent => /\ clone[u].known <= entry.known
                                /\ clone[u].tree \in Versions => entry.tree \in Versions
    PROVE  CommandInv'
<1>1. UNCHANGED <<manifest, lock, remote, file, foreign, changes, runs>>
  BY DEF texts, history
<1>2. CacheType(clone) /\ CacheType(clone') /\ Gains
  BY <1>1, CloneGains DEF CommandInv, PackagesTypeOK, CacheType
<1>3. ClonesInv'
  <2>1. ASSUME NEW v \in GitUrls, clone'[v] # Absent
        PROVE  /\ clone'[v].known <= remote'[v]
               /\ clone'[v].tree \in Versions => clone'[v].tree <= clone'[v].known
    <3>1. CASE v = u
      BY <1>1, <1>2, <3>1 DEF CacheType
    <3>2. CASE v # u
      BY <1>1, <1>2, <2>1, <3>2 DEF CacheType, CommandInv, ClonesInv
    <3> QED
      BY <3>1, <3>2
  <2> QED
    BY <2>1 DEF ClonesInv
<1>4. LockInv'
  <2>1. ~foreign /\ Written(lock) => lock \in Locks /\ Fetched(clone, lock)
    BY DEF CommandInv, PackagesTypeOK, LockInv, Written
  <2>2. ~foreign /\ Written(lock) => Fetched(clone', lock)
    BY <1>2, <2>1, FetchedStays
  <2> QED
    BY <1>1, <2>2 DEF LockInv
<1>5. /\ manifest' \in Manifests \union {Torn} /\ lock' \in Locks \union {NoLock, Torn}
      /\ file' \in [FileUrls -> {Absent} \union Versions]
  BY <1>1 DEF CommandInv, PackagesTypeOK
<1>6. X # Idle => Sound(clone', remote', foreign', X)
  BY <1>1
<1> QED
  BY <1>1, <1>2, <1>3, <1>4, <1>5, <1>6, Moves DEF history

\* What a clone at the turn is.
LEMMA CloneAtTurn ==
    ASSUME PackagesParameters, CommandInv, NEW p \in Processes, NEW pc \in {"fetch", "checkout", "head"}, At(p, pc)
    PROVE  /\ Url(p) \in GitUrls /\ clone[Url(p)] # Absent /\ clone[Url(p)] \in Clones
           /\ clone[Url(p)].known \in Versions /\ clone[Url(p)].known <= remote[Url(p)]
           /\ clone[Url(p)].tree \in Versions => clone[Url(p)].tree <= clone[Url(p)].known
           /\ remote[Url(p)] \in Versions
<1>1. Url(p) \in GitUrls /\ clone[Url(p)] # Absent
  BY AtOne DEF OneStages, Turn
<1> QED
  BY <1>1, CloneGives DEF CommandInv, PackagesTypeOK, CacheType, ClonesInv, Urls

LEMMA InstallKeeps == ASSUME PackagesParameters, CommandInv, NEW p \in Processes, Install(p) PROVE CommandInv'
<1> DEFINE j == job[p]
           u == Url(p)
           X == [job[p] EXCEPT !.temp = 0, !.pc = "checkout"]
<1>1. /\ At(p, "install") /\ j \in Jobs /\ j # Idle /\ j.pc = "install" /\ Sound(clone, remote, foreign, j)
      /\ Stage(j) /\ u = UrlOf(j) /\ u \in GitUrls /\ j.temp <= remote[u]
      /\ UNCHANGED <<texts, remote, file, history>>
  BY AtOne DEF Install, OneStages, Turn
<1>2. CASE clone[u] # Absent /\ UNCHANGED clone /\ Fails(p)
  BY <1>1, <1>2, QuietFailure DEF cacheVars
<1>3. CASE /\ clone' = IF clone[u] = Absent THEN [clone EXCEPT ![u] = [known |-> j.temp, tree |-> NoTree]] ELSE clone
           /\ job' = [job EXCEPT ![p].temp = 0, ![p].pc = "checkout"]
  <2>1. job' = [job EXCEPT ![p] = X]
    BY <1>3
  <2>2. X \in Jobs /\ X.pc = "checkout" /\ X.man = j.man /\ X.todo = j.todo /\ X.res = j.res /\ X.old = j.old
    <3>1. 0 \in Versions /\ "checkout" \in ProcessSteps
      BY DEF PackagesParameters, Versions, ProcessSteps
    <3> QED
      BY <1>1, <3>1 DEF Jobs
  <2> HIDE DEF X
  <2>3. Stage(X)
    BY <1>1, <2>2 DEF Stage, FirstStages, OneStages, EndStages
  <2>4. ASSUME NEW c, c[u] # Absent, Sound(c, remote, foreign, j) PROVE Sound(c, remote, foreign, X)
    <3>1. Turn(c, remote, X)
      BY <1>1, <2>2, <2>4 DEF Turn, UrlOf
    <3>2. Resolved(c, X)
      BY <2>2, <2>4 DEF Sound, Resolved
    <3> QED
      BY <2>2, <2>3, <2>4, <3>1, <3>2 DEF Sound
  <2>5. CASE clone[u] # Absent
    <3>1. UNCHANGED <<texts, remote, cacheVars, history>>
      BY <1>1, <1>3, <2>5 DEF cacheVars
    <3> QED
      BY <1>1, <2>1, <2>2, <2>4, <2>5, <3>1, QuietMove
  <2>6. CASE clone[u] = Absent
    <3> DEFINE entry == [known |-> j.temp, tree |-> NoTree]
    <3>1. clone' = [clone EXCEPT ![u] = entry]
      BY <1>3, <2>6
    <3>2. entry \in Clones /\ entry.known <= remote[u] /\ entry.tree \notin Versions
      BY <1>1, JobGives DEF Clones, PackagesParameters
    <3> HIDE DEF entry
    <3>3. UNCHANGED <<remote, foreign>>
      BY <1>1 DEF history
    <3>4. Gains /\ CacheType(clone') /\ RemoteType(remote') /\ clone'[u] # Absent
      BY <1>1, <2>6, <3>1, <3>2, <3>3, CloneGains
    <3>5. Sound(clone', remote', foreign', j)
      BY <1>1, <3>4, SoundStays DEF CommandInv, PackagesTypeOK, CacheType, RemoteType
    <3>6. Sound(clone', remote, foreign, X)
      BY <2>4, <3>3, <3>4, <3>5
    <3> QED
      BY <1>1, <2>1, <2>2, <2>6, <3>1, <3>2, <3>6, CloneMove
  <2> QED
    BY <2>5, <2>6
<1> QED
  BY <1>2, <1>3 DEF Install

\* A move from a clone at the turn to another stage there.
LEMMA CloneGo ==
    ASSUME PackagesParameters, CommandInv, NEW p \in Processes, NEW pc \in {"fetch", "checkout"}, At(p, pc),
           NEW next \in {"checkout", "head"}, Goes(p, next), NEW entry \in Clones,
           clone' = [clone EXCEPT ![Url(p)] = entry], UNCHANGED <<texts, remote, file, history>>,
           clone[Url(p)].known <= entry.known, entry.known <= remote[Url(p)],
           entry.tree \in Versions => entry.tree <= entry.known,
           clone[Url(p)].tree \in Versions => entry.tree \in Versions,
           next = "head" => entry.tree \in Versions
    PROVE  CommandInv'
<1> DEFINE j == job[p]
           u == Url(p)
<1>1. /\ j \in Jobs /\ j # Idle /\ j.pc \in OneStages /\ Sound(clone, remote, foreign, j) /\ u = UrlOf(j) /\ u \in GitUrls
  BY AtOne, CloneAtTurn DEF OneStages
<1>2. UNCHANGED <<remote, foreign>>
  BY DEF history
<1>3. Gains /\ CacheType(clone') /\ RemoteType(remote') /\ clone'[u] # Absent /\ clone'[u] = entry
  BY <1>1, <1>2, CloneGains
<1>4. Sound(clone', remote, foreign, j)
  BY <1>1, <1>2, <1>3, SoundStays DEF CommandInv, PackagesTypeOK, CacheType, RemoteType
<1>5. next \in ProcessSteps /\ next \in OneStages /\ next \notin FirstStages /\ next \notin EndStages
  BY DEF ProcessSteps, OneStages, FirstStages, EndStages
<1>6. Turn(clone', remote, MovedTo(j, next))
  BY <1>1, <1>3, <1>5, MovedIsAJob DEF Turn
<1>7. MovedTo(j, next) \in Jobs /\ Sound(clone', remote, foreign, MovedTo(j, next))
  BY <1>1, <1>4, <1>5, <1>6, MovedIsAJob, MovedIsSound
<1> QED
  BY <1>1, <1>7, GoesIs, CloneMove

LEMMA FetchKeeps == ASSUME PackagesParameters, CommandInv, NEW p \in Processes, Fetch(p) PROVE CommandInv'
<1> DEFINE u == Url(p)
           entry == [clone[u] EXCEPT !.known = remote[u]]
<1>1. At(p, "fetch") /\ clone' = [clone EXCEPT ![u] = entry] /\ Goes(p, "checkout")
      /\ UNCHANGED <<texts, remote, file, history>>
  BY DEF Fetch
<1>2. /\ u \in GitUrls /\ clone[u] # Absent /\ clone[u] \in Clones /\ clone[u].known \in Versions
      /\ clone[u].known <= remote[u] /\ remote[u] \in Versions
      /\ clone[u].tree \in Versions => clone[u].tree <= clone[u].known
  BY <1>1, CloneAtTurn
<1>3. entry \in Clones /\ entry.known = remote[u] /\ entry.tree = clone[u].tree
  BY <1>2 DEF Clones
<1>4. remote[u] \in Nat /\ clone[u].known \in Nat /\ Versions \subseteq Nat
  BY <1>2, VersionsAreNumbers
<1> HIDE DEF entry, u
<1>5. remote[u] <= remote[u]
  BY <1>4
<1>6. ASSUME entry.tree \in Versions PROVE entry.tree <= entry.known
  <2>1. entry.tree \in Nat /\ entry.tree <= clone[u].known /\ entry.known = remote[u]
    BY <1>2, <1>3, <1>4, <1>6
  <2> QED
    BY <1>2, <1>4, <2>1
<1> QED
  BY <1>1, <1>2, <1>3, <1>5, <1>6, CloneGo DEF u

LEMMA TargetIs ==
    ASSUME PackagesParameters, CommandInv, NEW p \in Processes, At(p, "checkout")
    PROVE  Target(job[p], Now(p)) \in Versions
<1> DEFINE j == job[p]
           a == Now(p)
<1>1. /\ j \in Jobs /\ a \in DOMAIN j.man /\ j.man[a].url = Url(p) /\ j.man[a].sel \in {Default, Latest} \union Versions
  BY AtOne DEF OneStages
<1>2. clone[Url(p)].known \in Versions
  BY CloneAtTurn
<1>3. a \in DOMAIN j.locked => j.locked[a].pin \in Versions
  BY <1>1, JobGives, LockGives
<1> HIDE DEF j, a
<1> QED
  BY <1>1, <1>2, <1>3 DEF Target, j, a

LEMMA CheckoutKeeps == ASSUME PackagesParameters, CommandInv, NEW p \in Processes, Checkout(p) PROVE CommandInv'
<1> DEFINE u == Url(p)
           target == Target(job[p], Now(p))
           entry == [clone[u] EXCEPT !.tree = target]
<1>1. At(p, "checkout") /\ UNCHANGED <<texts, remote, file, history>> /\ job[p] # Idle
  BY DEF Checkout, At
<1>2. CASE target > clone[u].known
  BY <1>1, <1>2, QuietFailure DEF Checkout, cacheVars
<1>3. CASE ~ (target > clone[u].known)
  <2>1. clone' = [clone EXCEPT ![u] = entry] /\ Goes(p, "head")
    BY <1>3 DEF Checkout
  <2>2. /\ u \in GitUrls /\ clone[u] # Absent /\ clone[u] \in Clones /\ clone[u].known \in Versions
        /\ clone[u].known <= remote[u]
    BY <1>1, CloneAtTurn
  <2>3. target \in Versions
    BY <1>1, TargetIs
  <2>4. entry \in Clones /\ entry.known = clone[u].known /\ entry.tree = target
    BY <2>2, <2>3 DEF Clones
  <2>5. target <= clone[u].known /\ clone[u].known <= clone[u].known
    BY <1>3, <2>2, <2>3, VersionsAreNumbers
  <2> HIDE DEF entry, u, target
  <2> QED
    BY <1>1, <2>1, <2>2, <2>3, <2>4, <2>5, CloneGo DEF u
<1> QED
  BY <1>2, <1>3

LEMMA ReadHeadKeeps == ASSUME PackagesParameters, CommandInv, NEW p \in Processes, ReadHead(p) PROVE CommandInv'
<1> DEFINE version == clone[Url(p)].tree
<1>1. At(p, "head") /\ Resolves(p, version) /\ UNCHANGED <<texts, remote, cacheVars, history>>
  BY DEF ReadHead
<1>2. /\ job[p] \in Jobs /\ job[p] # Idle /\ job[p].pc \in OneStages /\ Sound(clone, remote, foreign, job[p])
      /\ Url(p) = UrlOf(job[p]) /\ version \in Versions
  BY <1>1, AtOne DEF OneStages, Turn
<1>3. Has(clone, UrlOf(job[p]), version)
  BY <1>1, <1>2, CloneAtTurn DEF Has
<1> HIDE DEF version
<1> QED
  BY <1>1, <1>2, <1>3, TakenIsSound, ResolvesIs, QuietMove

\* A file is taken as the dependency of the turn.
LEMMA FileTaken ==
    ASSUME PackagesParameters, CommandInv, NEW p \in Processes, NEW pc \in {"package", "verify"}, At(p, pc),
           Url(p) \in FileUrls, NEW version \in Versions, Resolves(p, version),
           file' \in [FileUrls -> {Absent} \union Versions], UNCHANGED <<texts, remote, clone, history>>
    PROVE  CommandInv'
<1>1. /\ job[p] \in Jobs /\ job[p] # Idle /\ job[p].pc \in OneStages /\ Sound(clone, remote, foreign, job[p])
      /\ Url(p) = UrlOf(job[p])
  BY AtOne DEF OneStages
<1>2. UrlOf(job[p]) \notin GitUrls
  BY <1>1 DEF PackagesParameters
<1>3. Taken(job[p], version) \in Jobs /\ Sound(clone, remote, foreign, Taken(job[p], version))
  BY <1>1, <1>2, TakenIsSound
<1>4. UNCHANGED <<manifest, lock, remote, clone, foreign, changes, runs>>
  BY DEF texts, history
<1>5. Gains /\ CacheType(clone')
  BY <1>4, NothingLost DEF CommandInv
<1>6. ClonesInv' /\ LockInv'
  BY <1>4 DEF CommandInv, ClonesInv, LockInv, Fetched, Has, Written
<1>7. manifest' \in Manifests \union {Torn} /\ lock' \in Locks \union {NoLock, Torn}
  BY <1>4 DEF CommandInv, PackagesTypeOK
<1>8. Sound(clone', remote', foreign', Taken(job[p], version))
  BY <1>3, <1>4
<1> QED
  BY <1>1, <1>3, <1>5, <1>6, <1>7, <1>8, ResolvesIs, Moves

LEMMA TakeFileKeeps ==
    ASSUME PackagesParameters, CommandInv, NEW p \in Processes, TakeFile(p) PROVE CommandInv'
<1> DEFINE content == file[Url(p)]
<1>1. /\ At(p, "package") /\ Url(p) \in FileUrls /\ job[p] # Idle /\ UNCHANGED <<texts, remote, cacheVars, history>>
      /\ content \in {Absent} \union Versions
  BY DEF TakeFile, At, CommandInv, PackagesTypeOK
<1>2. CASE content = Absent
  <2>1. Goes(p, "download")
    BY <1>2 DEF TakeFile
  <2>2. job[p] \in Jobs /\ job[p].pc \in OneStages /\ Url(p) = UrlOf(job[p])
    BY <1>1, AtOne DEF OneStages
  <2>3. "download" \in ProcessSteps /\ "download" \in OneStages /\ "download" \notin FirstStages /\ "download" \notin EndStages
    BY DEF ProcessSteps, OneStages, FirstStages, EndStages
  <2>4. Turn(clone, remote, MovedTo(job[p], "download"))
    BY <1>1, <2>2, <2>3, MovedIsAJob DEF Turn
  <2> QED
    BY <1>1, <2>1, <2>2, <2>3, <2>4, QuietGo
<1>3. CASE content # Absent /\ Verified(job[p], Now(p), content)
  <2>1. Resolves(p, content) /\ content \in Versions
    BY <1>1, <1>3 DEF TakeFile
  <2>2. file' \in [FileUrls -> {Absent} \union Versions] /\ UNCHANGED <<texts, remote, clone, history>>
    BY <1>1 DEF cacheVars, CommandInv, PackagesTypeOK
  <2> QED
    BY <1>1, <2>1, <2>2, FileTaken
<1>4. CASE content # Absent /\ ~ Verified(job[p], Now(p), content)
  <2>1. Fails(p)
    BY <1>4 DEF TakeFile
  <2> QED
    BY <1>1, <2>1, QuietFailure
<1> QED
  BY <1>2, <1>3, <1>4

LEMMA VerifyKeeps ==
    ASSUME PackagesParameters, CommandInv, NEW p \in Processes, Verify(p) PROVE CommandInv'
<1> DEFINE content == job[p].temp
<1>1. At(p, "verify") /\ job[p] # Idle /\ UNCHANGED <<texts, remote, clone, history>>
  BY DEF Verify, At
<1>2. job[p] \in Jobs /\ content \in Versions /\ Url(p) \in FileUrls
  BY <1>1, AtOne, JobGives DEF OneStages, Turn
<1>3. CASE Verified(job[p], Now(p), content)
  <2>1. file' = [file EXCEPT ![Url(p)] = content] /\ Resolves(p, content)
    BY <1>3 DEF Verify
  <2>2. file' \in [FileUrls -> {Absent} \union Versions]
    BY <1>2, <2>1 DEF CommandInv, PackagesTypeOK
  <2> QED
    BY <1>1, <1>2, <2>1, <2>2, FileTaken
<1>4. CASE ~ Verified(job[p], Now(p), content)
  <2>1. Fails(p) /\ UNCHANGED <<texts, remote, cacheVars, history>>
    BY <1>1, <1>4 DEF Verify, cacheVars
  <2> QED
    BY <1>1, <2>1, QuietFailure
<1> QED
  BY <1>3, <1>4

LEMMA EnsureKeeps == ASSUME PackagesParameters, CommandInv, NEW p \in Processes, Ensure(p) PROVE CommandInv'
<1>1. /\ job[p] \in Jobs /\ job[p] # Idle /\ DOMAIN job[p].res = DOMAIN job[p].man
      /\ UNCHANGED <<texts, remote, cacheVars, history>>
  BY AtGives DEF Ensure, Sound, Stage, EndStages
<1>2. ASSUME NEW pc \in {"ready", "write"}, Goes(p, pc) PROVE CommandInv'
  <2>1. pc \in ProcessSteps /\ pc \notin OneStages /\ pc \notin FirstStages
    BY DEF ProcessSteps, OneStages, FirstStages
  <2>2. Turn(clone, remote, MovedTo(job[p], pc))
    BY <1>1, <2>1, MovedIsAJob DEF Turn, OneStages
  <2> QED
    BY <1>1, <1>2, <2>1, <2>2, QuietGo
<1>3. Goes(p, "ready") \/ Goes(p, "write") \/ Fails(p)
  BY DEF Ensure
<1> QED
  BY <1>1, <1>2, <1>3, QuietFailure

LEMMA EndsKeep ==
    ASSUME PackagesParameters, CommandInv, NEW p \in Processes, Finish(p) \/ Killed(p) PROVE CommandInv'
<1>1. job' = [job EXCEPT ![p] = Idle] /\ UNCHANGED <<texts, remote, cacheVars, history>>
  BY DEF Finish, Killed
<1> QED
  BY <1>1, QuietMove

\* What a user does to the texts.
LEMMA TouchesKeeps ==
    ASSUME PackagesParameters, CommandInv, Touches, foreign' \in BOOLEAN, foreign => foreign',
           manifest' \in Manifests \union {Torn}, lock' \in Locks \union {NoLock, Torn},
           ~foreign' /\ Written(lock') => Fetched(clone, lock')
    PROVE  CommandInv'
<1>1. job' = Disturbed /\ UNCHANGED <<remote, clone, file, runs>> /\ changes' = changes + 1 /\ changes < MaxChanges
  BY DEF Touches, cacheVars
<1>2. PackagesTypeOK'
  <2>1. changes' \in 0..MaxChanges
    BY <1>1 DEF CommandInv, PackagesTypeOK, PackagesParameters
  <2>2. job' \in [Processes -> {Idle} \union Jobs]
    BY <1>1, DisturbedIs
  <2> QED
    BY <1>1, <2>1, <2>2 DEF CommandInv, PackagesTypeOK
<1>3. JobsInv'
  <2>1. ASSUME NEW p \in Processes, job'[p] # Idle PROVE Sound(clone, remote, foreign', job'[p])
    <3>1. Sound(clone, remote, foreign, job'[p])
      BY <1>1, <2>1, DisturbedIs
    <3> QED
      BY <3>1 DEF Sound
  <2> QED
    BY <1>1, <2>1 DEF JobsInv
<1> QED
  BY <1>1, <1>2, <1>3 DEF CommandInv, ClonesInv, LockInv, Fetched, Has

LEMMA UserKeeps == ASSUME PackagesParameters, CommandParameters, CommandInv, User PROVE CommandInv'
<1>1. ASSUME NEW a \in PackageNames, NEW d \in Wanted[a], EditByHand(a, d) PROVE CommandInv'
  <2>1. manifest # Torn /\ manifest \in Manifests /\ Touches /\ UNCHANGED <<lock, foreign>>
    BY <1>1 DEF EditByHand, CommandInv, PackagesTypeOK
  <2>2. \A b \in DOMAIN manifest : manifest[b] \in Wanted[b] /\ b \in PackageNames
    BY <2>1, ManifestsAre
  <2>3. [b \in DOMAIN manifest \union {a} |-> IF b = a THEN d ELSE manifest[b]] \in Manifests
    BY <2>2, ManifestsAre
  <2>4. manifest' \in Manifests
    BY <1>1, <2>3 DEF EditByHand
  <2> QED
    BY <2>1, <2>4, TouchesKeeps DEF CommandInv, PackagesTypeOK, LockInv
<1>2. ASSUME DeleteLock PROVE CommandInv'
  <2>1. lock' = NoLock /\ Touches /\ UNCHANGED <<manifest, foreign>>
    BY <1>2 DEF DeleteLock
  <2> QED
    BY <2>1, TouchesKeeps DEF CommandInv, PackagesTypeOK, Written
<1>3. ASSUME NEW man \in Colleagues, NEW pins \in [DOMAIN man -> Versions], Pull(man, pins) PROVE CommandInv'
  <2>1. man \in Manifests
    BY DEF CommandParameters
  <2>2. Entries(man, pins) \in Locks
    BY <2>1, EntriesAreALock
  <2> QED
    BY <1>3, <2>1, <2>2, TouchesKeeps DEF Pull
<1> QED
  BY <1>1, <1>2, <1>3 DEF User

LEMMA PublishKeeps == ASSUME PackagesParameters, CommandInv, NEW u \in Urls, Publish(u) PROVE CommandInv'
<1>1. /\ remote[u] < MaxPublished /\ remote' = [remote EXCEPT ![u] = @ + 1]
      /\ UNCHANGED <<manifest, lock, clone, file, job, foreign, changes, runs>>
  BY DEF Publish, texts, cacheVars, history
<1>2. RemoteType(remote) /\ remote[u] \in Nat /\ MaxPublished \in Nat /\ CacheType(clone)
  BY VersionsAreNumbers DEF CommandInv, PackagesTypeOK, RemoteType, PackagesParameters, CacheType
<1>3. remote[u] + 1 \in Versions
  BY <1>1, <1>2 DEF Versions
<1>4. RemoteType(remote')
  BY <1>1, <1>2, <1>3 DEF RemoteType
<1>5. \A v \in Urls : remote[v] <= remote'[v] /\ remote[v] \in Nat /\ remote'[v] \in Nat
  BY <1>1, <1>2, <1>4, VersionsAreNumbers DEF RemoteType
<1>6. Gains /\ CacheType(clone')
  <2>1. \A v \in GitUrls : clone[v] # Absent => clone[v].known \in Nat
    BY <1>2, CloneGives, VersionsAreNumbers
  <2> QED
    BY <1>1, <1>2, <1>5, <2>1 DEF Gains
<1>7. JobsInv'
  <2>1. ASSUME NEW p \in Processes, job[p] # Idle PROVE Sound(clone', remote', foreign', job[p])
    <3>1. job[p] \in Jobs /\ Sound(clone, remote, foreign, job[p])
      BY <2>1 DEF CommandInv, PackagesTypeOK, JobsInv
    <3> QED
      BY <1>2, <1>4, <1>6, <3>1, SoundStays
  <2> QED
    BY <1>1, <2>1 DEF JobsInv
<1>8. ClonesInv'
  <2>1. ASSUME NEW v \in GitUrls, clone[v] # Absent PROVE clone[v].known <= remote'[v]
    <3>1. clone[v].known <= remote[v] /\ v \in Urls
      BY <2>1 DEF CommandInv, ClonesInv, Urls
    <3>2. clone[v].known \in Nat
      BY <1>2, <2>1, CloneGives, VersionsAreNumbers
    <3> QED
      BY <1>5, <3>1, <3>2
  <2> QED
    BY <1>1, <2>1 DEF CommandInv, ClonesInv
<1> QED
  BY <1>1, <1>4, <1>7, <1>8 DEF CommandInv, PackagesTypeOK, RemoteType, LockInv, Fetched, Has

LEMMA ProcessKeeps ==
    ASSUME PackagesParameters, CommandParameters, CommandInv, NEW p \in Processes, Process(p) PROVE CommandInv'
<1>1. ASSUME NEW cmd \in Does[p] \ {"edit"}, Begin(p, cmd) PROVE CommandInv'
  BY <1>1, BeginKeeps DEF CommandParameters
<1>2. CASE Edit(p)
  BY <1>2, EditKeeps DEF Edit
<1>3. CASE Package(p)
  BY <1>3, PickKeeps, FetchingKeeps, InstallKeeps, FetchKeeps, CheckoutKeeps, ReadHeadKeeps, TakeFileKeeps,
     VerifyKeeps DEF Package
<1> QED
  BY <1>1, <1>2, <1>3, RewriteKeeps, OpenKeeps, CollectKeeps, EnsureKeeps, WriteKeeps, EndsKeep, RestoreKeeps
  DEF Process

LEMMA NextKeeps ==
    ASSUME PackagesParameters, CommandParameters, CommandInv, [PackagesNext]_packageVars PROVE CommandInv'
<1>1. CASE UNCHANGED packageVars
  BY <1>1 DEF packageVars, CommandInv, PackagesTypeOK, JobsInv, ClonesInv, LockInv, Fetched, Has
<1> QED
  BY <1>1, ProcessKeeps, UserKeeps, PublishKeeps DEF PackagesNext

\* Every state a command, a kill, an edit or a publication leads to keeps the
\* inductive invariant.
THEOREM CommandsKeepTheirInvariant ==
    ASSUME PackagesParameters, CommandParameters
    PROVE  PackagesSpec => []CommandInv
<1>1. PackagesInit => CommandInv
  BY InitKeeps
<1>2. CommandInv /\ [PackagesNext]_packageVars => CommandInv'
  BY NextKeeps
<1> QED
  BY <1>1, <1>2, PTL DEF PackagesSpec

\* Whatever processes, kills and edits do, texts, caches and commands keep
\* their types.
THEOREM PackagesTypes ==
    ASSUME PackagesParameters, CommandParameters
    PROVE  PackagesSpec => []PackagesTypeOK
<1>1. CommandInv => PackagesTypeOK
  BY DEF CommandInv
<1> QED
  BY <1>1, CommandsKeepTheirInvariant, PTL

\* A lock written on this machine pins only commits its clones have, for any
\* number of processes that build, edit, fail and are killed in any order.
THEOREM LocalPinsStayFetched ==
    ASSUME PackagesParameters, CommandParameters
    PROVE  PackagesSpec => []LocalPinsAreFetched
<1>1. CommandInv => LocalPinsAreFetched
  BY DEF CommandInv, LockInv, LocalPinsAreFetched, Written, Fetched, Has
<1> QED
  BY <1>1, CommandsKeepTheirInvariant, PTL

-----------------------------------------------------------------------------
(***************************************************************************)
(* The inductive invariant behind LockHoldsResolution, PinsAreKept and     *)
(* SourcesMatch.  A command alone has no other beside it, so nothing but   *)
(* its own steps can disturb what it has done: what it resolved is the     *)
(* pin or the version asked for, is what its sources hold, and at the end  *)
(* is what the lock says.                                                  *)
(***************************************************************************)

Chosen(j, a, version) ==
    /\ a \in DOMAIN j.locked /\ ~ Floats(j.man[a]) => version = j.locked[a].pin
    /\ a \notin DOMAIN j.locked /\ j.man[a].sel \in Versions => version = j.man[a].sel

InPlace(c, f, u, version) ==
    IF u \in GitUrls THEN c[u] # Absent /\ c[u].tree = version ELSE f[u] = version

Choices(c, j) ==
    /\ \A a \in DOMAIN j.res : Chosen(j, a, j.res[a])
    /\ j.pc = "head" => Chosen(j, First(j.todo), c[UrlOf(j)].tree)

Places(c, f, j) ==
    \A a \in DOMAIN j.res : IsShared(j.man, a) \/ InPlace(c, f, j.man[a].url, j.res[a])

Ends(l, j) ==
    j.pc = "ready" /\ j.cmd # "analyse" /\ DOMAIN j.man # {} => l = Entries(j.man, j.res)

\* What a command alone has done, with clones c, files f and lock l.
Work(c, f, l, j) == Choices(c, j) /\ Places(c, f, j) /\ Ends(l, j)

AloneInv ==
    \A p \in Processes : job[p] # Idle /\ job[p].alone =>
        /\ \A q \in Processes : job[q] # Idle => q = p
        /\ Work(clone, file, lock, job[p])

\* One command moves: beside one alone there is none that could.
LEMMA AloneMoves ==
    ASSUME CommandInv, AloneInv, NEW p \in Processes, job[p] # Idle, NEW X, job' = [job EXCEPT ![p] = X],
           X # Idle /\ X.alone => job[p].alone /\ Work(clone', file', lock', X)
    PROVE  AloneInv'
<1>1. job \in [Processes -> {Idle} \union Jobs]
  BY DEF CommandInv, PackagesTypeOK
<1>2. ASSUME NEW q \in Processes, job'[q] # Idle, job'[q].alone
      PROVE  /\ \A r \in Processes : job'[r] # Idle => r = q
             /\ Work(clone', file', lock', job'[q])
  <2>1. CASE q = p
    <3>1. job'[q] = X
      BY <1>1, <2>1
    <3>2. job[p].alone /\ Work(clone', file', lock', X)
      BY <1>2, <3>1
    <3>3. \A r \in Processes : job[r] # Idle => r = p
      BY <3>2 DEF AloneInv
    <3>4. \A r \in Processes : r # p => job'[r] = job[r]
      BY <1>1
    <3> QED
      BY <2>1, <3>1, <3>2, <3>3, <3>4
  <2>2. CASE q # p
    <3>1. job'[q] = job[q]
      BY <1>1, <2>2
    <3> QED
      BY <1>2, <2>2, <3>1 DEF AloneInv
  <2> QED
    BY <2>1, <2>2
<1> QED
  BY <1>2 DEF AloneInv

\* A command's own work, if it is alone.
LEMMA AloneGives ==
    ASSUME AloneInv, NEW p \in Processes, job[p] # Idle, job[p].alone
    PROVE  Choices(clone, job[p]) /\ Places(clone, file, job[p]) /\ Ends(lock, job[p])
  BY DEF AloneInv, Work

LEMMA MovedKeepsWork ==
    ASSUME NEW c, NEW f, NEW l, NEW j \in Jobs, Choices(c, j), Places(c, f, j),
           NEW pc \in ProcessSteps \ {"head", "ready"}
    PROVE  Work(c, f, l, MovedTo(j, pc))
<1>1. MovedTo(j, pc).pc = pc /\ MovedTo(j, pc).res = j.res /\ MovedTo(j, pc).man = j.man /\ MovedTo(j, pc).locked = j.locked
  BY MovedIsAJob
<1> QED
  BY <1>1 DEF Work, Choices, Places, Ends, Chosen

\* A step that leaves the sources alone and ends nothing.
LEMMA AloneGoes ==
    ASSUME CommandInv, AloneInv, NEW p \in Processes, job[p] # Idle, NEW pc \in ProcessSteps \ {"head", "ready"},
           Goes(p, pc), UNCHANGED cacheVars
    PROVE  AloneInv'
<1>1. job[p] \in Jobs /\ UNCHANGED <<clone, file>>
  BY DEF CommandInv, PackagesTypeOK, cacheVars
<1>2. MovedTo(job[p], pc).alone = job[p].alone
  BY <1>1, MovedIsAJob
<1>3. job[p].alone => Work(clone, file, lock', MovedTo(job[p], pc))
  BY <1>1, AloneGives, MovedKeepsWork
<1> QED
  BY <1>1, <1>2, <1>3, GoesIs, AloneMoves

LEMMA AloneFails ==
    ASSUME CommandInv, AloneInv, NEW p \in Processes, job[p] # Idle, Fails(p), UNCHANGED cacheVars
    PROVE  AloneInv'
<1>1. CASE job[p].cmd = "edit"
  BY <1>1, AloneGoes DEF Fails, ProcessSteps
<1>2. CASE job[p].cmd # "edit"
  BY <1>2, AloneMoves DEF Fails
<1> QED
  BY <1>1, <1>2

LEMMA AloneStops ==
    ASSUME CommandInv, AloneInv, NEW p \in Processes, job[p] # Idle, job' = [job EXCEPT ![p] = Idle]
    PROVE  AloneInv'
  BY AloneMoves

\* A job that has resolved nothing yet has nothing to show.
LEMMA NothingDone ==
    ASSUME NEW c, NEW f, NEW l, NEW j, j.res = Nothing, j.pc # "head", j.pc = "ready" => j.cmd = "analyse" \/ DOMAIN j.man = {}
    PROVE  Work(c, f, l, j)
  BY NothingIsAbout DEF Work, Choices, Places, Ends

LEMMA InitAlone == ASSUME PackagesInit PROVE AloneInv
  BY DEF PackagesInit, AloneInv

LEMMA DisturbedAlone ==
    ASSUME PackagesParameters, CommandInv, job' = Disturbed PROVE AloneInv'
<1>1. \A p \in Processes : job'[p] # Idle => job'[p].alone = FALSE
  BY DisturbedIs
<1> QED
  BY <1>1 DEF AloneInv

LEMMA StartsAlone ==
    ASSUME PackagesParameters, CommandInv, NEW p \in Processes, NEW cmd \in Commands, NEW pc \in FirstStages,
           NEW man, Starts(p, cmd, pc, man)
    PROVE  AloneInv'
<1> DEFINE old == IF cmd = "edit" THEN [manifest |-> manifest, lock |-> lock]
                  ELSE [manifest |-> Nothing, lock |-> NoLock]
           alone == \A q \in Processes : job[q] = Idle
           X == Fresh(cmd, pc, man, alone, old)
<1>1. job' = [Disturbed EXCEPT ![p] = X] /\ UNCHANGED <<clone, file, lock>>
  BY DEF Starts, Fresh, texts, cacheVars
<1>2. X.alone = alone /\ X.res = Nothing /\ X.pc = pc
  BY DEF Fresh
<1>3. pc # "head" /\ pc # "ready"
  BY DEF FirstStages
<1> HIDE DEF X
<1>4. Work(clone, file, lock, X)
  BY <1>2, <1>3, NothingDone
<1>5. \A q \in Processes : job'[q] = IF q = p THEN X ELSE Disturbed[q]
  BY <1>1, DisturbedIs
<1>6. ASSUME NEW q \in Processes, job'[q] # Idle, job'[q].alone
      PROVE  /\ \A r \in Processes : job'[r] # Idle => r = q
             /\ Work(clone, file, lock, job'[q])
  <2>1. q = p
    BY <1>5, <1>6, DisturbedIs
  <2>2. \A r \in Processes : job[r] = Idle
    BY <1>2, <1>5, <1>6, <2>1
  <2>3. \A r \in Processes : Disturbed[r] # Idle => job[r] # Idle
    BY DisturbedIs
  <2> QED
    BY <1>4, <1>5, <2>1, <2>2, <2>3
<1> QED
  BY <1>1, <1>6 DEF AloneInv

LEMMA TextsAlone ==
    ASSUME PackagesParameters, CommandInv, AloneInv, NEW p \in Processes,
           Rewrite(p) \/ Rewritten(p) \/ Unlock(p) \/ WriteLock(p) \/ Restore(p) \/ ManifestRestored(p)
    PROVE  AloneInv'
<1>1. UNCHANGED cacheVars /\ job[p] # Idle
  BY DEF Rewrite, Rewritten, Unlock, WriteLock, Restore, ManifestRestored, At
<1>2. \E pc \in {"rewriting", "unlock", "open", "writing", "restoring", "relock"} : Goes(p, pc)
  BY DEF Rewrite, Rewritten, Unlock, WriteLock, Restore, ManifestRestored
<1>3. {"rewriting", "unlock", "open", "writing", "restoring", "relock"} \subseteq ProcessSteps \ {"head", "ready"}
  BY DEF ProcessSteps
<1> QED
  BY <1>1, <1>2, <1>3, AloneGoes

LEMMA RelockAlone ==
    ASSUME PackagesParameters, CommandInv, AloneInv, NEW p \in Processes,
           Relock(p) \/ Relocked(p) \/ Finish(p) \/ Killed(p)
    PROVE  AloneInv'
<1>1. UNCHANGED cacheVars /\ job[p] # Idle
  BY DEF Relock, Relocked, Finish, Killed, At
<1>2. job' = [job EXCEPT ![p] = Idle] \/ Goes(p, "relocking")
  BY DEF Relock, Relocked, Finish, Killed
<1>3. "relocking" \in ProcessSteps \ {"head", "ready"}
  BY DEF ProcessSteps
<1> QED
  BY <1>1, <1>2, <1>3, AloneGoes, AloneStops

LEMMA OpenAlone ==
    ASSUME PackagesParameters, CommandInv, AloneInv, NEW p \in Processes, Open(p) PROVE AloneInv'
<1>1. /\ job[p] \in Jobs /\ job[p] # Idle /\ job[p].res = Nothing /\ UNCHANGED cacheVars
  BY AtGives DEF Open, Sound, Stage, FirstStages
<1>2. CASE lock = Torn
  BY <1>1, <1>2, AloneFails DEF Open
<1>3. CASE lock # Torn
  <2> DEFINE X == [job[p] EXCEPT !.pc = "collect", !.locked = IF lock = NoLock THEN Nothing ELSE lock]
  <2>1. job' = [job EXCEPT ![p] = X]
    BY <1>3 DEF Open
  <2>2. X.pc = "collect" /\ X.res = Nothing /\ X.alone = job[p].alone
    BY <1>1 DEF Jobs
  <2> HIDE DEF X
  <2> QED
    BY <1>1, <2>1, <2>2, NothingDone, AloneMoves
<1> QED
  BY <1>2, <1>3

LEMMA CollectAlone ==
    ASSUME PackagesParameters, CommandInv, AloneInv, NEW p \in Processes, Collect(p) PROVE AloneInv'
<1>1. /\ job[p] \in Jobs /\ job[p] # Idle /\ job[p].res = Nothing /\ UNCHANGED cacheVars
  BY AtGives DEF Collect, Sound, Stage, FirstStages
<1>2. CASE manifest = Torn
  BY <1>1, <1>2, AloneFails DEF Collect
<1>3. CASE manifest # Torn
  <2> DEFINE pc == IF DOMAIN manifest = {} THEN AfterLast(job[p]) ELSE "package"
             X == [job[p] EXCEPT !.man = manifest, !.todo = DOMAIN manifest, !.pc = pc]
  <2>1. job' = [job EXCEPT ![p] = X]
    BY <1>3 DEF Collect
  <2>2. pc # "head" /\ (pc = "ready" => DOMAIN manifest = {})
    BY AfterLastIs
  <2> HIDE DEF pc
  <2>3. X.pc = pc /\ X.man = manifest /\ X.res = Nothing /\ X.alone = job[p].alone
    BY <1>1 DEF Jobs
  <2> HIDE DEF X
  <2> QED
    BY <1>1, <2>1, <2>2, <2>3, NothingDone, AloneMoves
<1> QED
  BY <1>2, <1>3

\* Clones and files of other URLs are not touched: what was in place stays.
LEMMA PlacesStay ==
    ASSUME PackagesParameters, NEW j \in Jobs, Stage(j), j.pc \in OneStages, NEW c, NEW f, NEW cc, NEW ff,
           Places(c, f, j), \A u \in GitUrls : u # UrlOf(j) => cc[u] = c[u],
           \A u \in FileUrls : u # UrlOf(j) => ff[u] = f[u]
    PROVE  Places(cc, ff, j)
<1>1. ASSUME NEW a \in DOMAIN j.res, ~ IsShared(j.man, a) PROVE InPlace(cc, ff, j.man[a].url, j.res[a])
  <2>1. First(j.todo) \in DOMAIN j.man /\ First(j.todo) # a /\ a \in DOMAIN j.man
    BY TurnIsIn DEF Stage
  <2>2. j.man[a].url # UrlOf(j)
    BY <1>1, <2>1 DEF IsShared, UrlOf
  <2>3. j.man[a].url \in GitUrls \union FileUrls
    BY <2>1, JobGives, ManifestGives DEF Urls
  <2>4. InPlace(c, f, j.man[a].url, j.res[a])
    BY <1>1 DEF Places
  <2> QED
    BY <2>2, <2>3, <2>4 DEF InPlace
<1> QED
  BY <1>1 DEF Places

\* The dependency of the turn is taken as chosen and is in place.
LEMMA TakenIsWork ==
    ASSUME PackagesParameters, NEW j \in Jobs, Stage(j), j.pc \in OneStages, NEW version \in Versions,
           NEW c, NEW f, NEW l, \A a \in DOMAIN j.res : Chosen(j, a, j.res[a]), Places(c, f, j),
           Chosen(j, First(j.todo), version), InPlace(c, f, UrlOf(j), version)
    PROVE  Work(c, f, l, Taken(j, version)) /\ Taken(j, version).alone = j.alone
<1> DEFINE X == Taken(j, version)
           n == First(j.todo)
<1>1. /\ X.cmd = j.cmd /\ X.man = j.man /\ X.locked = j.locked /\ X.alone = j.alone
      /\ X.todo = j.todo \ {n} /\ DOMAIN X.res = DOMAIN j.res \union {n} /\ n \notin DOMAIN j.res
      /\ X.res[n] = version /\ \A a \in DOMAIN j.res : X.res[a] = j.res[a]
      /\ X.pc \in {"ready", "ensure", "package"}
  BY TakenIs
<1>2. X.pc = "ready" => X.cmd = "analyse"
  <2>1. X.pc = IF j.todo \ {n} = {} THEN AfterLast(j) ELSE "package"
    BY DEF Taken, Jobs
  <2> QED
    BY <1>1, <2>1 DEF AfterLast
<1>3. j.man[n].url = UrlOf(j)
  BY DEF UrlOf
<1> HIDE DEF X
<1>4. Choices(c, X)
  <2>1. ASSUME NEW a \in DOMAIN X.res PROVE Chosen(X, a, X.res[a])
    <3>1. CASE a = n
      BY <1>1, <3>1 DEF Chosen
    <3>2. CASE a # n
      BY <1>1, <2>1, <3>2 DEF Chosen
    <3> QED
      BY <3>1, <3>2
  <2> QED
    BY <1>1, <2>1 DEF Choices
<1>5. Places(c, f, X)
  <2>1. ASSUME NEW a \in DOMAIN X.res, ~ IsShared(X.man, a) PROVE InPlace(c, f, X.man[a].url, X.res[a])
    <3>1. CASE a = n
      BY <1>1, <1>3, <3>1
    <3>2. CASE a # n
      <4>1. a \in DOMAIN j.res /\ ~ IsShared(j.man, a) /\ X.res[a] = j.res[a]
        BY <1>1, <2>1, <3>2
      <4> QED
        BY <1>1, <4>1 DEF Places
    <3> QED
      BY <3>1, <3>2
  <2> QED
    BY <2>1 DEF Places
<1> QED
  BY <1>1, <1>2, <1>4, <1>5 DEF Work, Ends, X

LEMMA PickAlone ==
    ASSUME PackagesParameters, CommandInv, AloneInv, NEW p \in Processes, Refuse(p) \/ PickGit(p) \/ NetworkFails(p)
    PROVE  AloneInv'
<1>1. job[p] # Idle /\ UNCHANGED cacheVars
  BY DEF Refuse, PickGit, NetworkFails, At
<1>2. CASE Refuse(p) \/ NetworkFails(p)
  BY <1>1, <1>2, AloneFails DEF Refuse, NetworkFails
<1>3. CASE PickGit(p)
  <2>1. \E pc \in {"clone", "fetch", "checkout"} : Goes(p, pc)
    BY <1>3 DEF PickGit
  <2>2. {"clone", "fetch", "checkout"} \subseteq ProcessSteps \ {"head", "ready"}
    BY DEF ProcessSteps
  <2> QED
    BY <1>1, <2>1, <2>2, AloneGoes
<1> QED
  BY <1>2, <1>3

\* A step at the clone of the turn, before its head is read.
LEMMA AtCloneAlone ==
    ASSUME PackagesParameters, CommandInv, AloneInv, NEW p \in Processes, NEW pc \in OneStages, At(p, pc),
           NEW temp \in Versions, NEW next \in ProcessSteps \ {"head", "ready"},
           job' = [job EXCEPT ![p] = [job[p] EXCEPT !.temp = temp, !.pc = next]], file' = file,
           \A u \in GitUrls : u # UrlOf(job[p]) => clone'[u] = clone[u]
    PROVE  AloneInv'
<1> DEFINE X == [job[p] EXCEPT !.temp = temp, !.pc = next]
<1>1. job[p] \in Jobs /\ job[p] # Idle /\ job[p].pc \in OneStages /\ Stage(job[p])
  BY AtOne
<1>2. job' = [job EXCEPT ![p] = X]
  OBVIOUS
<1>3. /\ X.pc = next /\ X.man = job[p].man /\ X.res = job[p].res /\ X.locked = job[p].locked
      /\ X.alone = job[p].alone
  BY <1>1 DEF Jobs
<1> HIDE DEF X
<1>4. ASSUME job[p].alone PROVE Work(clone', file', lock', X)
  <2>1. Choices(clone, job[p]) /\ Places(clone', file', job[p])
    BY <1>1, <1>4, AloneGives, PlacesStay
  <2> QED
    BY <1>3, <2>1 DEF Work, Choices, Places, Ends, Chosen
<1>5. X # Idle /\ X.alone => job[p].alone /\ Work(clone', file', lock', X)
  BY <1>3, <1>4
<1>6. job[p] # Idle
  BY <1>1
<1> QED
  BY <1>2, <1>5, <1>6, AloneMoves, Zenon

LEMMA FetchingAlone ==
    ASSUME PackagesParameters, CommandInv, AloneInv, NEW p \in Processes,
           Clone(p) \/ Download(p) \/ Install(p) \/ Fetch(p)
    PROVE  AloneInv'
<1>0. "install" \in ProcessSteps \ {"head", "ready"} /\ "verify" \in ProcessSteps \ {"head", "ready"}
      /\ "checkout" \in ProcessSteps \ {"head", "ready"} /\ 0 \in Versions
      /\ {"clone", "download", "install", "fetch"} \subseteq OneStages
  BY DEF ProcessSteps, OneStages, PackagesParameters, Versions
<1>1. CASE Clone(p) \/ Download(p)
  <2>1. At(p, "clone") \/ At(p, "download")
    BY <1>1 DEF Clone, Download
  <2>2. remote[Url(p)] \in Versions /\ UNCHANGED <<clone, file>>
    BY <1>0, <1>1, <2>1, AtOne DEF Clone, Download, cacheVars, CommandInv, PackagesTypeOK
  <2>3. job' = [job EXCEPT ![p] = [job[p] EXCEPT !.temp = remote[Url(p)], !.pc = "install"]]
        \/ job' = [job EXCEPT ![p] = [job[p] EXCEPT !.temp = remote[Url(p)], !.pc = "verify"]]
    BY <1>1 DEF Clone, Download
  <2>4. file' = file /\ \A u \in GitUrls : u # UrlOf(job[p]) => clone'[u] = clone[u]
    BY <2>2
  <2> QED
    BY <1>0, <2>1, <2>2, <2>3, <2>4, AtCloneAlone
<1>2. CASE Install(p)
  <2>1. At(p, "install") /\ Url(p) = UrlOf(job[p]) /\ file' = file /\ job[p] # Idle
    BY <1>0, <1>2, AtOne DEF Install
  <2>2. CASE clone[Url(p)] # Absent /\ UNCHANGED clone /\ Fails(p)
    BY <2>1, <2>2, AloneFails DEF cacheVars
  <2>3. CASE /\ clone' = IF clone[Url(p)] = Absent
                         THEN [clone EXCEPT ![Url(p)] = [known |-> job[p].temp, tree |-> NoTree]] ELSE clone
             /\ job' = [job EXCEPT ![p].temp = 0, ![p].pc = "checkout"]
    <3>1. \A u \in GitUrls : u # UrlOf(job[p]) => clone'[u] = clone[u]
      BY <2>1, <2>3 DEF CommandInv, PackagesTypeOK
    <3> QED
      BY <1>0, <2>1, <2>3, <3>1, AtCloneAlone
  <2> QED
    BY <1>2, <2>2, <2>3 DEF Install
<1>3. CASE Fetch(p)
  <2>1. /\ At(p, "fetch") /\ Url(p) = UrlOf(job[p]) /\ file' = file /\ job[p] \in Jobs
        /\ clone' = [clone EXCEPT ![Url(p)].known = remote[Url(p)]] /\ Goes(p, "checkout")
    BY <1>0, <1>3, AtOne DEF Fetch
  <2>2. \A u \in GitUrls : u # UrlOf(job[p]) => clone'[u] = clone[u]
    BY <2>1 DEF CommandInv, PackagesTypeOK
  <2>3. job[p].temp \in Versions
    BY <2>1, JobGives
  <2>4. MovedTo(job[p], "checkout") = [job[p] EXCEPT !.temp = job[p].temp, !.pc = "checkout"]
    BY <2>1 DEF MovedTo, Jobs
  <2>5. job' = [job EXCEPT ![p] = [job[p] EXCEPT !.temp = job[p].temp, !.pc = "checkout"]]
    BY <2>1, <2>4, GoesIs
  <2> QED
    BY <1>0, <2>1, <2>2, <2>3, <2>5, AtCloneAlone
<1> QED
  BY <1>1, <1>2, <1>3

\* The commit a checkout makes its own is the one chosen.
LEMMA TargetIsChosen ==
    ASSUME PackagesParameters, CommandInv, NEW p \in Processes, At(p, "checkout")
    PROVE  Chosen(job[p], Now(p), Target(job[p], Now(p)))
<1>1. Url(p) \in GitUrls /\ job[p].man[Now(p)].url = Url(p)
  BY CloneAtTurn, AtOne DEF OneStages
<1>2. Default \notin Versions /\ Latest \notin Versions
  BY DEF PackagesParameters
<1> QED
  BY <1>1, <1>2 DEF Chosen, Target, Floats

LEMMA CheckoutAlone ==
    ASSUME PackagesParameters, CommandInv, AloneInv, NEW p \in Processes, Checkout(p) PROVE AloneInv'
<1> DEFINE j == job[p]
           u == Url(p)
           target == Target(job[p], Now(p))
<1>1. /\ At(p, "checkout") /\ j \in Jobs /\ j # Idle /\ j.pc \in OneStages /\ Stage(j) /\ u = UrlOf(j)
      /\ u \in GitUrls /\ UNCHANGED <<file, lock>>
  BY AtOne, CloneAtTurn DEF Checkout, OneStages, texts
<1>2. CASE target > clone[u].known
  BY <1>1, <1>2, AloneFails DEF Checkout, cacheVars
<1>3. CASE ~ (target > clone[u].known)
  <2>1. clone' = [clone EXCEPT ![u].tree = target] /\ Goes(p, "head")
    BY <1>3 DEF Checkout
  <2>2. /\ \A v \in GitUrls : v # UrlOf(j) => clone'[v] = clone[v]
        /\ clone'[u].tree = target
    <3>1. clone[u] \in Clones
      BY <1>1, CloneAtTurn
    <3>2. clone \in [GitUrls -> {Absent} \union Clones]
      BY DEF CommandInv, PackagesTypeOK
    <3> HIDE DEF target
    <3> QED
      BY <1>1, <2>1, <3>1, <3>2 DEF Clones
  <2>3. Chosen(j, Now(p), target)
    BY <1>1, TargetIsChosen
  <2> DEFINE X == MovedTo(j, "head")
  <2>4. /\ X.pc = "head" /\ X.man = j.man /\ X.res = j.res /\ X.locked = j.locked /\ X.alone = j.alone
        /\ X.todo = j.todo
    BY <1>1, MovedIsAJob DEF ProcessSteps
  <2> HIDE DEF X, target
  <2>5. ASSUME j.alone PROVE Work(clone', file', lock', X)
    <3>1. Choices(clone, j) /\ Places(clone', file', j)
      BY <1>1, <2>2, <2>5, AloneGives, PlacesStay
    <3>2. Chosen(X, First(X.todo), clone'[UrlOf(X)].tree)
      BY <1>1, <2>2, <2>3, <2>4 DEF Chosen, Now, UrlOf
    <3> QED
      BY <2>4, <3>1, <3>2 DEF Work, Choices, Places, Ends, Chosen
  <2>6. job' = [job EXCEPT ![p] = X]
    BY <2>1, GoesIs DEF X
  <2> QED
    BY <1>1, <2>4, <2>5, <2>6, AloneMoves
<1> QED
  BY <1>2, <1>3

\* A command takes the dependency of its turn.
LEMMA TakingAlone ==
    ASSUME PackagesParameters, CommandInv, AloneInv, NEW p \in Processes, NEW pc \in OneStages, At(p, pc),
           NEW version \in Versions, Resolves(p, version), clone' = clone,
           \A u \in FileUrls : u # UrlOf(job[p]) => file'[u] = file[u],
           job[p].alone => Chosen(job[p], Now(p), version), InPlace(clone', file', UrlOf(job[p]), version)
    PROVE  AloneInv'
<1>1. job[p] \in Jobs /\ job[p] # Idle /\ job[p].pc \in OneStages /\ Stage(job[p])
  BY AtOne
<1>2. Taken(job[p], version).alone = job[p].alone
  BY <1>1, TakenIs
<1>3. ASSUME job[p].alone PROVE Work(clone', file', lock', Taken(job[p], version))
  <2>1. Choices(clone, job[p]) /\ Places(clone', file', job[p])
    BY <1>1, <1>3, AloneGives, PlacesStay
  <2> QED
    BY <1>1, <1>3, <2>1, TakenIsWork DEF Choices, Now
<1> QED
  BY <1>1, <1>2, <1>3, ResolvesIs, AloneMoves

LEMMA ReadHeadAlone ==
    ASSUME PackagesParameters, CommandInv, AloneInv, NEW p \in Processes, ReadHead(p) PROVE AloneInv'
<1> DEFINE version == clone[Url(p)].tree
<1>1. At(p, "head") /\ Resolves(p, version) /\ UNCHANGED <<clone, file>>
  BY DEF ReadHead, cacheVars
<1>2. /\ job[p] # Idle /\ job[p].pc = "head" /\ Url(p) = UrlOf(job[p]) /\ version \in Versions
      /\ Url(p) \in GitUrls /\ clone[Url(p)] # Absent
  BY <1>1, AtOne DEF OneStages, Turn
<1>3. job[p].alone => Chosen(job[p], Now(p), version)
  BY <1>2, AloneGives DEF Choices, Now
<1>4. InPlace(clone', file', UrlOf(job[p]), version)
  BY <1>1, <1>2 DEF InPlace
<1> HIDE DEF version
<1> QED
  BY <1>1, <1>2, <1>3, <1>4, TakingAlone DEF OneStages

\* A download that passed its check is what was chosen.
LEMMA VerifiedIsChosen ==
    ASSUME PackagesParameters, NEW j \in Jobs, NEW a \in DOMAIN j.man, NEW content \in Versions,
           Verified(j, a, content)
    PROVE  Chosen(j, a, content)
<1>1. a \in DOMAIN j.locked => j.locked[a].pin \in Versions
  BY JobGives, LockGives
<1>2. Default \notin Versions
  BY DEF PackagesParameters
<1> QED
  BY <1>1, <1>2 DEF Chosen, Verified, Checksum

LEMMA FilesAlone ==
    ASSUME PackagesParameters, CommandInv, AloneInv, NEW p \in Processes, TakeFile(p) \/ Verify(p) PROVE AloneInv'
<1>1. CASE TakeFile(p)
  <2> DEFINE content == file[Url(p)]
  <2>1. /\ At(p, "package") /\ Url(p) \in FileUrls /\ UNCHANGED cacheVars /\ UNCHANGED <<clone, file>>
        /\ content \in {Absent} \union Versions
    BY <1>1 DEF TakeFile, cacheVars, CommandInv, PackagesTypeOK
  <2>2. /\ job[p] \in Jobs /\ job[p] # Idle /\ Url(p) = UrlOf(job[p]) /\ Now(p) \in DOMAIN job[p].man
    BY <2>1, AtOne DEF OneStages
  <2>3. CASE content = Absent
    BY <1>1, <2>1, <2>2, <2>3, AloneGoes DEF TakeFile, ProcessSteps
  <2>4. CASE content # Absent /\ Verified(job[p], Now(p), content)
    <3>1. Resolves(p, content) /\ content \in Versions
      BY <1>1, <2>1, <2>4 DEF TakeFile
    <3>2. Chosen(job[p], Now(p), content)
      BY <2>2, <2>4, <3>1, VerifiedIsChosen
    <3>3. InPlace(clone', file', UrlOf(job[p]), content)
      BY <2>1, <2>2 DEF InPlace, PackagesParameters
    <3> HIDE DEF content
    <3> QED
      BY <2>1, <3>1, <3>2, <3>3, TakingAlone DEF OneStages
  <2>5. CASE content # Absent /\ ~ Verified(job[p], Now(p), content)
    <3>1. Fails(p)
      BY <1>1, <2>5 DEF TakeFile
    <3> QED
      BY <2>1, <2>2, <3>1, AloneFails
  <2> QED
    BY <2>3, <2>4, <2>5
<1>2. CASE Verify(p)
  <2> DEFINE content == job[p].temp
  <2>1. At(p, "verify") /\ clone' = clone
    BY <1>2 DEF Verify
  <2>2. /\ job[p] \in Jobs /\ job[p] # Idle /\ Url(p) = UrlOf(job[p]) /\ Now(p) \in DOMAIN job[p].man
        /\ Url(p) \in FileUrls /\ content \in Versions
    BY <2>1, AtOne, JobGives DEF OneStages, Turn
  <2>3. CASE Verified(job[p], Now(p), content)
    <3>1. file' = [file EXCEPT ![Url(p)] = content] /\ Resolves(p, content)
      BY <1>2, <2>3 DEF Verify
    <3>2. Chosen(job[p], Now(p), content)
      BY <2>2, <2>3, VerifiedIsChosen
    <3> HIDE DEF content
    <3>3. file'[Url(p)] = content /\ \A u \in FileUrls : u # UrlOf(job[p]) => file'[u] = file[u]
      BY <2>2, <3>1 DEF CommandInv, PackagesTypeOK
    <3>4. InPlace(clone', file', UrlOf(job[p]), content)
      BY <2>2, <3>3 DEF InPlace, PackagesParameters
    <3> QED
      BY <2>1, <2>2, <3>1, <3>2, <3>3, <3>4, TakingAlone DEF OneStages
  <2>4. CASE ~ Verified(job[p], Now(p), content)
    <3>1. Fails(p) /\ UNCHANGED cacheVars
      BY <1>2, <2>4 DEF Verify, cacheVars
    <3> QED
      BY <2>2, <3>1, AloneFails
  <2> QED
    BY <2>3, <2>4
<1> QED
  BY <1>1, <1>2

\* The end: the lock is what was resolved.
LEMMA ReadyAlone ==
    ASSUME CommandInv, AloneInv, NEW p \in Processes, job[p] # Idle, Goes(p, "ready"), UNCHANGED cacheVars,
           DOMAIN job[p].man # {} => lock' = Entries(job[p].man, job[p].res)
    PROVE  AloneInv'
<1> DEFINE X == MovedTo(job[p], "ready")
<1>1. job[p] \in Jobs /\ UNCHANGED <<clone, file>>
  BY DEF CommandInv, PackagesTypeOK, cacheVars
<1>2. /\ X.pc = "ready" /\ X.man = job[p].man /\ X.res = job[p].res /\ X.locked = job[p].locked
      /\ X.alone = job[p].alone
  BY <1>1, MovedIsAJob DEF ProcessSteps
<1> HIDE DEF X
<1>3. ASSUME job[p].alone PROVE Work(clone', file', lock', X)
  <2>1. Choices(clone, job[p]) /\ Places(clone, file, job[p])
    BY <1>3, AloneGives
  <2> QED
    BY <1>1, <1>2, <2>1 DEF Work, Choices, Places, Ends, Chosen
<1> QED
  BY <1>2, <1>3, GoesIs, AloneMoves DEF X

LEMMA EnsureAlone ==
    ASSUME PackagesParameters, CommandInv, AloneInv, NEW p \in Processes, Ensure(p) \/ LockWritten(p) PROVE AloneInv'
<1>1. job[p] # Idle /\ UNCHANGED cacheVars
  BY DEF Ensure, LockWritten, At
<1>2. CASE LockWritten(p)
  BY <1>1, <1>2, ReadyAlone DEF LockWritten
<1>3. CASE Ensure(p)
  <2>1. Fails(p) \/ Goes(p, "write")
        \/ (Goes(p, "ready") /\ (DOMAIN job[p].man # {} => lock' = Entries(job[p].man, job[p].res)))
    BY <1>3 DEF Ensure, texts
  <2>2. "write" \in ProcessSteps \ {"head", "ready"}
    BY DEF ProcessSteps
  <2> QED
    BY <1>1, <2>1, <2>2, ReadyAlone, AloneGoes, AloneFails
<1> QED
  BY <1>2, <1>3

LEMMA ProcessAlone ==
    ASSUME PackagesParameters, CommandParameters, CommandInv, AloneInv, NEW p \in Processes, Process(p)
    PROVE  AloneInv'
<1>0. {"rewrite", "open"} \subseteq FirstStages /\ "edit" \in Commands
  BY DEF FirstStages, Commands
<1>1. ASSUME NEW cmd \in Does[p] \ {"edit"}, Begin(p, cmd) PROVE AloneInv'
  BY <1>0, <1>1, StartsAlone DEF Begin, CommandParameters
<1>2. CASE Edit(p)
  BY <1>0, <1>2, StartsAlone DEF Edit, Add, RemoveName, BeginEdit
<1>3. CASE Package(p)
  BY <1>3, PickAlone, FetchingAlone, CheckoutAlone, ReadHeadAlone, FilesAlone DEF Package
<1> QED
  BY <1>1, <1>2, <1>3, TextsAlone, OpenAlone, CollectAlone, EnsureAlone, RelockAlone DEF Process

LEMMA NextAlone ==
    ASSUME PackagesParameters, CommandParameters, CommandInv, AloneInv, [PackagesNext]_packageVars PROVE AloneInv'
<1>1. CASE UNCHANGED <<job, clone, file, lock>>
  BY <1>1 DEF AloneInv
<1>2. CASE User
  BY <1>2, DisturbedAlone DEF User, EditByHand, DeleteLock, Pull, Touches
<1> QED
  BY <1>1, <1>2, ProcessAlone DEF PackagesNext, Publish, packageVars, texts, cacheVars

\* What a command alone has done stays done until it ends.
THEOREM AloneKeepsItsWork ==
    ASSUME PackagesParameters, CommandParameters
    PROVE  PackagesSpec => [](CommandInv /\ AloneInv)
<1>1. PackagesInit => CommandInv /\ AloneInv
  BY InitKeeps, InitAlone
<1>2. CommandInv /\ AloneInv /\ [PackagesNext]_packageVars => (CommandInv /\ AloneInv)'
  BY NextKeeps, NextAlone
<1> QED
  BY <1>1, <1>2, PTL DEF PackagesSpec

\* A command alone at its end has resolved what its manifest names.
LEMMA EndGives ==
    ASSUME CommandInv, AloneInv, NEW p \in Processes, AtEnd(p)
    PROVE  /\ job[p].pc = "ready" /\ DOMAIN job[p].res = DOMAIN job[p].man
           /\ Choices(clone, job[p]) /\ Places(clone, file, job[p]) /\ Ends(lock, job[p])
<1>1. job[p] # Idle /\ job[p].alone /\ At(p, "ready")
  BY DEF AtEnd, At
<1>2. job[p].pc = "ready" /\ DOMAIN job[p].res = DOMAIN job[p].man
  BY <1>1, AtGives DEF Sound, Stage, EndStages
<1> QED
  BY <1>1, <1>2, AloneGives

\* A command alone that succeeds leaves a lock that holds what it resolved,
\* and without a lock it resolved the version its manifest names, whatever
\* kills, failures, edits and other commands came before.
THEOREM LocksHoldResolutions ==
    ASSUME PackagesParameters, CommandParameters
    PROVE  PackagesSpec => []LockHoldsResolution
<1>1. CommandInv /\ AloneInv => LockHoldsResolution
  BY EndGives, NothingIsAbout DEF LockHoldsResolution, Ends, Choices, Chosen
<1> QED
  BY <1>1, AloneKeepsItsWork, PTL

\* A command alone resolves a locked dependency to its pin, however much was
\* published since, unless the manifest says "latest"; and whoever runs beside it,
\* a lock written here pins commits its clones have.
THEOREM PinsStayKept ==
    ASSUME PackagesParameters, CommandParameters
    PROVE  PackagesSpec => []PinsAreKept
<1>1. CommandInv /\ AloneInv => PinsAreResolved
  BY EndGives DEF PinsAreResolved, Choices, Chosen
<1> QED
  BY <1>1, AloneKeepsItsWork, LocalPinsStayFetched, PTL DEF PinsAreKept

\* What a command alone is about to read is what it resolved, unless two of
\* its dependencies are revisions of one repository.
THEOREM SourcesStayMatched ==
    ASSUME PackagesParameters, CommandParameters
    PROVE  PackagesSpec => []SourcesMatch
<1>1. CommandInv /\ AloneInv => SourcesMatch
  BY EndGives DEF SourcesMatch, Places, InPlace
<1> QED
  BY <1>1, AloneKeepsItsWork, PTL
=============================================================================
