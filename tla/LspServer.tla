----------------------------- MODULE LspServer -----------------------------
(***************************************************************************)
(* The asynchronous core of the language server (src/lsp/server.rs): the   *)
(* open documents, the workspace index, the analyses that run on the       *)
(* blocking pool, and the diagnostics queued for the client.               *)
(*                                                                         *)
(* A handler is a future in a slot.  Everything it does between two points *)
(* where it can be suspended (a lock it awaits, a blocking task it joins,  *)
(* a notification it flushes) is one action.  Source text is abstract: a   *)
(* text is analysed as a whole, and either yields a report, or a parse     *)
(* error, or crashes the analysis task.                                    *)
(***************************************************************************)
EXTENDS Naturals, Sequences, FiniteSets, RwLock

CONSTANTS
    Uris,        \* the documents of the session
    Workspace,   \* those beneath a root the client negotiated
    Texts,       \* what a document may contain
    Broken,      \* texts that do not parse
    Crashing,    \* texts on which the analysis task panics
    Loads,       \* Loads[u]: the files the import graph of u reaches
    MaxVersion,  \* bound: document versions of one session
    NoText,      \* no text: a closed document, an absent entry
    NoDoc,       \* the document is not open
    Idle         \* no handler runs in the slot

VARIABLES
    docs,      \* documents: RwLock<HashMap<Url, DocumentState>>
    index,     \* workspace: the text behind each entry of the symbol index
    docLock,   \* the lock around documents
    wsLock,    \* the lock around workspace
    tasks,     \* the handler in each slot
    shown,     \* the diagnostics last queued for each document
    disk       \* the files, as the client saves them

serverVars == <<docs, index, docLock, wsLock, tasks, shown, disk>>
-----------------------------------------------------------------------------
Version == 0..MaxVersion

\* A report stands for the text it was computed from.
Document == [source : Texts, report : Texts \union {NoText}, version : Version]

\* The diagnostics of a text (of its report or of its parse error), or none.
Cleared == NoText

MessageKind == {"open", "change", "save", "close"}
RequestKind == {"definition", "references", "rename", "symbol"}

\* A message names a document; base is the text the ranges of an incremental
\* change were computed against (NoText: a full replacement).
Message == [kind : MessageKind \union RequestKind, uri : Uris,
            text : Texts \union {NoText}, base : Texts \union {NoText},
            version : Version]

PcDocs == {"install", "apply", "prepare", "commit", "remove", "capture",
           "indexCheck", "snapshot", "verify", "fallback", "symbol"}
PcWs   == {"index", "symbolWs", "fallbackWs", "renameWs"}
PcPool == {"analyze", "savePool", "load"}
PcTask == PcDocs \union PcWs \union PcPool
          \union {"flush", "saveFlush", "replied"}

Result == {"none", "report", "parse", "cancelled", "failed", "ok", "err",
           "edits", "null"}

Task == [kind : MessageKind \union RequestKind, uri : Uris, pc : PcTask,
         text : Texts \union {NoText}, base : Texts \union {NoText},
         version : Version, cancelled : BOOLEAN, result : Result,
         overlays : [Uris -> Texts \union {NoText}],
         loaded : [Uris -> Texts \union {NoText}]]

ASSUME LspAssumption ==
    /\ Workspace \subseteq Uris
    /\ Broken \subseteq Texts
    /\ Crashing \subseteq Texts
    /\ NoText \notin Texts
    /\ Loads \in [Uris -> SUBSET Uris]
    /\ MaxVersion \in Nat
    /\ NoDoc \notin Document
    /\ Idle \notin Task

NoFiles == [u \in Uris |-> NoText]

\* What analysing a text to the end yields (analyze_source).
Outcome(x) ==
    IF x \in Crashing THEN "failed" ELSE IF x \in Broken THEN "parse" ELSE "report"

\* WorkspaceIndex::from_initialize_params and rescan: files that parse.
Rescan(files) ==
    [u \in Uris |-> IF u \in Workspace /\ Outcome(files[u]) = "report"
                    THEN files[u] ELSE NoText]

IsOpen(u) == docs[u] # NoDoc
-----------------------------------------------------------------------------
(* document.rs *)

\* Mutant: the version is counted twice.
NewDocumentSkips(x, v) == [source |-> x, report |-> NoText, version |-> v + 1]

NewDocument(x, v) == [source |-> x, report |-> NoText, version |-> v]

\* Mutant: the version alone is compared.
IsGenerationByVersion(u, x, v) == IsOpen(u) /\ docs[u].version = v

\* Mutant: any open generation will do.
IsGenerationOfAny(u, x, v) == IsOpen(u)

IsGeneration(u, x, v) ==
    IsOpen(u) /\ docs[u].version = v /\ docs[u].source = x

\* Mutant: off by one.
IsNewerByTwo(u, v) == v > docs[u].version + 1

\* Mutant: any other version is accepted.
IsNewerOrOlder(u, v) == v # docs[u].version

IsNewer(u, v) == ~ (v <= docs[u].version)

\* apply_change: what the edits of a notification make of the source.  Ranges
\* computed against another text may be rejected (NoText) or land anywhere.
ApplyChanges(source, base, x) ==
    IF base \in {source, NoText} THEN {x} ELSE Texts \union {NoText}

\* Mutant: the new generation keeps the token that was cancelled.
CancelAnalysesForever(u, ts) ==
    [s \in Slots |->
        IF ts[s] # Idle /\ ts[s].uri = u
        THEN [ts[s] EXCEPT !.cancelled = TRUE] ELSE ts[s]]

\* DocumentState::update cancels the token every analysis of the replaced
\* generation holds; did_close does so for the generation it removes.
CancelAnalyses(u, ts) ==
    [s \in Slots |->
        IF ts[s] # Idle /\ ts[s].uri = u /\ ts[s].pc = "analyze"
        THEN [ts[s] EXCEPT !.cancelled = TRUE] ELSE ts[s]]
-----------------------------------------------------------------------------
(* Handlers *)

At(s, pc) == tasks[s] # Idle /\ tasks[s].pc = pc

\* The handler in slot s moves to pc, or returns.
Goto(s, pc) == [tasks EXCEPT ![s].pc = pc]
Return(s)   == [tasks EXCEPT ![s] = Idle]
Reply(s, r) == [tasks EXCEPT ![s].pc = "replied", ![s].result = r]

\* The documents lock is handed on, or kept, and the next await is queued.
PassDocs(s)          == docLock' = Pass(docLock)
PassDocsAndAwait(s, m) == docLock' = Await(Pass(docLock), s, m)

FirstAwait ==
    [open |-> <<"install", "write">>,   change |-> <<"apply", "write">>,
     close |-> <<"remove", "write">>,   save |-> <<"capture", "read">>,
     definition |-> <<"snapshot", "read">>, references |-> <<"snapshot", "read">>,
     rename |-> <<"snapshot", "read">>, symbol |-> <<"symbol", "read">>]

\* The transport starts the handler of a message in a free slot; it runs up to
\* its first await, which is the documents lock in every handler.
Accept(s, m) ==
    /\ tasks[s] = Idle
    /\ tasks' = [tasks EXCEPT ![s] =
         [kind |-> m.kind, uri |-> m.uri, pc |-> FirstAwait[m.kind][1],
          text |-> m.text, base |-> m.base, version |-> m.version,
          cancelled |-> FALSE, result |-> "none",
          overlays |-> NoFiles, loaded |-> NoFiles]]
    /\ docLock' = Await(docLock, s, FirstAwait[m.kind][2])
    /\ UNCHANGED <<docs, index, wsLock, shown, disk>>

\* analyze_and_publish(install = true), up to the capture of the token.
InstallNew(s) ==
    LET t == tasks[s] IN
    /\ At(s, "install") /\ Granted(docLock, s, "write")
    /\ ~ IsOpen(t.uri)
    /\ docs' = [docs EXCEPT ![t.uri] = NewDocument(t.text, t.version)]
    /\ tasks' = Goto(s, "prepare")
    /\ PassDocsAndAwait(s, "read")
    /\ UNCHANGED <<index, wsLock, shown, disk>>

InstallNewer(s) ==
    LET t == tasks[s] IN
    /\ At(s, "install") /\ Granted(docLock, s, "write")
    /\ IsOpen(t.uri) /\ IsNewer(t.uri, t.version)
    /\ docs' = [docs EXCEPT ![t.uri] = NewDocument(t.text, t.version)]
    /\ tasks' = [CancelAnalyses(t.uri, tasks) EXCEPT ![s].pc = "prepare"]
    /\ PassDocsAndAwait(s, "read")
    /\ UNCHANGED <<index, wsLock, shown, disk>>

InstallStale(s) ==
    LET t == tasks[s] IN
    /\ At(s, "install") /\ Granted(docLock, s, "write")
    /\ IsOpen(t.uri) /\ ~ IsNewer(t.uri, t.version)
    /\ tasks' = Return(s)
    /\ PassDocs(s)
    /\ UNCHANGED <<docs, index, wsLock, shown, disk>>

\* did_change: the edits are applied and installed under one write lock.
ApplyChange(s) ==
    LET t == tasks[s] IN
    /\ At(s, "apply") /\ Granted(docLock, s, "write")
    /\ IsOpen(t.uri) /\ IsNewer(t.uri, t.version)
    /\ \E x \in ApplyChanges(docs[t.uri].source, t.base, t.text) \ {NoText} :
         /\ docs' = [docs EXCEPT ![t.uri] = NewDocument(x, t.version)]
         /\ tasks' = [CancelAnalyses(t.uri, tasks) EXCEPT ![s].pc = "prepare",
                                                          ![s].text = x]
    /\ PassDocsAndAwait(s, "read")
    /\ UNCHANGED <<index, wsLock, shown, disk>>

\* The document is not open, the version is not newer, or a range is invalid.
RejectChange(s) ==
    LET t == tasks[s] IN
    /\ At(s, "apply") /\ Granted(docLock, s, "write")
    /\ \/ ~ IsOpen(t.uri)
       \/ IsOpen(t.uri) /\ ~ IsNewer(t.uri, t.version)
       \/ IsOpen(t.uri) /\ NoText \in ApplyChanges(docs[t.uri].source, t.base, t.text)
    /\ tasks' = Return(s)
    /\ PassDocs(s)
    /\ UNCHANGED <<docs, index, wsLock, shown, disk>>

\* The token of the generation is taken and the analysis starts, unless a
\* later notification has already replaced the generation.
Prepare(s) ==
    LET t == tasks[s] IN
    /\ At(s, "prepare") /\ Granted(docLock, s, "read")
    /\ tasks' = IF IsGeneration(t.uri, t.text, t.version)
                THEN Goto(s, "analyze") ELSE Return(s)
    /\ PassDocs(s)
    /\ UNCHANGED <<docs, index, wsLock, shown, disk>>

\* The blocking task returns.  A cancelled one stops at a checkpoint or, past
\* the last checkpoint, completes.
Analyze(s) ==
    LET t == tasks[s] IN
    /\ At(s, "analyze")
    /\ \E r \in {Outcome(t.text)} \union (IF t.cancelled THEN {"cancelled"} ELSE {}) :
         tasks' = [tasks EXCEPT ![s].pc = "commit", ![s].result = r]
    /\ docLock' = Await(docLock, s, "write")
    /\ UNCHANGED <<docs, index, wsLock, shown, disk>>

\* The result belongs to the current generation: the report is installed, and
\* the diagnostics are queued and flushed before the lock is released.
CommitReport(s) ==
    LET t == tasks[s] IN
    /\ At(s, "commit") /\ Granted(docLock, s, "write")
    /\ IsGeneration(t.uri, t.text, t.version) /\ t.result = "report"
    /\ docs' = [docs EXCEPT ![t.uri].report = t.text]
    /\ shown' = [shown EXCEPT ![t.uri] = t.text]
    /\ tasks' = Goto(s, "flush")
    /\ docLock' = Hold(docLock, s, "write")
    /\ UNCHANGED <<index, wsLock, disk>>

CommitParseError(s) ==
    LET t == tasks[s] IN
    /\ At(s, "commit") /\ Granted(docLock, s, "write")
    /\ IsGeneration(t.uri, t.text, t.version) /\ t.result = "parse"
    /\ shown' = [shown EXCEPT ![t.uri] = t.text]
    /\ tasks' = Goto(s, "flush")
    /\ docLock' = Hold(docLock, s, "write")
    /\ UNCHANGED <<docs, index, wsLock, disk>>

CommitNothing(s) ==
    LET t == tasks[s] IN
    /\ At(s, "commit") /\ Granted(docLock, s, "write")
    /\ ~ IsGeneration(t.uri, t.text, t.version) \/ t.result \in {"cancelled", "failed"}
    /\ tasks' = Return(s)
    /\ PassDocs(s)
    /\ UNCHANGED <<docs, index, wsLock, shown, disk>>

Flushed(s) ==
    /\ At(s, "flush")
    /\ tasks' = Return(s)
    /\ docLock' = Release(docLock, s)
    /\ UNCHANGED <<docs, index, wsLock, shown, disk>>

\* did_close.  The document goes, and its diagnostics are cleared: the handlers
\* are polled by one task, and the clear is queued before this one suspends.
CloseDocument(s) ==
    LET u == tasks[s].uri IN
    /\ At(s, "remove") /\ Granted(docLock, s, "write")
    /\ docs' = [docs EXCEPT ![u] = NoDoc]
    /\ tasks' = [CancelAnalyses(u, tasks) EXCEPT ![s] = Idle]
    /\ shown' = [shown EXCEPT ![u] = Cleared]
    /\ PassDocs(s)
    /\ UNCHANGED <<index, wsLock, disk>>
-----------------------------------------------------------------------------
(* did_save *)

\* The generation that was saved is captured; its report, if there is one, is
\* published again under the same read guard.
Capture(s) ==
    LET t == tasks[s]
        d == docs[t.uri]
    IN
    /\ At(s, "capture") /\ Granted(docLock, s, "read")
    /\ IsOpen(t.uri)
    /\ IF d.report # NoText
       THEN /\ shown' = [shown EXCEPT ![t.uri] = d.report]
            /\ docLock' = Hold(docLock, s, "read")
       ELSE /\ PassDocs(s)
            /\ UNCHANGED shown
    /\ tasks' = [tasks EXCEPT ![s].pc = IF d.report # NoText THEN "saveFlush" ELSE "savePool",
                              ![s].text = d.source, ![s].version = d.version]
    /\ UNCHANGED <<docs, index, wsLock, disk>>

CaptureNothing(s) ==
    /\ At(s, "capture") /\ Granted(docLock, s, "read")
    /\ ~ IsOpen(tasks[s].uri)
    /\ tasks' = Return(s)
    /\ PassDocs(s)
    /\ UNCHANGED <<docs, index, wsLock, shown, disk>>

SaveFlushed(s) ==
    /\ At(s, "saveFlush")
    /\ tasks' = Goto(s, "savePool")
    /\ docLock' = Release(docLock, s)
    /\ UNCHANGED <<docs, index, wsLock, shown, disk>>

\* The index analysis is not cancellable; when its task fails, the handler
\* returns and the index keeps its prior snapshot.
SaveAnalyzed(s) ==
    LET t == tasks[s] IN
    /\ At(s, "savePool")
    /\ IF Outcome(t.text) = "failed"
       THEN /\ tasks' = Return(s)
            /\ UNCHANGED docLock
       ELSE /\ tasks' = [tasks EXCEPT ![s].pc = "indexCheck", ![s].result = Outcome(t.text)]
            /\ docLock' = Await(docLock, s, "read")
    /\ UNCHANGED <<docs, index, wsLock, shown, disk>>

\* Mutant: the open buffer is read again instead of the text that was saved.
IndexCheckRereads(s) ==
    LET t == tasks[s] IN
    /\ At(s, "indexCheck") /\ Granted(docLock, s, "read")
    /\ IF IsOpen(t.uri)
       THEN /\ tasks' = [tasks EXCEPT ![s].pc = "index", ![s].text = docs[t.uri].source]
            /\ docLock' = Hold(docLock, s, "read")
            /\ wsLock' = Await(wsLock, s, "write")
       ELSE /\ tasks' = Return(s)
            /\ PassDocs(s)
            /\ UNCHANGED wsLock
    /\ UNCHANGED <<docs, index, shown, disk>>

\* Mutant: the documents guard is dropped before the workspace is awaited.
IndexCheckDropsGuard(s) ==
    LET t == tasks[s] IN
    /\ At(s, "indexCheck") /\ Granted(docLock, s, "read")
    /\ IF IsGeneration(t.uri, t.text, t.version)
       THEN /\ tasks' = Goto(s, "index")
            /\ wsLock' = Await(wsLock, s, "write")
       ELSE /\ tasks' = Return(s)
            /\ UNCHANGED wsLock
    /\ PassDocs(s)
    /\ UNCHANGED <<docs, index, shown, disk>>

\* update_workspace_from_saved_generation: the documents guard is kept while
\* the workspace lock is awaited.
IndexCheck(s) ==
    LET t == tasks[s] IN
    /\ At(s, "indexCheck") /\ Granted(docLock, s, "read")
    /\ IF IsGeneration(t.uri, t.text, t.version)
       THEN /\ tasks' = Goto(s, "index")
            /\ docLock' = Hold(docLock, s, "read")
            /\ wsLock' = Await(wsLock, s, "write")
       ELSE /\ tasks' = Return(s)
            /\ PassDocs(s)
            /\ UNCHANGED wsLock
    /\ UNCHANGED <<docs, index, shown, disk>>

\* WorkspaceIndex::update_from_analysis; both guards are dropped after it.
UpdateIndex(s) ==
    LET t == tasks[s] IN
    /\ At(s, "index") /\ Granted(wsLock, s, "write")
    /\ index' = IF t.uri \in Workspace
                THEN [index EXCEPT ![t.uri] = IF t.result = "report" THEN t.text ELSE NoText]
                ELSE index
    /\ tasks' = Return(s)
    /\ wsLock' = Pass(wsLock)
    /\ docLock' = Release(docLock, s)
    /\ UNCHANGED <<docs, shown, disk>>
-----------------------------------------------------------------------------
(* Requests *)

\* loader_overlays: the open buffers override the disk.
Overlays == [u \in Uris |-> IF IsOpen(u) THEN docs[u].source ELSE NoText]

\* The effective source of every file the import graph reaches.
Effective(u, overlays) ==
    [v \in Uris |-> IF v \notin Loads[u] THEN NoText
                    ELSE IF overlays[v] # NoText THEN overlays[v] ELSE disk[v]]

\* Mutant: the other buffers of the import graph are not compared.
SnapshotMatchesOwn(t) == IsOpen(t.uri) /\ docs[t.uri].source = t.text

\* document_matches_source /\ loaded_snapshot_matches_open_documents
SnapshotMatches(t) ==
    /\ IsOpen(t.uri) /\ docs[t.uri].source = t.text
    /\ \A v \in Uris :
         t.loaded[v] # NoText =>
            /\ t.overlays[v] # NoText => IsOpen(v) /\ docs[v].source = t.overlays[v]
            /\ IsOpen(v) => t.loaded[v] = docs[v].source

\* goto_definition also needs a report.
Snapshot(s) ==
    LET t == tasks[s]
        d == docs[t.uri]
    IN
    /\ At(s, "snapshot") /\ Granted(docLock, s, "read")
    /\ IF IsOpen(t.uri) /\ (t.kind = "definition" => d.report # NoText)
       THEN tasks' = [tasks EXCEPT ![s].pc = "load", ![s].text = d.source,
                                   ![s].overlays = Overlays]
       ELSE tasks' = Reply(s, "null")
    /\ PassDocs(s)
    /\ UNCHANGED <<docs, index, wsLock, shown, disk>>

\* analyze_loaded_document_cancellable on the blocking pool.  A file that does
\* not parse fails the load.
Load(s) ==
    LET t == tasks[s]
        e == Effective(t.uri, t.overlays)
        ok == \A v \in Loads[t.uri] : Outcome(e[v]) = "report"
    IN
    /\ At(s, "load")
    /\ IF ok
       THEN tasks' = [tasks EXCEPT ![s].pc = "verify", ![s].loaded = e]
       ELSE tasks' = IF t.kind = "definition" THEN Goto(s, "fallback") ELSE Reply(s, "null")
    /\ docLock' = IF ok \/ t.kind = "definition" THEN Await(docLock, s, "read") ELSE docLock
    /\ UNCHANGED <<docs, index, wsLock, shown, disk>>

VerifyStale(s) ==
    /\ At(s, "verify") /\ Granted(docLock, s, "read")
    /\ ~ SnapshotMatches(tasks[s])
    /\ tasks' = Reply(s, "null")
    /\ PassDocs(s)
    /\ UNCHANGED <<docs, index, wsLock, shown, disk>>

\* references and definition answer while they hold the guard.
VerifyAnswer(s) ==
    /\ At(s, "verify") /\ Granted(docLock, s, "read")
    /\ tasks[s].kind \in {"references", "definition"}
    /\ SnapshotMatches(tasks[s])
    /\ tasks' = Reply(s, "edits")
    /\ PassDocs(s)
    /\ UNCHANGED <<docs, index, wsLock, shown, disk>>

\* Mutant: the guard lives on while the fallback awaits the lock again.
VerifyFallbackKeepsGuard(s) ==
    /\ At(s, "verify") /\ Granted(docLock, s, "read")
    /\ tasks[s].kind = "definition"
    /\ SnapshotMatches(tasks[s])
    /\ tasks' = Goto(s, "fallback")
    /\ docLock' = Await(Hold(docLock, s, "read"), s, "read")
    /\ UNCHANGED <<docs, index, wsLock, shown, disk>>

\* The snapshot holds no definition for the position: the fallback locks again.
VerifyFallback(s) ==
    /\ At(s, "verify") /\ Granted(docLock, s, "read")
    /\ tasks[s].kind = "definition"
    /\ SnapshotMatches(tasks[s])
    /\ tasks' = Goto(s, "fallback")
    /\ PassDocsAndAwait(s, "read")
    /\ UNCHANGED <<docs, index, wsLock, shown, disk>>

\* rename drops the documents guard, then awaits the workspace lock.
VerifyRename(s) ==
    /\ At(s, "verify") /\ Granted(docLock, s, "read")
    /\ tasks[s].kind = "rename"
    /\ SnapshotMatches(tasks[s])
    /\ tasks' = Goto(s, "renameWs")
    /\ PassDocs(s)
    /\ wsLock' = Await(wsLock, s, "read")
    /\ UNCHANGED <<docs, index, shown, disk>>

RenameAnswer(s) ==
    /\ At(s, "renameWs") /\ Granted(wsLock, s, "read")
    /\ tasks' = Reply(s, "edits")
    /\ wsLock' = Pass(wsLock)
    /\ UNCHANGED <<docs, index, docLock, shown, disk>>

Fallback(s) ==
    LET t == tasks[s] IN
    /\ At(s, "fallback") /\ Granted(docLock, s, "read")
    /\ IF IsOpen(t.uri) /\ docs[t.uri].source = t.text
       THEN /\ tasks' = Goto(s, "fallbackWs")
            /\ docLock' = Hold(docLock, s, "read")
            /\ wsLock' = Await(wsLock, s, "read")
       ELSE /\ tasks' = Reply(s, "null")
            /\ PassDocs(s)
            /\ UNCHANGED wsLock
    /\ UNCHANGED <<docs, index, shown, disk>>

\* symbol: the documents lock, then the workspace lock, as in the fallback.
Symbol(s) ==
    /\ At(s, "symbol") /\ Granted(docLock, s, "read")
    /\ tasks' = Goto(s, "symbolWs")
    /\ docLock' = Hold(docLock, s, "read")
    /\ wsLock' = Await(wsLock, s, "read")
    /\ UNCHANGED <<docs, index, shown, disk>>

AnswerFromIndex(s) ==
    /\ At(s, "symbolWs") \/ At(s, "fallbackWs")
    /\ Granted(wsLock, s, "read")
    /\ tasks' = Reply(s, "edits")
    /\ wsLock' = Pass(wsLock)
    /\ docLock' = Release(docLock, s)
    /\ UNCHANGED <<docs, index, shown, disk>>

Replied(s) ==
    /\ At(s, "replied")
    /\ tasks' = Return(s)
    /\ UNCHANGED <<docs, index, docLock, wsLock, shown, disk>>

\* Mutant: the guards of a cancelled request outlive it.
CancelRequestLeaks(s) ==
    /\ tasks[s] # Idle /\ tasks[s].kind \in RequestKind /\ ~ At(s, "replied")
    /\ tasks' = Return(s)
    /\ docLock' = [docLock EXCEPT !.queue = Forget(docLock, s).queue]
    /\ wsLock' = Forget(wsLock, s)
    /\ UNCHANGED <<docs, index, shown, disk>>

\* $/cancelRequest: the future of a pending request is dropped, with the
\* guards it holds and its places in the queues (CancelOnDrop signals the pool).
CancelRequest(s) ==
    /\ tasks[s] # Idle /\ tasks[s].kind \in RequestKind /\ ~ At(s, "replied")
    /\ tasks' = Return(s)
    /\ docLock' = Forget(docLock, s)
    /\ wsLock' = Forget(wsLock, s)
    /\ UNCHANGED <<docs, index, shown, disk>>

\* What the runtime does for the handler in slot s without the client.
Run(s) ==
    \/ InstallNew(s) \/ InstallNewer(s) \/ InstallStale(s)
    \/ ApplyChange(s) \/ RejectChange(s) \/ Prepare(s)
    \/ Analyze(s) \/ CommitReport(s) \/ CommitParseError(s) \/ CommitNothing(s)
    \/ Flushed(s) \/ CloseDocument(s)
    \/ Capture(s) \/ CaptureNothing(s) \/ SaveFlushed(s) \/ SaveAnalyzed(s)
    \/ IndexCheck(s) \/ UpdateIndex(s)
    \/ Snapshot(s) \/ Load(s) \/ VerifyStale(s) \/ VerifyAnswer(s)
    \/ VerifyFallback(s) \/ VerifyRename(s) \/ RenameAnswer(s)
    \/ Fallback(s) \/ Symbol(s) \/ AnswerFromIndex(s) \/ Replied(s)
=============================================================================
