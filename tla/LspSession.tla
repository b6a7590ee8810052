----------------------------- MODULE LspSession ----------------------------
(***************************************************************************)
(* A language server (LspServer) and the editor that talks to it over one  *)
(* ordered connection.  The editor is external: it follows the protocol,   *)
(* opens documents from disk, edits, saves and closes them, and asks.      *)
(***************************************************************************)
EXTENDS LspServer

LOCAL INSTANCE SequencesExt

CONSTANTS
    Requests,    \* bound: the kinds of request the editor sends
    Budget,      \* bound: how many notifications of each kind, and requests
    Window       \* the transport may start any of the first Window messages

VARIABLES
    editor,      \* the editor's buffer of each document
    inbox,       \* messages sent and not yet taken by the transport
    left,        \* what remains of Budget
    written      \* the texts each file has had (history)

clientVars == <<editor, inbox, left, written>>
vars == <<docs, index, docLock, wsLock, tasks, shown, disk,
          editor, inbox, left, written>>

ASSUME SessionAssumption ==
    /\ Requests \subseteq RequestKind
    /\ Budget \in [{"open", "change", "save", "request"} -> Nat]
    /\ Window \in Nat \ {0}

Buffer == [open : BOOLEAN, text : Texts \union {NoText}, version : Version]

Send(m) == inbox' = Append(inbox, m)

Msg(k, u, x, b, v) == [kind |-> k, uri |-> u, text |-> x, base |-> b, version |-> v]

Spend(k) == /\ left[k] > 0
            /\ left' = [left EXCEPT ![k] = @ - 1]
-----------------------------------------------------------------------------
(* The editor *)

\* Some editors restart at version 1, some go on counting.
ClientOpen(u) ==
    /\ ~ editor[u].open
    /\ Spend("open")
    /\ \E v \in {1, editor[u].version + 1} \intersect Version :
         /\ editor' = [editor EXCEPT ![u] = [open |-> TRUE, text |-> disk[u], version |-> v]]
         /\ Send(Msg("open", u, disk[u], NoText, v))
    /\ UNCHANGED <<serverVars, written>>

\* An incremental change names the text it was computed against.  In order it
\* does what a full replacement does, which is sent when messages may swap.
ClientChange(u, x) ==
    /\ editor[u].open /\ editor[u].text # x /\ editor[u].version < MaxVersion
    /\ Spend("change")
    /\ editor' = [editor EXCEPT ![u].text = x, ![u].version = @ + 1]
    /\ \E b \in {editor[u].text} \union (IF Window = 1 THEN {} ELSE {NoText}) :
         Send(Msg("change", u, x, b, editor[u].version + 1))
    /\ UNCHANGED <<serverVars, written>>

ClientSave(u) ==
    /\ editor[u].open
    /\ Spend("save")
    /\ disk' = [disk EXCEPT ![u] = editor[u].text]
    /\ written' = [written EXCEPT ![u] = @ \union {editor[u].text}]
    /\ Send(Msg("save", u, NoText, NoText, 0))
    /\ UNCHANGED <<docs, index, docLock, wsLock, tasks, shown, editor>>

ClientClose(u) ==
    /\ editor[u].open
    /\ editor' = [editor EXCEPT ![u].open = FALSE, ![u].text = NoText]
    /\ Send(Msg("close", u, NoText, NoText, 0))
    /\ UNCHANGED <<serverVars, left, written>>

ClientRequest(u, k) ==
    /\ editor[u].open
    /\ Spend("request")
    /\ Send(Msg(k, u, NoText, NoText, 0))
    /\ UNCHANGED <<serverVars, editor, written>>

\* buffer_unordered: a message is started in a free slot; Window = 1 keeps the
\* order of arrival.
Deliver(s) ==
    \E i \in 1..Len(inbox) :
        /\ i <= Window
        /\ Accept(s, inbox[i])
        /\ inbox' = RemoveAt(inbox, i)
        /\ UNCHANGED <<editor, left, written>>

RunHandler(s) == Run(s) /\ UNCHANGED clientVars

DropRequest(s) == CancelRequest(s) /\ UNCHANGED clientVars

Quiescent == inbox = << >> /\ \A s \in Slots : tasks[s] = Idle

\* Nothing is left to do until the editor speaks again.
Rest == Quiescent /\ UNCHANGED vars

Init ==
    /\ disk \in [Uris -> Texts \ Crashing]
    /\ docs = [u \in Uris |-> NoDoc]
    /\ index = Rescan(disk)
    /\ docLock = Unlocked
    /\ wsLock = Unlocked
    /\ tasks = [s \in Slots |-> Idle]
    /\ shown = [u \in Uris |-> Cleared]
    /\ editor = [u \in Uris |-> [open |-> FALSE, text |-> NoText, version |-> 0]]
    /\ inbox = << >>
    /\ left = Budget
    /\ written = [u \in Uris |-> {disk[u]}]

Next ==
    \/ \E u \in Uris : \/ ClientOpen(u) \/ ClientSave(u) \/ ClientClose(u)
                       \/ \E x \in Texts : ClientChange(u, x)
                       \/ \E k \in Requests : ClientRequest(u, k)
    \/ \E s \in Slots : Deliver(s) \/ RunHandler(s) \/ DropRequest(s)
    \/ Rest

\* The runtime polls every woken handler, the blocking pool finishes what it
\* started, and the transport takes the next message when a slot is free.
Fairness ==
    /\ \A s \in Slots : WF_vars(RunHandler(s))
    /\ WF_vars(\E s \in Slots : Deliver(s))

Spec == Init /\ [][Next]_vars

FairSpec == Spec /\ Fairness
-----------------------------------------------------------------------------
(* Properties *)

TypeOK ==
    /\ docs \in [Uris -> Document \union {NoDoc}]
    /\ index \in [Uris -> Texts \union {NoText}]
    /\ docLock \in Lock
    /\ wsLock \in Lock
    /\ tasks \in [Slots -> Task \union {Idle}]
    /\ shown \in [Uris -> Texts \union {NoText}]
    /\ disk \in [Uris -> Texts]
    /\ editor \in [Uris -> Buffer]
    /\ inbox \in Seq(Message)
    /\ left \in [DOMAIN Budget -> Nat]
    /\ written \in [Uris -> SUBSET Texts]

\* Nothing of document u is in flight.
Settled(u) ==
    /\ \A i \in 1..Len(inbox) : inbox[i].uri # u
    /\ \A s \in Slots : tasks[s] # Idle => tasks[s].uri # u

\* A report is only ever installed for the text the document holds: hover,
\* completion and the other readers of DocumentState.report combine the two
\* under one guard and never check that they belong together.
ReportIsOfSource ==
    \A u \in Uris : IsOpen(u) => docs[u].report \in {NoText, docs[u].source}

\* Incremental synchronisation never drifts: once the notifications of a
\* document are handled, the server holds the editor's text and version.
ServerFollowsEditor ==
    \A u \in Uris : Settled(u) =>
        IF editor[u].open
        THEN IsGeneration(u, editor[u].text, editor[u].version)
        ELSE ~ IsOpen(u)

\* Once the handlers of a document are done, the client was last told what
\* the document it holds deserves: the diagnostics of that text, or none when
\* it is closed (an analysis that crashed leaves what was there).
DiagnosticsSettle ==
    \A u \in Uris : Settled(u) =>
        /\ ~ IsOpen(u) => shown[u] = Cleared
        /\ IsOpen(u) /\ docs[u].source \notin Crashing => shown[u] = docs[u].source

\* A superseded analysis never repopulates the client: a notification is
\* queued for the generation that is current, or clears a closed document.
NoObsoleteDiagnostics ==
    [][\A u \in Uris : shown'[u] # shown[u] =>
          IF docs'[u] = NoDoc THEN shown'[u] = Cleared
          ELSE shown'[u] = docs'[u].source]_vars

\* The symbol index takes an entry only from the generation that is open, even
\* though the lock on the index is awaited after the generation was compared.
IndexFromCurrentGeneration ==
    [][\A u \in Uris : index'[u] # index[u] /\ index'[u] # NoText =>
          IsOpen(u) /\ index'[u] = docs[u].source]_vars

\* The index never advertises text that was not on disk.
IndexedTextsWereSaved ==
    \A u \in Uris : index[u] # NoText => index[u] \in written[u]

\* Guards are held exactly across the suspensions that need them, whatever is
\* cancelled: no handler leaks a guard, none writes without one.
GuardsMatchHandlers ==
    /\ docLock.writers = {s \in Slots : At(s, "flush")}
    /\ docLock.readers = {s \in Slots : \E pc \in {"saveFlush", "index", "symbolWs", "fallbackWs"} :
                                            At(s, pc)}
    /\ wsLock.writers = {} /\ wsLock.readers = {}
    /\ Exclusive(docLock)

\* A handler can move unless it awaits a lock that is not its turn to take.
CanRun(s) ==
    /\ tasks[s] # Idle
    /\ tasks[s].pc \in PcDocs => \E m \in Mode : Granted(docLock, s, m)
    /\ tasks[s].pc \in PcWs   => \E m \in Mode : Granted(wsLock, s, m)

\* Documents before workspace: while a handler waits for a lock, some handler
\* can move, so no two wait for each other, and none waits in no queue.
SomeHandlerMoves == (\E s \in Slots : tasks[s] # Idle) => \E s \in Slots : CanRun(s)

\* A handler whose turn it is has a step to take, in the mode it asked for.
TurnsAreTaken == \A s \in Slots : CanRun(s) => ENABLED RunHandler(s)

NoLockCycle == SomeHandlerMoves /\ TurnsAreTaken

\* The buffers a request was computed from are the buffers that are open.
CurrentBuffers(t) ==
    \A v \in Loads[t.uri] :
        IF IsOpen(v) THEN t.loaded[v] = docs[v].source ELSE t.overlays[v] = NoText

\* References and loader-backed definitions answer for the buffers as they are
\* when the answer is given, not as they were when the request arrived.
AnswersAreCurrent ==
    [][\A s \in Slots :
          /\ At(s, "verify") /\ tasks'[s] # Idle
          /\ tasks'[s].pc = "replied" /\ tasks'[s].result = "edits"
          => CurrentBuffers(tasks[s])]_vars

\* The comment on IndexedDocument and docs/tooling/lsp.md: saving updates the
\* index, which does not advertise declarations that are no longer on disk.
IndexMatchesDisk ==
    \A u \in Workspace : Settled(u) /\ disk[u] \notin Crashing =>
        index[u] = IF disk[u] \in Broken THEN NoText ELSE disk[u]

\* Whatever was superseded, cancelled or reordered on the way, the editor is
\* eventually shown the diagnostics of its final text.
FinallyDiagnosed ==
    <>[](\A u \in Uris : editor[u].open /\ editor[u].text \notin Crashing =>
            shown[u] = editor[u].text)

\* With messages started out of order, a notification still never moves an
\* open document back to an older version.
VersionsOnlyGrow ==
    [][\A u \in Uris : IsOpen(u) /\ docs'[u] # NoDoc /\ docs'[u] # docs[u] =>
          \/ docs'[u].version > docs[u].version
          \/ docs'[u] = [docs[u] EXCEPT !.report = docs[u].source]]_vars

\* Neither an answer nor a notification that came too late takes effect.
NothingLateTakesEffect == AnswersAreCurrent /\ VersionsOnlyGrow
=============================================================================
