-------------------------- MODULE LspServer_proofs --------------------------
(***************************************************************************)
(* What one step of a handler of the language server does to the types,    *)
(* to the guards and to the documents: the lemmas the theorems about the   *)
(* session rest on.                                                        *)
(***************************************************************************)
EXTENDS LspServer, SequenceTheorems, TLAPS

LOCAL INSTANCE SequencesExt

-----------------------------------------------------------------------------
(* Types of the lock operators *)

\* Removing an element leaves a sequence over the same set.
LEMMA RemoveAtType ==
    ASSUME NEW S, NEW q \in Seq(S), NEW i \in 1..Len(q)
    PROVE  RemoveAt(q, i) \in Seq(S)
  BY DEF RemoveAt

\* What removing an element leaves, and where.
LEMMA RemoveAtElements ==
    ASSUME NEW S, NEW w \in Seq(S), NEW i \in 1..Len(w)
    PROVE  /\ Len(RemoveAt(w, i)) = Len(w) - 1
           /\ \A j \in 1..Len(RemoveAt(w, i)) :
                RemoveAt(w, i)[j] = IF j < i THEN w[j] ELSE w[j + 1]
<1> DEFINE R == RemoveAt(w, i)
<1> DEFINE p == SubSeq(w, 1, i - 1)
           q == SubSeq(w, i + 1, Len(w))
<1>0. Len(w) \in Nat /\ i \in Int /\ (\A j \in 1..Len(w) : w[j] \in S)
  BY LenProperties, ElementOfSeq
<1>1. /\ p \in Seq(S) /\ Len(p) = i - 1
      /\ \A j \in 1..(i - 1) : p[j] = w[j]
  <2>1. \A j \in 1..(i - 1) : w[j] \in S
    BY <1>0
  <2> QED BY <1>0, <2>1, SubSeqProperties
<1>2. /\ q \in Seq(S) /\ Len(q) = Len(w) - i
      /\ \A j \in 1..(Len(w) - i) : q[j] = w[i + j]
  <2>1. \A j \in (i + 1)..Len(w) : w[j] \in S
    BY <1>0
  <2>2. /\ q \in Seq(S)
        /\ Len(q) = IF i + 1 <= Len(w) THEN Len(w) - (i + 1) + 1 ELSE 0
        /\ \A j \in 1..(Len(w) - (i + 1) + 1) : q[j] = w[(i + 1) + j - 1]
    BY <1>0, <2>1, SubSeqProperties
  <2> HIDE DEF q
  <2>3. ASSUME NEW j \in 1..(Len(w) - i) PROVE q[j] = w[i + j]
    <3>1. j \in 1..(Len(w) - (i + 1) + 1) /\ (i + 1) + j - 1 = i + j
      BY <1>0
    <3>2. q[j] = w[(i + 1) + j - 1]
      BY <2>2, <3>1
    <3> QED BY <3>1, <3>2
  <2>4. Len(q) = Len(w) - i
    BY <1>0, <2>2
  <2> QED BY <2>2, <2>3, <2>4
<1>3. R = p \o q
  BY DEF RemoveAt
<1> HIDE DEF p, q
<1>4. /\ Len(R) = Len(p) + Len(q)
      /\ \A j \in 1..(Len(p) + Len(q)) : R[j] = IF j <= Len(p) THEN p[j] ELSE q[j - Len(p)]
  <2>1. p \in Seq(S) /\ q \in Seq(S)
    BY <1>1, <1>2
  <2>2. /\ Len(p \o q) = Len(p) + Len(q)
        /\ \A j \in 1..Len(p) + Len(q) : (p \o q)[j] = IF j <= Len(p) THEN p[j] ELSE q[j - Len(p)]
    BY ONLY <2>1, ConcatProperties
  <2> QED BY <1>3, <2>2
<1>5. Len(R) = Len(w) - 1
  BY <1>0, <1>1, <1>2, <1>4
<1>6. ASSUME NEW j \in 1..Len(R), j < i
      PROVE  R[j] = w[j]
  BY <1>0, <1>1, <1>2, <1>4, <1>6
<1>7. ASSUME NEW j \in 1..Len(R), ~ (j < i)
      PROVE  R[j] = w[j + 1]
  <2>1. R[j] = q[j - (i - 1)]
    BY <1>0, <1>1, <1>2, <1>4, <1>7
  <2>2. j - (i - 1) \in 1..(Len(w) - i) /\ i + (j - (i - 1)) = j + 1
    BY <1>0, <1>5, <1>7
  <2> QED BY <1>2, <2>1, <2>2
<1> QED BY <1>5, <1>6, <1>7

\* Queueing a waiter keeps a lock well formed and moves no guard.
LEMMA AwaitType ==
    ASSUME NEW l \in Lock, NEW s \in Slots, NEW m \in Mode
    PROVE  /\ Await(l, s, m) \in Lock
           /\ Await(l, s, m).readers = l.readers
           /\ Await(l, s, m).writers = l.writers
<1>1. [slot |-> s, mode |-> m] \in Waiter
  BY DEF Waiter
<1>2. l.queue \in Seq(Waiter)
  BY DEF Lock
<1>3. Append(l.queue, [slot |-> s, mode |-> m]) \in Seq(Waiter)
  BY <1>1, <1>2, AppendProperties
<1> QED BY <1>3 DEF Await, Lock

\* Taking a guard and dropping it at once moves no guard.
LEMMA PassType ==
    ASSUME NEW l \in Lock, l.queue # << >>
    PROVE  /\ Pass(l) \in Lock
           /\ Pass(l).readers = l.readers
           /\ Pass(l).writers = l.writers
<1>1. Tail(l.queue) \in Seq(Waiter)
  BY HeadTailProperties DEF Lock
<1> QED BY <1>1 DEF Pass, Lock

\* Taking a guard adds its holder, and only it.
LEMMA HoldType ==
    ASSUME NEW l \in Lock, l.queue # << >>, NEW s \in Slots, NEW m \in Mode
    PROVE  /\ Hold(l, s, m) \in Lock
           /\ m = "read" => /\ Hold(l, s, m).readers = l.readers \union {s}
                            /\ Hold(l, s, m).writers = l.writers
           /\ m = "write" => /\ Hold(l, s, m).readers = l.readers
                             /\ Hold(l, s, m).writers = l.writers \union {s}
<1>1. Tail(l.queue) \in Seq(Waiter)
  BY HeadTailProperties DEF Lock
<1> QED BY <1>1 DEF Hold, Lock, Mode

\* Releasing drops the guards of the slot and leaves the queue.
LEMMA ReleaseType ==
    ASSUME NEW l \in Lock, NEW s \in Slots
    PROVE  /\ Release(l, s) \in Lock
           /\ Release(l, s).readers = l.readers \ {s}
           /\ Release(l, s).writers = l.writers \ {s}
           /\ Release(l, s).queue = l.queue
  BY DEF Release, Lock

\* Dropping a future drops its guards and its place in the queue.
LEMMA ForgetType ==
    ASSUME NEW l \in Lock, NEW s \in Slots
    PROVE  /\ Forget(l, s) \in Lock
           /\ Forget(l, s).readers = l.readers \ {s}
           /\ Forget(l, s).writers = l.writers \ {s}
<1>1. CASE \E i \in 1..Len(l.queue) : l.queue[i].slot = s
  <2> DEFINE i == CHOOSE j \in 1..Len(l.queue) : l.queue[j].slot = s
  <2>1. i \in 1..Len(l.queue)
    BY <1>1
  <2>2. RemoveAt(l.queue, i) \in Seq(Waiter)
    BY <2>1, RemoveAtType DEF Lock
  <2>3. Forget(l, s) = [Release(l, s) EXCEPT !.queue = RemoveAt(l.queue, i)]
    BY <1>1, ReleaseType DEF Forget
  <2> HIDE DEF i
  <2> QED BY <2>2, <2>3, ReleaseType DEF Lock
<1>2. CASE ~ \E i \in 1..Len(l.queue) : l.queue[i].slot = s
  BY <1>2, ReleaseType DEF Forget
<1> QED BY <1>1, <1>2

-----------------------------------------------------------------------------
(* Types of the task operators *)

TasksType == [Slots -> Task \union {Idle}]

\* Moving a handler, answering and returning keep the slots well typed.
LEMMA TaskTypes ==
    ASSUME tasks \in TasksType, NEW s \in Slots, tasks[s] # Idle
    PROVE  /\ Return(s) \in TasksType
           /\ \A pc \in PcTask : Goto(s, pc) \in TasksType
           /\ \A r \in Result : Reply(s, r) \in TasksType
           /\ tasks[s] \in Task
<1>1. tasks[s] \in Task
  BY DEF TasksType
<1>2. \A pc \in PcTask : [tasks[s] EXCEPT !.pc = pc] \in Task
  BY <1>1 DEF Task
<1>3. "replied" \in PcTask
  BY DEF PcTask
<1>4. \A r \in Result : [tasks[s] EXCEPT !.pc = "replied", !.result = r] \in Task
  BY <1>1, <1>3 DEF Task
<1>5. \A pc \in PcTask : Goto(s, pc) \in TasksType
  BY <1>2 DEF Goto, TasksType
<1>6. \A r \in Result : Reply(s, r) \in TasksType
  BY <1>4 DEF Reply, TasksType
<1>7. Return(s) \in TasksType
  BY DEF Return, TasksType
<1> QED BY <1>1, <1>5, <1>6, <1>7

\* Cancelling touches only the tokens of analyses that run.
LEMMA CancelType ==
    ASSUME tasks \in TasksType, NEW u \in Uris
    PROVE  /\ CancelAnalyses(u, tasks) \in TasksType
           /\ \A s \in Slots :
                /\ tasks[s] = Idle => CancelAnalyses(u, tasks)[s] = Idle
                /\ CancelAnalyses(u, tasks)[s] # tasks[s] =>
                     /\ CancelAnalyses(u, tasks)[s] = [tasks[s] EXCEPT !.cancelled = TRUE]
                     /\ tasks[s] \in Task /\ tasks[s].pc = "analyze"
<1>1. \A s \in Slots : tasks[s] # Idle => tasks[s] \in Task
  BY DEF TasksType
<1>2. \A t \in Task : [t EXCEPT !.cancelled = TRUE] \in Task
  BY DEF Task
<1>3. \A s \in Slots : CancelAnalyses(u, tasks)[s] \in Task \union {Idle}
  BY <1>1, <1>2 DEF CancelAnalyses
<1>4. CancelAnalyses(u, tasks) \in TasksType
  BY <1>3 DEF CancelAnalyses, TasksType
<1> QED BY <1>1, <1>4 DEF CancelAnalyses

-----------------------------------------------------------------------------
(* Type correctness *)

ServerType ==
    /\ docs \in [Uris -> Document \union {NoDoc}]
    /\ index \in [Uris -> Texts \union {NoText}]
    /\ docLock \in Lock
    /\ wsLock \in Lock
    /\ tasks \in TasksType
    /\ shown \in [Uris -> Texts \union {NoText}]
    /\ disk \in [Uris -> Texts]

\* A full document or an edit has a text.
TextsPresent ==
    \A s \in Slots : At(s, "install") \/ At(s, "apply") => tasks[s].text \in Texts

\* The names of the suspension points.
LEMMA PcNames ==
    {"install", "apply", "prepare", "commit", "remove", "capture", "indexCheck",
     "snapshot", "verify", "fallback", "symbol", "index", "symbolWs", "fallbackWs",
     "renameWs", "analyze", "savePool", "load", "flush", "saveFlush", "replied"}
        \subseteq PcTask
  BY DEF PcTask, PcDocs, PcWs, PcPool

\* A new document is a document.
LEMMA DocumentType ==
    ASSUME NEW x \in Texts, NEW v \in Version
    PROVE  NewDocument(x, v) \in Document
  BY DEF NewDocument, Document

\* The lock operations a handler uses keep the lock well formed.
LEMMA LockMoves ==
    ASSUME NEW l \in Lock, NEW s \in Slots
    PROVE  /\ \A m \in Mode : Granted(l, s, m) =>
                /\ Pass(l) \in Lock
                /\ Hold(l, s, m) \in Lock
                /\ \A n \in Mode : Await(Pass(l), s, n) \in Lock
           /\ \A m \in Mode : Await(l, s, m) \in Lock
           /\ Release(l, s) \in Lock
           /\ Forget(l, s) \in Lock
<1>1. \A m \in Mode : Granted(l, s, m) => l.queue # << >>
  BY DEF Granted
<1> QED BY <1>1, AwaitType, PassType, HoldType, ReleaseType, ForgetType

\* A handler's step keeps the types of the server's state.
LEMMA RunKeepsTypes ==
    ASSUME ServerType, TextsPresent, NEW s \in Slots, Run(s)
    PROVE  ServerType'
<1> USE DEF ServerType
<1> DEFINE t == tasks[s]
<1> HIDE DEF t
<1>m. "read" \in Mode /\ "write" \in Mode
  BY DEF Mode
<1>a. \A pc : At(s, pc) => t \in Task /\ tasks[s] # Idle /\ t = tasks[s]
  BY DEF At, TasksType, t
<1>b. \A k \in Task : /\ k.uri \in Uris /\ k.version \in Version
                      /\ k.text \in Texts \union {NoText}
                      /\ k.overlays \in [Uris -> Texts \union {NoText}]
                      /\ k.loaded \in [Uris -> Texts \union {NoText}]
  BY DEF Task
<1>c. \A u \in Uris : IsOpen(u) => docs[u] \in Document
  BY DEF IsOpen
<1>d. \A d \in Document : d.source \in Texts /\ d.report \in Texts \union {NoText} /\ d.version \in Version
  BY DEF Document
<1>p. \A pc \in PcTask : tasks[s] # Idle => Goto(s, pc) \in TasksType
  BY TaskTypes
<1>r. tasks[s] # Idle => Return(s) \in TasksType
  BY TaskTypes
<1>l. \A m \in Mode : /\ Granted(docLock, s, m) => /\ Pass(docLock) \in Lock
                                                   /\ Hold(docLock, s, m) \in Lock
                                                   /\ \A n \in Mode : Await(Pass(docLock), s, n) \in Lock
                      /\ Await(docLock, s, m) \in Lock
                      /\ Await(wsLock, s, m) \in Lock
                      /\ Granted(wsLock, s, m) => Pass(wsLock) \in Lock
  BY LockMoves
<1>e. Release(docLock, s) \in Lock
  BY ReleaseType
<1>InstallStale. CASE InstallStale(s)
  BY <1>InstallStale, <1>a, <1>b, <1>l, <1>m, <1>p, <1>r, PcNames DEF InstallStale, PassDocs, PassDocsAndAwait
<1>RejectChange. CASE RejectChange(s)
  BY <1>RejectChange, <1>a, <1>b, <1>l, <1>m, <1>p, <1>r, PcNames DEF RejectChange, PassDocs, PassDocsAndAwait
<1>Prepare. CASE Prepare(s)
  BY <1>Prepare, <1>a, <1>b, <1>l, <1>m, <1>p, <1>r, PcNames DEF Prepare, PassDocs, PassDocsAndAwait
<1>CommitNothing. CASE CommitNothing(s)
  BY <1>CommitNothing, <1>a, <1>b, <1>l, <1>m, <1>p, <1>r, PcNames DEF CommitNothing, PassDocs, PassDocsAndAwait
<1>Flushed. CASE Flushed(s)
  BY <1>Flushed, <1>a, <1>b, <1>l, <1>m, <1>p, <1>r, PcNames, <1>e DEF Flushed, PassDocs, PassDocsAndAwait
<1>CaptureNothing. CASE CaptureNothing(s)
  BY <1>CaptureNothing, <1>a, <1>b, <1>l, <1>m, <1>p, <1>r, PcNames DEF CaptureNothing, PassDocs, PassDocsAndAwait
<1>SaveFlushed. CASE SaveFlushed(s)
  BY <1>SaveFlushed, <1>a, <1>b, <1>l, <1>m, <1>p, <1>r, PcNames, <1>e DEF SaveFlushed, PassDocs, PassDocsAndAwait
<1>IndexCheck. CASE IndexCheck(s)
  BY <1>IndexCheck, <1>a, <1>b, <1>l, <1>m, <1>p, <1>r, PcNames DEF IndexCheck, PassDocs, PassDocsAndAwait
<1>VerifyFallback. CASE VerifyFallback(s)
  BY <1>VerifyFallback, <1>a, <1>b, <1>l, <1>m, <1>p, <1>r, PcNames DEF VerifyFallback, PassDocs, PassDocsAndAwait
<1>VerifyRename. CASE VerifyRename(s)
  BY <1>VerifyRename, <1>a, <1>b, <1>l, <1>m, <1>p, <1>r, PcNames DEF VerifyRename, PassDocs, PassDocsAndAwait
<1>Symbol. CASE Symbol(s)
  BY <1>Symbol, <1>a, <1>b, <1>l, <1>m, <1>p, <1>r, PcNames DEF Symbol, PassDocs, PassDocsAndAwait
<1>Replied. CASE Replied(s)
  BY <1>Replied, <1>a, <1>b, <1>l, <1>m, <1>p, <1>r, PcNames DEF Replied, PassDocs, PassDocsAndAwait
<1>y. tasks[s] # Idle => \A r \in Result : Reply(s, r) \in TasksType
  BY TaskTypes
<1>z. {"edits", "null", "none", "ok", "err"} \subseteq Result
  BY DEF Result
<1>VerifyStale. CASE VerifyStale(s)
  BY <1>VerifyStale, <1>a, <1>b, <1>l, <1>m, <1>p, <1>r, PcNames, <1>y, <1>z, <1>e DEF VerifyStale, PassDocs, PassDocsAndAwait
<1>VerifyAnswer. CASE VerifyAnswer(s)
  BY <1>VerifyAnswer, <1>a, <1>b, <1>l, <1>m, <1>p, <1>r, PcNames, <1>y, <1>z, <1>e DEF VerifyAnswer, PassDocs, PassDocsAndAwait
<1>RenameAnswer. CASE RenameAnswer(s)
  BY <1>RenameAnswer, <1>a, <1>b, <1>l, <1>m, <1>p, <1>r, PcNames, <1>y, <1>z, <1>e DEF RenameAnswer, PassDocs, PassDocsAndAwait
<1>Fallback. CASE Fallback(s)
  BY <1>Fallback, <1>a, <1>b, <1>l, <1>m, <1>p, <1>r, PcNames, <1>y, <1>z, <1>e DEF Fallback, PassDocs, PassDocsAndAwait
<1>AnswerFromIndex. CASE AnswerFromIndex(s)
  BY <1>AnswerFromIndex, <1>a, <1>b, <1>l, <1>m, <1>p, <1>r, PcNames, <1>y, <1>z, <1>e DEF AnswerFromIndex, PassDocs, PassDocsAndAwait
<1>n. \A x \in Texts, v \in Version, u \in Uris :
        [docs EXCEPT ![u] = NewDocument(x, v)] \in [Uris -> Document \union {NoDoc}]
  BY DocumentType
<1>u. \A u \in Uris : CancelAnalyses(u, tasks) \in TasksType
  BY CancelType
<1>v. ASSUME NEW u \in Uris, tasks[s] # Idle
      PROVE  CancelAnalyses(u, tasks)[s] \in Task
  <2>1. CancelAnalyses(u, tasks)[s] \in Task \union {Idle}
    BY <1>u DEF TasksType
  <2>2. tasks[s] \in Task /\ (\A k \in Task : [k EXCEPT !.cancelled = TRUE] \in Task)
    BY <1>v DEF TasksType, Task
  <2> QED BY <2>1, <2>2, <1>v DEF CancelAnalyses
<1>w. \A k \in Task : /\ [k EXCEPT !.pc = "prepare"] \in Task
                      /\ \A x \in Texts : [k EXCEPT !.pc = "prepare", !.text = x] \in Task
  BY PcNames DEF Task
<1>InstallNew. CASE InstallNew(s)
  <2>1. t.text \in Texts
    BY <1>InstallNew, <1>a DEF TextsPresent, InstallNew
  <2> QED BY <2>1, <1>InstallNew, <1>n, <1>a, <1>b, <1>l, <1>m, <1>p, <1>r, PcNames DEF InstallNew, PassDocsAndAwait, t
<1>InstallNewer. CASE InstallNewer(s)
  <2>1. t.text \in Texts
    BY <1>InstallNewer, <1>a DEF TextsPresent, InstallNewer
  <2>2. tasks' \in TasksType
    BY <1>InstallNewer, <1>a, <1>b, <1>u, <1>v, <1>w DEF InstallNewer, TasksType, t
  <2> QED BY <2>1, <2>2, <1>InstallNewer, <1>n, <1>a, <1>b, <1>l, <1>m, <1>p, <1>r, PcNames DEF InstallNewer, PassDocsAndAwait, t
<1>ApplyChange. CASE ApplyChange(s)
  <2>1. PICK x \in ApplyChanges(docs[t.uri].source, t.base, t.text) \ {NoText} :
          /\ docs' = [docs EXCEPT ![t.uri] = NewDocument(x, t.version)]
          /\ tasks' = [CancelAnalyses(t.uri, tasks) EXCEPT ![s].pc = "prepare", ![s].text = x]
    BY <1>ApplyChange DEF ApplyChange, t
  <2>2. t.text \in Texts
    BY <1>ApplyChange, <1>a DEF TextsPresent, ApplyChange
  <2>3. x \in Texts
    BY <2>1, <2>2 DEF ApplyChanges
  <2>4. tasks' \in TasksType
    BY <2>1, <2>3, <1>ApplyChange, <1>a, <1>b, <1>u, <1>v, <1>w DEF ApplyChange, TasksType, t
  <2> QED BY <2>1, <2>3, <2>4, <1>ApplyChange, <1>n, <1>a, <1>b, <1>l, <1>m, <1>p, <1>r, PcNames DEF ApplyChange, PassDocsAndAwait, t
<1>CloseDocument. CASE CloseDocument(s)
  <2>1. tasks' \in TasksType
    BY <1>CloseDocument, <1>a, <1>b, <1>u DEF CloseDocument, TasksType, t
  <2>2. t.uri \in Uris
    BY <1>CloseDocument, <1>a, <1>b DEF CloseDocument
  <2>3. docs' \in [Uris -> Document \union {NoDoc}] /\ shown' \in [Uris -> Texts \union {NoText}]
    BY <1>CloseDocument, <2>2 DEF CloseDocument, Cleared, t
  <2> QED BY <2>1, <2>3, <1>CloseDocument, <1>l, <1>m DEF CloseDocument, PassDocs
<1>Analyze. CASE Analyze(s)
  <2>1. PICK r : tasks' = [tasks EXCEPT ![s].pc = "commit", ![s].result = r] /\ r \in {Outcome(t.text), "cancelled"}
    BY <1>Analyze DEF Analyze, t
  <2>2. r \in Result
    BY <2>1 DEF Outcome, Result
  <2>3. [t EXCEPT !.pc = "commit", !.result = r] \in Task
    BY <2>2, <1>Analyze, <1>a, PcNames DEF Analyze, Task
  <2>4. tasks' \in TasksType
    BY <2>1, <2>3, <1>Analyze, <1>a DEF Analyze, TasksType, t
  <2> QED BY <2>4, <1>Analyze, <1>l, <1>m DEF Analyze
<1>CommitReport. CASE CommitReport(s)
  <2>1. t.uri \in Uris /\ IsOpen(t.uri) /\ t.text \in Texts \union {NoText}
    BY <1>CommitReport, <1>a, <1>b DEF CommitReport, IsGeneration, t
  <2>2. [docs[t.uri] EXCEPT !.report = t.text] \in Document
    BY <2>1, <1>c DEF Document
  <2>3. docs' \in [Uris -> Document \union {NoDoc}]
    BY <2>1, <2>2, <1>CommitReport DEF CommitReport, t
  <2> QED BY <2>1, <2>3, <1>CommitReport, <1>a, <1>b, <1>l, <1>m, <1>p, <1>r, PcNames DEF CommitReport, t
<1>CommitParseError. CASE CommitParseError(s)
  BY <1>CommitParseError, <1>a, <1>b, <1>l, <1>m, <1>p, <1>r, PcNames DEF CommitParseError, t
<1>Capture. CASE Capture(s)
  <2>1. t \in Task /\ t.uri \in Uris /\ docs[t.uri] \in Document
    BY <1>Capture, <1>a, <1>b, <1>c DEF Capture, t
  <2>2. \A pc \in PcTask, x \in Texts, v \in Version :
          [t EXCEPT !.pc = pc, !.text = x, !.version = v] \in Task
    BY <2>1 DEF Task
  <2>3. tasks' \in TasksType
    BY <2>1, <2>2, <1>d, <1>Capture, <1>a, PcNames DEF Capture, TasksType, t
  <2>4. shown' \in [Uris -> Texts \union {NoText}] /\ docLock' \in Lock
    BY <2>1, <1>d, <1>Capture, <1>l, <1>m DEF Capture, PassDocs, t
  <2> QED BY <2>3, <2>4, <1>Capture DEF Capture
<1>SaveAnalyzed. CASE SaveAnalyzed(s)
  <2>1. \A r \in Result : [t EXCEPT !.pc = "indexCheck", !.result = r] \in Task
    BY <1>SaveAnalyzed, <1>a, PcNames DEF SaveAnalyzed, Task
  <2>2. Outcome(t.text) \in Result
    BY DEF Outcome, Result
  <2>3. tasks' \in TasksType
    BY <2>1, <2>2, <1>SaveAnalyzed, <1>a, <1>r DEF SaveAnalyzed, TasksType, t
  <2> QED BY <2>3, <1>SaveAnalyzed, <1>l, <1>m DEF SaveAnalyzed
<1>UpdateIndex. CASE UpdateIndex(s)
  <2>1. t.uri \in Uris /\ t.text \in Texts \union {NoText}
    BY <1>UpdateIndex, <1>a, <1>b DEF UpdateIndex
  <2>2. index' \in [Uris -> Texts \union {NoText}]
    BY <2>1, <1>UpdateIndex DEF UpdateIndex, t
  <2> QED BY <2>2, <1>UpdateIndex, <1>a, <1>b, <1>l, <1>m, <1>p, <1>r, PcNames, <1>e DEF UpdateIndex
<1>Snapshot. CASE Snapshot(s)
  <2>1. \A x \in Texts, o \in [Uris -> Texts \union {NoText}] :
          [t EXCEPT !.pc = "load", !.text = x, !.overlays = o] \in Task
    BY <1>Snapshot, <1>a, PcNames DEF Snapshot, Task
  <2>2. Overlays \in [Uris -> Texts \union {NoText}]
    BY <1>c, <1>d DEF Overlays
  <2>3. t.uri \in Uris
    BY <1>Snapshot, <1>a, <1>b DEF Snapshot
  <2>4. ASSUME tasks' = Reply(s, "null") PROVE tasks' \in TasksType
    BY <2>4, <1>Snapshot, <1>a, <1>y, <1>z DEF Snapshot
  <2>5. ASSUME tasks' # Reply(s, "null") PROVE tasks' \in TasksType
    <3>1. IsOpen(t.uri) /\ tasks' = [tasks EXCEPT ![s].pc = "load", ![s].text = docs[t.uri].source,
                                                 ![s].overlays = Overlays]
      BY <2>5, <1>Snapshot DEF Snapshot, t
    <3>2. docs[t.uri].source \in Texts
      BY <3>1, <2>3, <1>c, <1>d
    <3>3. [t EXCEPT !.pc = "load", !.text = docs[t.uri].source, !.overlays = Overlays] \in Task
      BY <2>1, <2>2, <3>2
    <3> QED BY <3>1, <3>3, <1>Snapshot, <1>a DEF Snapshot, TasksType, t
  <2>6. tasks' \in TasksType
    BY <2>4, <2>5
  <2> QED BY <2>6, <1>Snapshot, <1>l, <1>m DEF Snapshot, PassDocs
<1>Load. CASE Load(s)
  <2> DEFINE e == Effective(t.uri, t.overlays)
  <2>1. e \in [Uris -> Texts \union {NoText}]
    BY <1>Load, <1>a, <1>b DEF Load, Effective
  <2>2. [t EXCEPT !.pc = "verify", !.loaded = e] \in Task
    BY <2>1, <1>Load, <1>a, PcNames DEF Load, Task
  <2> HIDE DEF e
  <2>3. tasks' \in TasksType
    BY <2>2, <1>Load, <1>a, <1>y, <1>z, <1>p, PcNames DEF Load, TasksType, t, e
  <2> QED BY <2>3, <1>Load, <1>l, <1>m DEF Load
<1> QED
  BY <1>InstallNew, <1>InstallNewer, <1>InstallStale, <1>ApplyChange, <1>RejectChange,
     <1>Prepare, <1>Analyze, <1>CommitReport, <1>CommitParseError, <1>CommitNothing,
     <1>Flushed, <1>CloseDocument, <1>Capture, <1>CaptureNothing, <1>SaveFlushed,
     <1>SaveAnalyzed, <1>IndexCheck, <1>UpdateIndex, <1>Snapshot, <1>Load,
     <1>VerifyStale, <1>VerifyAnswer, <1>VerifyFallback, <1>VerifyRename,
     <1>RenameAnswer, <1>Fallback, <1>Symbol, <1>AnswerFromIndex, <1>Replied
  DEF Run
-----------------------------------------------------------------------------
(* What a step does to the handlers and to the guards *)

HeldRead == {"saveFlush", "index", "symbolWs", "fallbackWs"}

Reads(s)  == \E pc \in HeldRead : At(s, pc)
Writes(s) == At(s, "flush")

\* Handlers other than s only ever see their token cancelled.
OthersStay(s) ==
    \A r \in Slots \ {s} :
        /\ tasks'[r] = Idle <=> tasks[r] = Idle
        /\ tasks[r] # Idle => /\ tasks'[r].pc = tasks[r].pc
                              /\ tasks'[r].uri = tasks[r].uri
                              /\ tasks'[r].text = tasks[r].text
                              /\ tasks'[r].version = tasks[r].version

SameGuards(s) ==
    /\ docLock'.readers = docLock.readers /\ docLock'.writers = docLock.writers
    /\ ~ Reads(s) /\ ~ Writes(s) /\ ~ Reads(s)' /\ ~ Writes(s)'

TakesRead(s) ==
    /\ docLock.writers = {}
    /\ docLock'.readers = docLock.readers \union {s} /\ docLock'.writers = docLock.writers
    /\ Reads(s)' /\ ~ Writes(s)' /\ ~ Writes(s)

TakesWrite(s) ==
    /\ docLock.writers = {} /\ docLock.readers = {}
    /\ docLock'.readers = docLock.readers /\ docLock'.writers = docLock.writers \union {s}
    /\ ~ Reads(s)' /\ Writes(s)'

DropsGuards(s) ==
    /\ docLock'.readers = docLock.readers \ {s}
    /\ docLock'.writers = docLock.writers \ {s}
    /\ ~ Reads(s)' /\ ~ Writes(s)'

GuardStep(s) ==
    /\ SameGuards(s) \/ TakesRead(s) \/ TakesWrite(s) \/ DropsGuards(s)
    /\ wsLock'.readers = wsLock.readers /\ wsLock'.writers = wsLock.writers

\* A handler first awaits the documents lock, and holds nothing then.
LEMMA FirstAwaitType ==
    ASSUME NEW k \in MessageKind \union RequestKind
    PROVE  /\ FirstAwait[k][1] \in PcTask
           /\ FirstAwait[k][2] \in Mode
           /\ FirstAwait[k][1] \in {"install", "apply"} => k \in {"open", "change"}
           /\ FirstAwait[k][1] \notin {"flush", "saveFlush", "index", "symbolWs", "fallbackWs"}
  BY PcNames DEF FirstAwait, MessageKind, RequestKind, Mode

\* Starting a handler.
LEMMA AcceptKeeps ==
    ASSUME ServerType, TextsPresent, NEW s \in Slots, NEW m \in Message,
           m.kind \in {"open", "change"} => m.text \in Texts, Accept(s, m)
    PROVE  ServerType' /\ TextsPresent' /\ GuardStep(s) /\ OthersStay(s) /\ ~ At(s, "index")'
<1>1. /\ m.kind \in MessageKind \union RequestKind /\ m.uri \in Uris /\ m.version \in Version
      /\ m.text \in Texts \union {NoText} /\ m.base \in Texts \union {NoText}
  BY DEF Message
<1> DEFINE t == [kind |-> m.kind, uri |-> m.uri, pc |-> FirstAwait[m.kind][1],
                 text |-> m.text, base |-> m.base, version |-> m.version,
                 cancelled |-> FALSE, result |-> "none",
                 overlays |-> NoFiles, loaded |-> NoFiles]
<1>2. NoFiles \in [Uris -> Texts \union {NoText}]
  BY DEF NoFiles
<1>3. t \in Task
  BY <1>1, <1>2, FirstAwaitType DEF Task, Result
<1>4. t.pc \in {"install", "apply"} => t.text \in Texts
  BY <1>1, FirstAwaitType
<1>5. tasks' = [tasks EXCEPT ![s] = t]
  BY DEF Accept
<1> HIDE DEF t
<1>6. tasks' \in TasksType
  BY <1>3, <1>5 DEF ServerType, TasksType
<1>7. docLock' \in Lock
  BY <1>1, FirstAwaitType, LockMoves DEF ServerType, Accept
<1>8. TextsPresent'
  BY <1>4, <1>5 DEF TextsPresent, At, ServerType, TasksType
<1>9. tasks[s] = Idle /\ tasks'[s] = t /\ t # Idle /\ \A r \in Slots \ {s} : tasks'[r] = tasks[r]
  BY <1>3, <1>5, LspAssumption DEF Accept, ServerType, TasksType
<1>10. t.pc \notin HeldRead \union {"flush"}
  BY <1>1, FirstAwaitType DEF t, HeldRead
<1>11. docLock'.readers = docLock.readers /\ docLock'.writers = docLock.writers
  BY <1>1, FirstAwaitType, AwaitType DEF ServerType, Accept
<1>12. ~ Reads(s) /\ ~ Writes(s) /\ ~ Reads(s)' /\ ~ Writes(s)' /\ ~ At(s, "index")'
  BY <1>9, <1>10 DEF Reads, Writes, At, HeldRead
<1>13. GuardStep(s) /\ OthersStay(s)
  BY <1>9, <1>11, <1>12 DEF GuardStep, SameGuards, OthersStay, Accept
<1> QED BY <1>6, <1>7, <1>8, <1>12, <1>13 DEF ServerType, Accept

\* Moving a handler changes its slot and no other.
LEMMA GotoFacts ==
    ASSUME tasks \in TasksType, NEW s \in Slots, tasks[s] # Idle
    PROVE  /\ \A pc \in PcTask : /\ Goto(s, pc)[s] # Idle
                                 /\ Goto(s, pc)[s] = [tasks[s] EXCEPT !.pc = pc]
                                 /\ Goto(s, pc)[s].pc = pc
           /\ \A pc : \A r \in Slots \ {s} : Goto(s, pc)[r] = tasks[r]
           /\ \A x : Reply(s, x)[s].pc = "replied"
           /\ \A x : \A r \in Slots \ {s} : Reply(s, x)[r] = tasks[r]
           /\ Return(s)[s] = Idle
           /\ \A r \in Slots \ {s} : Return(s)[r] = tasks[r]
<1>1. tasks[s] \in Task
  BY DEF TasksType
<1>2. \A pc \in PcTask : [tasks[s] EXCEPT !.pc = pc] \in Task /\ [tasks[s] EXCEPT !.pc = pc].pc = pc
  BY <1>1 DEF Task
<1>3. \A x : [tasks[s] EXCEPT !.pc = "replied", !.result = x].pc = "replied"
  BY <1>1 DEF Task
<1> QED BY <1>1, <1>2, <1>3, LspAssumption DEF Goto, Reply, Return, TasksType

\* Which guards each lock operation takes and drops.
LEMMA GuardMoves ==
    ASSUME NEW l \in Lock, NEW s \in Slots
    PROVE  /\ \A m \in Mode : Granted(l, s, m) =>
                /\ l.writers = {} /\ (m = "write" => l.readers = {})
                /\ Pass(l).readers = l.readers /\ Pass(l).writers = l.writers
                /\ m = "read" => /\ Hold(l, s, m).readers = l.readers \union {s}
                                 /\ Hold(l, s, m).writers = l.writers
                /\ m = "write" => /\ Hold(l, s, m).writers = l.writers \union {s}
                                  /\ Hold(l, s, m).readers = l.readers
                /\ \A n \in Mode : /\ Await(Pass(l), s, n).readers = l.readers
                                   /\ Await(Pass(l), s, n).writers = l.writers
           /\ \A m \in Mode : Await(l, s, m).readers = l.readers /\ Await(l, s, m).writers = l.writers
           /\ Release(l, s).readers = l.readers \ {s} /\ Release(l, s).writers = l.writers \ {s}
           /\ Forget(l, s).readers = l.readers \ {s} /\ Forget(l, s).writers = l.writers \ {s}
<1>1. \A m \in Mode : Granted(l, s, m) => l.queue # << >> /\ l.writers = {} /\ (m = "write" => l.readers = {})
  BY DEF Granted
<1> QED BY <1>1, AwaitType, PassType, HoldType, ReleaseType, ForgetType

\* Every step of a handler touches its own slot and its own guards only.
LEMMA RunSteps ==
    ASSUME ServerType, TextsPresent, NEW s \in Slots, Run(s)
    PROVE  /\ GuardStep(s)
           /\ OthersStay(s)
           /\ tasks'[s] = Idle \/ tasks'[s].pc \notin {"install", "apply"}
           /\ IndexCheck(s) \/ tasks'[s] = Idle \/ tasks'[s].pc # "index"
<1> USE DEF ServerType
<1>m. "read" \in Mode /\ "write" \in Mode
  BY DEF Mode
<1>g. /\ \A m \in Mode : Granted(docLock, s, m) =>
                /\ docLock.writers = {} /\ (m = "write" => docLock.readers = {})
                /\ Pass(docLock).readers = docLock.readers /\ Pass(docLock).writers = docLock.writers
                /\ m = "read" => /\ Hold(docLock, s, m).readers = docLock.readers \union {s}
                                 /\ Hold(docLock, s, m).writers = docLock.writers
                /\ m = "write" => /\ Hold(docLock, s, m).writers = docLock.writers \union {s}
                                  /\ Hold(docLock, s, m).readers = docLock.readers
                /\ \A n \in Mode : /\ Await(Pass(docLock), s, n).readers = docLock.readers
                                   /\ Await(Pass(docLock), s, n).writers = docLock.writers
      /\ \A m \in Mode : Await(docLock, s, m).readers = docLock.readers /\ Await(docLock, s, m).writers = docLock.writers
      /\ Release(docLock, s).readers = docLock.readers \ {s}
      /\ Release(docLock, s).writers = docLock.writers \ {s}
  BY GuardMoves
<1>h. /\ \A m \in Mode : Granted(wsLock, s, m) =>
                Pass(wsLock).readers = wsLock.readers /\ Pass(wsLock).writers = wsLock.writers
      /\ \A m \in Mode : Await(wsLock, s, m).readers = wsLock.readers /\ Await(wsLock, s, m).writers = wsLock.writers
  BY GuardMoves
<1>f. tasks[s] # Idle =>
           /\ \A pc \in PcTask : Goto(s, pc)[s] # Idle /\ Goto(s, pc)[s].pc = pc
           /\ \A pc : \A r \in Slots \ {s} : Goto(s, pc)[r] = tasks[r]
           /\ \A x : Reply(s, x)[s].pc = "replied"
           /\ \A x : \A r \in Slots \ {s} : Reply(s, x)[r] = tasks[r]
           /\ Return(s)[s] = Idle
           /\ \A r \in Slots \ {s} : Return(s)[r] = tasks[r]
  BY GotoFacts
<1>t. tasks[s] # Idle => tasks[s] \in Task
  BY DEF TasksType
<1>c. ASSUME NEW u \in Uris
      PROVE  \A r \in Slots :
                LET c == CancelAnalyses(u, tasks)[r] IN
                /\ c = Idle <=> tasks[r] = Idle
                /\ tasks[r] # Idle => /\ c.pc = tasks[r].pc /\ c.uri = tasks[r].uri
                                      /\ c.text = tasks[r].text /\ c.version = tasks[r].version
  <2>1. \A k \in Task : LET c == [k EXCEPT !.cancelled = TRUE] IN
           c \in Task /\ c.pc = k.pc /\ c.uri = k.uri /\ c.text = k.text /\ c.version = k.version
    BY DEF Task
  <2>2. \A r \in Slots : tasks[r] # Idle => tasks[r] \in Task
    BY DEF TasksType
  <2> SUFFICES ASSUME NEW r \in Slots
               PROVE  LET c == CancelAnalyses(u, tasks)[r] IN
                      /\ c = Idle <=> tasks[r] = Idle
                      /\ tasks[r] # Idle => /\ c.pc = tasks[r].pc /\ c.uri = tasks[r].uri
                                            /\ c.text = tasks[r].text /\ c.version = tasks[r].version
    OBVIOUS
  <2>4. CASE CancelAnalyses(u, tasks)[r] = tasks[r]
    BY <2>4
  <2>5. CASE CancelAnalyses(u, tasks)[r] # tasks[r]
    <3>1. /\ CancelAnalyses(u, tasks)[r] = [tasks[r] EXCEPT !.cancelled = TRUE]
          /\ tasks[r] \in Task
      BY <2>5, CancelType
    <3>2. tasks[r] # Idle /\ [tasks[r] EXCEPT !.cancelled = TRUE] # Idle
      BY <2>1, <3>1, LspAssumption
    <3> QED BY <2>1, <3>1, <3>2
  <2> QED BY <2>4, <2>5
<1>InstallNew. CASE InstallNew(s)
  BY <1>InstallNew, <1>m, <1>g, <1>h, <1>f, PcNames DEF InstallNew, PassDocs, PassDocsAndAwait,
     At, Reads, Writes, HeldRead, GuardStep, SameGuards, TakesRead, TakesWrite, DropsGuards, OthersStay
<1>InstallStale. CASE InstallStale(s)
  BY <1>InstallStale, <1>m, <1>g, <1>h, <1>f, PcNames DEF InstallStale, PassDocs, PassDocsAndAwait,
     At, Reads, Writes, HeldRead, GuardStep, SameGuards, TakesRead, TakesWrite, DropsGuards, OthersStay
<1>RejectChange. CASE RejectChange(s)
  BY <1>RejectChange, <1>m, <1>g, <1>h, <1>f, PcNames DEF RejectChange, PassDocs, PassDocsAndAwait,
     At, Reads, Writes, HeldRead, GuardStep, SameGuards, TakesRead, TakesWrite, DropsGuards, OthersStay
<1>Prepare. CASE Prepare(s)
  BY <1>Prepare, <1>m, <1>g, <1>h, <1>f, PcNames DEF Prepare, PassDocs, PassDocsAndAwait,
     At, Reads, Writes, HeldRead, GuardStep, SameGuards, TakesRead, TakesWrite, DropsGuards, OthersStay
<1>CommitReport. CASE CommitReport(s)
  BY <1>CommitReport, <1>m, <1>g, <1>h, <1>f, PcNames DEF CommitReport, PassDocs, PassDocsAndAwait,
     At, Reads, Writes, HeldRead, GuardStep, SameGuards, TakesRead, TakesWrite, DropsGuards, OthersStay
<1>CommitParseError. CASE CommitParseError(s)
  BY <1>CommitParseError, <1>m, <1>g, <1>h, <1>f, PcNames DEF CommitParseError, PassDocs, PassDocsAndAwait,
     At, Reads, Writes, HeldRead, GuardStep, SameGuards, TakesRead, TakesWrite, DropsGuards, OthersStay
<1>CommitNothing. CASE CommitNothing(s)
  BY <1>CommitNothing, <1>m, <1>g, <1>h, <1>f, PcNames DEF CommitNothing, PassDocs, PassDocsAndAwait,
     At, Reads, Writes, HeldRead, GuardStep, SameGuards, TakesRead, TakesWrite, DropsGuards, OthersStay
<1>Flushed. CASE Flushed(s)
  BY <1>Flushed, <1>m, <1>g, <1>h, <1>f, PcNames DEF Flushed, PassDocs, PassDocsAndAwait,
     At, Reads, Writes, HeldRead, GuardStep, SameGuards, TakesRead, TakesWrite, DropsGuards, OthersStay
<1>CaptureNothing. CASE CaptureNothing(s)
  BY <1>CaptureNothing, <1>m, <1>g, <1>h, <1>f, PcNames DEF CaptureNothing, PassDocs, PassDocsAndAwait,
     At, Reads, Writes, HeldRead, GuardStep, SameGuards, TakesRead, TakesWrite, DropsGuards, OthersStay
<1>SaveFlushed. CASE SaveFlushed(s)
  BY <1>SaveFlushed, <1>m, <1>g, <1>h, <1>f, PcNames DEF SaveFlushed, PassDocs, PassDocsAndAwait,
     At, Reads, Writes, HeldRead, GuardStep, SameGuards, TakesRead, TakesWrite, DropsGuards, OthersStay
<1>IndexCheck. CASE IndexCheck(s)
  BY <1>IndexCheck, <1>m, <1>g, <1>h, <1>f, PcNames DEF IndexCheck, PassDocs, PassDocsAndAwait,
     At, Reads, Writes, HeldRead, GuardStep, SameGuards, TakesRead, TakesWrite, DropsGuards, OthersStay
<1>UpdateIndex. CASE UpdateIndex(s)
  BY <1>UpdateIndex, <1>m, <1>g, <1>h, <1>f, PcNames DEF UpdateIndex, PassDocs, PassDocsAndAwait,
     At, Reads, Writes, HeldRead, GuardStep, SameGuards, TakesRead, TakesWrite, DropsGuards, OthersStay
<1>VerifyStale. CASE VerifyStale(s)
  BY <1>VerifyStale, <1>m, <1>g, <1>h, <1>f, PcNames DEF VerifyStale, PassDocs, PassDocsAndAwait,
     At, Reads, Writes, HeldRead, GuardStep, SameGuards, TakesRead, TakesWrite, DropsGuards, OthersStay
<1>VerifyAnswer. CASE VerifyAnswer(s)
  BY <1>VerifyAnswer, <1>m, <1>g, <1>h, <1>f, PcNames DEF VerifyAnswer, PassDocs, PassDocsAndAwait,
     At, Reads, Writes, HeldRead, GuardStep, SameGuards, TakesRead, TakesWrite, DropsGuards, OthersStay
<1>VerifyFallback. CASE VerifyFallback(s)
  BY <1>VerifyFallback, <1>m, <1>g, <1>h, <1>f, PcNames DEF VerifyFallback, PassDocs, PassDocsAndAwait,
     At, Reads, Writes, HeldRead, GuardStep, SameGuards, TakesRead, TakesWrite, DropsGuards, OthersStay
<1>VerifyRename. CASE VerifyRename(s)
  BY <1>VerifyRename, <1>m, <1>g, <1>h, <1>f, PcNames DEF VerifyRename, PassDocs, PassDocsAndAwait,
     At, Reads, Writes, HeldRead, GuardStep, SameGuards, TakesRead, TakesWrite, DropsGuards, OthersStay
<1>RenameAnswer. CASE RenameAnswer(s)
  BY <1>RenameAnswer, <1>m, <1>g, <1>h, <1>f, PcNames DEF RenameAnswer, PassDocs, PassDocsAndAwait,
     At, Reads, Writes, HeldRead, GuardStep, SameGuards, TakesRead, TakesWrite, DropsGuards, OthersStay
<1>Fallback. CASE Fallback(s)
  BY <1>Fallback, <1>m, <1>g, <1>h, <1>f, PcNames DEF Fallback, PassDocs, PassDocsAndAwait,
     At, Reads, Writes, HeldRead, GuardStep, SameGuards, TakesRead, TakesWrite, DropsGuards, OthersStay
<1>Symbol. CASE Symbol(s)
  BY <1>Symbol, <1>m, <1>g, <1>h, <1>f, PcNames DEF Symbol, PassDocs, PassDocsAndAwait,
     At, Reads, Writes, HeldRead, GuardStep, SameGuards, TakesRead, TakesWrite, DropsGuards, OthersStay
<1>AnswerFromIndex. CASE AnswerFromIndex(s)
  BY <1>AnswerFromIndex, <1>m, <1>g, <1>h, <1>f, PcNames DEF AnswerFromIndex, PassDocs, PassDocsAndAwait,
     At, Reads, Writes, HeldRead, GuardStep, SameGuards, TakesRead, TakesWrite, DropsGuards, OthersStay
<1>Replied. CASE Replied(s)
  BY <1>Replied, <1>m, <1>g, <1>h, <1>f, PcNames DEF Replied, PassDocs, PassDocsAndAwait,
     At, Reads, Writes, HeldRead, GuardStep, SameGuards, TakesRead, TakesWrite, DropsGuards, OthersStay
<1>InstallNewer. CASE InstallNewer(s)
  <2>1. tasks' = [CancelAnalyses(tasks[s].uri, tasks) EXCEPT ![s].pc = "prepare"]
    BY <1>InstallNewer DEF InstallNewer
  <2>2. tasks[s] # Idle /\ tasks[s].uri \in Uris /\ At(s, "install")
    BY <1>InstallNewer, <1>t DEF InstallNewer, At, Task
  <2> DEFINE c == CancelAnalyses(tasks[s].uri, tasks)
  <2>3. c \in TasksType /\ c[s] # Idle
    BY <2>2, <1>c, CancelType
  <2>4. c[s] \in Task
    BY <2>3 DEF TasksType
  <2>5. tasks'[s] = [c[s] EXCEPT !.pc = "prepare"] /\ \A r \in Slots \ {s} : tasks'[r] = c[r]
    BY <2>1, <2>3 DEF TasksType
  <2>6. tasks'[s].pc = "prepare"
    BY <2>4, <2>5 DEF Task
  <2>7. OthersStay(s)
    BY <2>2, <2>5, <1>c DEF OthersStay
  <2>8. ~ Reads(s) /\ ~ Writes(s) /\ ~ Reads(s)' /\ ~ Writes(s)'
    BY <2>2, <2>6 DEF Reads, Writes, HeldRead, At
  <2> QED BY <2>6, <2>7, <2>8, <1>InstallNewer, <1>m, <1>g DEF InstallNewer, PassDocsAndAwait, GuardStep, SameGuards
<1>ApplyChange. CASE ApplyChange(s)
  <2>1. PICK x : tasks' = [CancelAnalyses(tasks[s].uri, tasks) EXCEPT ![s].pc = "prepare", ![s].text = x]
    BY <1>ApplyChange DEF ApplyChange
  <2>2. tasks[s] # Idle /\ tasks[s].uri \in Uris /\ At(s, "apply")
    BY <1>ApplyChange, <1>t DEF ApplyChange, At, Task
  <2> DEFINE c == CancelAnalyses(tasks[s].uri, tasks)
  <2>3. c \in TasksType /\ c[s] # Idle
    BY <2>2, <1>c, CancelType
  <2>4. c[s] \in Task
    BY <2>3 DEF TasksType
  <2>5. tasks'[s] = [c[s] EXCEPT !.pc = "prepare", !.text = x] /\ \A r \in Slots \ {s} : tasks'[r] = c[r]
    BY <2>1, <2>3 DEF TasksType
  <2>6. tasks'[s].pc = "prepare"
    BY <2>4, <2>5 DEF Task
  <2>7. OthersStay(s)
    BY <2>2, <2>5, <1>c DEF OthersStay
  <2>8. ~ Reads(s) /\ ~ Writes(s) /\ ~ Reads(s)' /\ ~ Writes(s)'
    BY <2>2, <2>6 DEF Reads, Writes, HeldRead, At
  <2> QED BY <2>6, <2>7, <2>8, <1>ApplyChange, <1>m, <1>g DEF ApplyChange, PassDocsAndAwait, GuardStep, SameGuards
<1>CloseDocument. CASE CloseDocument(s)
  <2>2. tasks[s] # Idle /\ tasks[s].uri \in Uris /\ At(s, "remove")
    BY <1>CloseDocument, <1>t DEF CloseDocument, At, Task
  <2> DEFINE c == CancelAnalyses(tasks[s].uri, tasks)
  <2>3. c \in TasksType
    BY <2>2, CancelType
  <2>5. tasks'[s] = Idle /\ \A r \in Slots \ {s} : tasks'[r] = c[r]
    BY <2>3, <1>CloseDocument DEF TasksType, CloseDocument
  <2>7. OthersStay(s)
    BY <2>2, <2>5, <1>c DEF OthersStay
  <2>8. ~ Reads(s) /\ ~ Writes(s) /\ ~ Reads(s)' /\ ~ Writes(s)'
    BY <2>2, <2>5 DEF Reads, Writes, HeldRead, At
  <2> QED BY <2>5, <2>7, <2>8, <1>CloseDocument, <1>m, <1>g DEF CloseDocument, PassDocs, GuardStep, SameGuards
<1>k. \A t \in Task : \A r : [t EXCEPT !.pc = "commit", !.result = r].pc = "commit"
  BY DEF Task
<1>Analyze. CASE Analyze(s)
  <2>1. tasks[s] # Idle /\ tasks[s] \in Task /\ At(s, "analyze")
    BY <1>Analyze, <1>t DEF Analyze, At
  <2>2. tasks'[s].pc = "commit"
    BY <2>1, <1>Analyze, <1>k, <1>f, PcNames DEF Analyze, TasksType
  <2>3. \A r \in Slots \ {s} : tasks'[r] = tasks[r]
    BY <2>1, <1>Analyze, <1>f DEF Analyze, TasksType
  <2>4. OthersStay(s)
    BY <2>3 DEF OthersStay
  <2>5. ~ Reads(s) /\ ~ Writes(s) /\ ~ Writes(s)' /\ ~ Reads(s)'
    BY <2>1, <2>2 DEF At, Reads, Writes, HeldRead
  <2>6. docLock'.readers = docLock.readers /\ docLock'.writers = docLock.writers
    BY <1>Analyze, <1>m, <1>g DEF Analyze, PassDocs
  <2> QED BY <2>2, <2>4, <2>5, <2>6, <1>Analyze DEF Analyze, GuardStep, SameGuards, TakesRead
<1>Capture. CASE Capture(s)
  <2>1. tasks[s] # Idle /\ tasks[s] \in Task /\ At(s, "capture")
    BY <1>Capture, <1>t DEF Capture, At
  <2>7. tasks[s].uri \in Uris /\ docs[tasks[s].uri] \in Document
    BY <2>1, <1>Capture DEF Capture, IsOpen, Task
  <2>8. tasks'[s] = [tasks[s] EXCEPT !.pc = IF docs[tasks[s].uri].report # NoText THEN "saveFlush" ELSE "savePool",
                                     !.text = docs[tasks[s].uri].source, !.version = docs[tasks[s].uri].version]
    BY <1>Capture DEF Capture, TasksType
  <2>9. tasks'[s] \in Task
    BY <2>1, <2>7, <2>8, PcNames DEF Task, Document
  <2>0. tasks'[s] # Idle /\ tasks'[s].pc = IF docs[tasks[s].uri].report # NoText THEN "saveFlush" ELSE "savePool"
    BY <2>1, <2>8, <2>9, LspAssumption DEF Task
  <2>2. tasks'[s] # Idle /\ tasks'[s].pc = IF docs[tasks[s].uri].report # NoText THEN "saveFlush" ELSE "savePool"
    BY <2>1, <2>0, <1>f, PcNames DEF Task
  <2>3. \A r \in Slots \ {s} : tasks'[r] = tasks[r]
    BY <2>1, <1>Capture, <1>f DEF Capture, TasksType
  <2>4. OthersStay(s)
    BY <2>3 DEF OthersStay
  <2>5. ~ Reads(s) /\ ~ Writes(s) /\ ~ Writes(s)' /\ IF docs[tasks[s].uri].report # NoText THEN Reads(s)' ELSE ~ Reads(s)'
    BY <2>1, <2>2 DEF At, Reads, Writes, HeldRead
  <2>6. IF docs[tasks[s].uri].report # NoText
        THEN docLock.writers = {} /\ docLock'.readers = docLock.readers \union {s} /\ docLock'.writers = docLock.writers
        ELSE docLock'.readers = docLock.readers /\ docLock'.writers = docLock.writers
    BY <1>Capture, <1>m, <1>g DEF Capture, PassDocs
  <2> QED BY <2>2, <2>4, <2>5, <2>6, <1>Capture DEF Capture, GuardStep, SameGuards, TakesRead
<1>SaveAnalyzed. CASE SaveAnalyzed(s)
  <2>1. tasks[s] # Idle /\ tasks[s] \in Task /\ At(s, "savePool")
    BY <1>SaveAnalyzed, <1>t DEF SaveAnalyzed, At
  <2>0. \/ tasks'[s] = [tasks[s] EXCEPT !.pc = "indexCheck", !.result = Outcome(tasks[s].text)]
        \/ tasks' = Return(s)
    BY <1>SaveAnalyzed DEF SaveAnalyzed, TasksType
  <2>2. tasks'[s] = Idle \/ tasks'[s].pc = "indexCheck"
    BY <2>1, <2>0, <1>f, PcNames DEF Task
  <2>3. \A r \in Slots \ {s} : tasks'[r] = tasks[r]
    BY <2>1, <1>SaveAnalyzed, <1>f DEF SaveAnalyzed, TasksType
  <2>4. OthersStay(s)
    BY <2>3 DEF OthersStay
  <2>5. ~ Reads(s) /\ ~ Writes(s) /\ ~ Writes(s)' /\ ~ Reads(s)'
    BY <2>1, <2>2 DEF At, Reads, Writes, HeldRead
  <2>6. docLock'.readers = docLock.readers /\ docLock'.writers = docLock.writers
    BY <1>SaveAnalyzed, <1>m, <1>g DEF SaveAnalyzed, PassDocs
  <2> QED BY <2>2, <2>4, <2>5, <2>6, <1>SaveAnalyzed DEF SaveAnalyzed, GuardStep, SameGuards, TakesRead
<1>Snapshot. CASE Snapshot(s)
  <2>1. tasks[s] # Idle /\ tasks[s] \in Task /\ At(s, "snapshot")
    BY <1>Snapshot, <1>t DEF Snapshot, At
  <2>0. \/ tasks'[s] = [tasks[s] EXCEPT !.pc = "load", !.text = docs[tasks[s].uri].source, !.overlays = Overlays]
        \/ tasks' = Reply(s, "null")
    BY <1>Snapshot DEF Snapshot, TasksType
  <2>7. Reply(s, "null")[s].pc = "replied"
    BY <2>1, <1>f, PcNames
  <2>2. tasks'[s].pc \in {"load", "replied"}
    BY <2>1, <2>0, <2>7, PcNames DEF Task
  <2>3. \A r \in Slots \ {s} : tasks'[r] = tasks[r]
    BY <2>1, <1>Snapshot, <1>f DEF Snapshot, TasksType
  <2>4. OthersStay(s)
    BY <2>3 DEF OthersStay
  <2>5. ~ Reads(s) /\ ~ Writes(s) /\ ~ Writes(s)' /\ ~ Reads(s)'
    BY <2>1, <2>2 DEF At, Reads, Writes, HeldRead
  <2>6. docLock'.readers = docLock.readers /\ docLock'.writers = docLock.writers
    BY <1>Snapshot, <1>m, <1>g DEF Snapshot, PassDocs
  <2> QED BY <2>2, <2>4, <2>5, <2>6, <1>Snapshot DEF Snapshot, GuardStep, SameGuards, TakesRead
<1>Load. CASE Load(s)
  <2>1. tasks[s] # Idle /\ tasks[s] \in Task /\ At(s, "load")
    BY <1>Load, <1>t DEF Load, At
  <2>0. \/ tasks'[s] = [tasks[s] EXCEPT !.pc = "verify", !.loaded = Effective(tasks[s].uri, tasks[s].overlays)]
        \/ tasks' = Goto(s, "fallback") \/ tasks' = Reply(s, "null")
    BY <1>Load DEF Load, TasksType
  <2>7. Goto(s, "fallback")[s].pc = "fallback" /\ Reply(s, "null")[s].pc = "replied"
    BY <2>1, <1>f, PcNames
  <2>2. tasks'[s].pc \in {"verify", "fallback", "replied"}
    BY <2>1, <2>0, <2>7, PcNames DEF Task
  <2>3. \A r \in Slots \ {s} : tasks'[r] = tasks[r]
    BY <2>1, <1>Load, <1>f DEF Load, TasksType
  <2>4. OthersStay(s)
    BY <2>3 DEF OthersStay
  <2>5. ~ Reads(s) /\ ~ Writes(s) /\ ~ Writes(s)' /\ ~ Reads(s)'
    BY <2>1, <2>2 DEF At, Reads, Writes, HeldRead
  <2>6. docLock'.readers = docLock.readers /\ docLock'.writers = docLock.writers
    BY <1>Load, <1>m, <1>g DEF Load, PassDocs
  <2> QED BY <2>2, <2>4, <2>5, <2>6, <1>Load DEF Load, GuardStep, SameGuards, TakesRead
<1> QED
  BY <1>InstallNew, <1>InstallNewer, <1>InstallStale, <1>ApplyChange, <1>RejectChange,
     <1>Prepare, <1>Analyze, <1>CommitReport, <1>CommitParseError, <1>CommitNothing,
     <1>Flushed, <1>CloseDocument, <1>Capture, <1>CaptureNothing, <1>SaveFlushed,
     <1>SaveAnalyzed, <1>IndexCheck, <1>UpdateIndex, <1>Snapshot, <1>Load,
     <1>VerifyStale, <1>VerifyAnswer, <1>VerifyFallback, <1>VerifyRename,
     <1>RenameAnswer, <1>Fallback, <1>Symbol, <1>AnswerFromIndex, <1>Replied
  DEF Run

\* The documents change in five steps only, each under the write lock.
LEMMA RunDocs ==
    ASSUME NEW s \in Slots, Run(s)
    PROVE  \/ docs' = docs
           \/ InstallNew(s) \/ InstallNewer(s) \/ ApplyChange(s)
           \/ CommitReport(s) \/ CloseDocument(s)
  BY Zenon DEF Run,
     InstallStale, RejectChange, Prepare, Analyze, CommitParseError,
     CommitNothing, Flushed, Capture, CaptureNothing, SaveFlushed,
     SaveAnalyzed, IndexCheck, UpdateIndex, Snapshot, Load, VerifyStale,
     VerifyAnswer, VerifyFallback, VerifyRename, RenameAnswer, Fallback,
     Symbol, AnswerFromIndex, Replied

\* The index changes in one.
LEMMA RunIndex ==
    ASSUME NEW s \in Slots, Run(s)
    PROVE  index' = index \/ UpdateIndex(s)
  BY Zenon DEF Run,
     InstallNew, InstallNewer, InstallStale, ApplyChange, RejectChange,
     Prepare, Analyze, CommitReport, CommitParseError, CommitNothing,
     Flushed, CloseDocument, Capture, CaptureNothing, SaveFlushed,
     SaveAnalyzed, IndexCheck, Snapshot, Load, VerifyStale, VerifyAnswer,
     VerifyFallback, VerifyRename, RenameAnswer, Fallback, Symbol,
     AnswerFromIndex, Replied

\* Whoever changes the documents does so while nobody reads them.
LEMMA DocsChangeAlone ==
    ASSUME NEW s \in Slots, Run(s), docs' # docs
    PROVE  docLock.readers = {}
  BY RunDocs DEF InstallNew, InstallNewer, ApplyChange, CommitReport, CloseDocument, Granted

\* A report is only installed for the text the document holds.
LEMMA RunKeepsReports ==
    ASSUME ServerType, NEW s \in Slots, Run(s),
           \A u \in Uris : IsOpen(u) => docs[u].report \in {NoText, docs[u].source}
    PROVE  \A u \in Uris : IsOpen(u)' => (docs[u].report \in {NoText, docs[u].source})'
<1> DEFINE t == tasks[s]
<1>1. CASE docs' = docs
  BY <1>1 DEF IsOpen
<1>2. \A x, v : NewDocument(x, v).report = NoText
  BY DEF NewDocument
<1>3. CASE InstallNew(s) \/ InstallNewer(s)
  <2>1. docs' = [docs EXCEPT ![t.uri] = NewDocument(t.text, t.version)]
    BY <1>3 DEF InstallNew, InstallNewer
  <2> QED BY <2>1, <1>2 DEF IsOpen, ServerType
<1>4. CASE ApplyChange(s)
  <2>1. PICK x : docs' = [docs EXCEPT ![t.uri] = NewDocument(x, t.version)]
    BY <1>4 DEF ApplyChange
  <2> QED BY <2>1, <1>2 DEF IsOpen, ServerType
<1>5. CASE CommitReport(s)
  <2>1. docs' = [docs EXCEPT ![t.uri].report = t.text] /\ IsOpen(t.uri) /\ docs[t.uri].source = t.text
    BY <1>5 DEF CommitReport, IsGeneration
  <2>2. t.uri \in Uris => docs[t.uri] \in Document
    BY <2>1 DEF ServerType, IsOpen
  <2>3. t.uri \in Uris => LET d == [docs[t.uri] EXCEPT !.report = t.text] IN d.report = d.source
    BY <2>1, <2>2 DEF Document
  <2> QED BY <2>1, <2>3 DEF IsOpen, ServerType
<1>6. CASE CloseDocument(s)
  <2>1. docs' = [docs EXCEPT ![t.uri] = NoDoc]
    BY <1>6 DEF CloseDocument
  <2> QED BY <2>1 DEF IsOpen, ServerType
<1> QED BY <1>1, <1>3, <1>4, <1>5, <1>6, RunDocs

\* The diagnostics change in four steps.
LEMMA RunShown ==
    ASSUME NEW s \in Slots, Run(s)
    PROVE  \/ shown' = shown
           \/ CommitReport(s) \/ CommitParseError(s) \/ CloseDocument(s) \/ Capture(s)
  BY Zenon DEF Run,
     InstallNew, InstallNewer, InstallStale, ApplyChange, RejectChange,
     Prepare, Analyze, CommitNothing, Flushed, CaptureNothing, SaveFlushed,
     SaveAnalyzed, IndexCheck, UpdateIndex, Snapshot, Load, VerifyStale,
     VerifyAnswer, VerifyFallback, VerifyRename, RenameAnswer, Fallback,
     Symbol, AnswerFromIndex, Replied

\* What a step queues for the client belongs to the document it leaves.
LEMMA ShownStep ==
    ASSUME ServerType, NEW s \in Slots, Run(s), NEW u \in Uris,
           IsOpen(u) => docs[u].report \in {NoText, docs[u].source},
           shown'[u] # shown[u]
    PROVE  IF docs'[u] = NoDoc THEN shown'[u] = Cleared ELSE shown'[u] = docs'[u].source
<1> USE DEF ServerType
<1>1. CASE CommitReport(s)
  <2>1. /\ docs' = [docs EXCEPT ![tasks[s].uri].report = tasks[s].text]
        /\ shown' = [shown EXCEPT ![tasks[s].uri] = tasks[s].text]
        /\ IsOpen(tasks[s].uri) /\ docs[tasks[s].uri].source = tasks[s].text
    BY <1>1 DEF CommitReport, IsGeneration
  <2>2. u = tasks[s].uri
    BY <2>1
  <2>3. docs'[u] = [docs[u] EXCEPT !.report = tasks[s].text] /\ docs[u] \in Document
    BY <2>1, <2>2 DEF IsOpen
  <2>4. docs'[u].source = docs[u].source /\ shown'[u] = tasks[s].text
    BY <2>1, <2>2, <2>3 DEF Document
  <2>5. docs'[u] # NoDoc => shown'[u] = docs'[u].source
    BY <2>1, <2>2, <2>4
  <2>6. tasks[s].text \in Texts
    BY <2>1, <2>2, <2>3 DEF Document
  <2>7. docs'[u] \in Document
    BY <2>3, <2>6 DEF Document
  <2> QED BY <2>5, <2>7, LspAssumption
<1>2. CASE CommitParseError(s)
  BY <1>2 DEF CommitParseError, IsGeneration, IsOpen
<1>3. CASE CloseDocument(s)
  BY <1>3 DEF CloseDocument
<1>4. CASE Capture(s)
  BY <1>4 DEF Capture, IsOpen
<1> QED BY <1>1, <1>2, <1>3, <1>4, RunShown

\* A step replaces an open document by a newer one, or gives it its report.
LEMMA VersionStep ==
    ASSUME ServerType, NEW s \in Slots, Run(s), NEW u \in Uris,
           IsOpen(u), docs'[u] # NoDoc, docs'[u] # docs[u]
    PROVE  \/ docs'[u].version > docs[u].version
           \/ docs'[u] = [docs[u] EXCEPT !.report = docs[u].source]
<1> USE DEF ServerType
<1> DEFINE t == tasks[s]
<1>0. docs[u] \in Document /\ docs[u].version \in Nat
  BY DEF IsOpen, Document, Version
<1>1. CASE InstallNew(s)
  BY <1>1 DEF InstallNew
<1>2. ASSUME NEW x, docs' = [docs EXCEPT ![t.uri] = NewDocument(x, t.version)],
             IsNewer(t.uri, t.version), tasks[s] # Idle
      PROVE  docs'[u].version > docs[u].version
  <2>1. t.uri = u /\ docs'[u].version = t.version
    BY <1>2 DEF NewDocument
  <2>2. t.version \in Nat
    BY <1>2 DEF TasksType, Task, Version
  <2> QED BY <1>0, <1>2, <2>1, <2>2 DEF IsNewer
<1>3. CASE InstallNewer(s)
  BY <1>2, <1>3 DEF InstallNewer, At
<1>4. CASE ApplyChange(s)
  BY <1>2, <1>4 DEF ApplyChange, At
<1>5. CASE CommitReport(s)
  BY <1>5 DEF CommitReport, IsGeneration
<1>6. CASE CloseDocument(s)
  BY <1>6 DEF CloseDocument
<1> QED BY <1>1, <1>3, <1>4, <1>5, <1>6, RunDocs

\* Only the steps that replace a document touch the handler of another slot.
LEMMA OthersKept ==
    ASSUME tasks \in TasksType, NEW s \in Slots, Run(s), NEW r \in Slots \ {s}
    PROVE  \/ tasks'[r] = tasks[r]
           \/ /\ InstallNewer(s) \/ ApplyChange(s) \/ CloseDocument(s)
              /\ tasks'[r] = CancelAnalyses(tasks[s].uri, tasks)[r]
<1>k. /\ \A pc : Goto(s, pc)[r] = tasks[r]
      /\ \A x : Reply(s, x)[r] = tasks[r]
      /\ Return(s)[r] = tasks[r]
  BY DEF Goto, Reply, Return, TasksType
<1> USE DEF TasksType
<1>InstallNew. CASE InstallNew(s)
  BY <1>InstallNew, <1>k DEF InstallNew
<1>InstallStale. CASE InstallStale(s)
  BY <1>InstallStale, <1>k DEF InstallStale
<1>RejectChange. CASE RejectChange(s)
  BY <1>RejectChange, <1>k DEF RejectChange
<1>Prepare. CASE Prepare(s)
  BY <1>Prepare, <1>k DEF Prepare
<1>Analyze. CASE Analyze(s)
  BY <1>Analyze, <1>k DEF Analyze
<1>CommitReport. CASE CommitReport(s)
  BY <1>CommitReport, <1>k DEF CommitReport
<1>CommitParseError. CASE CommitParseError(s)
  BY <1>CommitParseError, <1>k DEF CommitParseError
<1>CommitNothing. CASE CommitNothing(s)
  BY <1>CommitNothing, <1>k DEF CommitNothing
<1>Flushed. CASE Flushed(s)
  BY <1>Flushed, <1>k DEF Flushed
<1>Capture. CASE Capture(s)
  BY <1>Capture, <1>k DEF Capture
<1>CaptureNothing. CASE CaptureNothing(s)
  BY <1>CaptureNothing, <1>k DEF CaptureNothing
<1>SaveFlushed. CASE SaveFlushed(s)
  BY <1>SaveFlushed, <1>k DEF SaveFlushed
<1>SaveAnalyzed. CASE SaveAnalyzed(s)
  BY <1>SaveAnalyzed, <1>k DEF SaveAnalyzed
<1>IndexCheck. CASE IndexCheck(s)
  BY <1>IndexCheck, <1>k DEF IndexCheck
<1>UpdateIndex. CASE UpdateIndex(s)
  BY <1>UpdateIndex, <1>k DEF UpdateIndex
<1>Snapshot. CASE Snapshot(s)
  BY <1>Snapshot, <1>k DEF Snapshot
<1>Load. CASE Load(s)
  BY <1>Load, <1>k DEF Load
<1>VerifyStale. CASE VerifyStale(s)
  BY <1>VerifyStale, <1>k DEF VerifyStale
<1>VerifyAnswer. CASE VerifyAnswer(s)
  BY <1>VerifyAnswer, <1>k DEF VerifyAnswer
<1>VerifyFallback. CASE VerifyFallback(s)
  BY <1>VerifyFallback, <1>k DEF VerifyFallback
<1>VerifyRename. CASE VerifyRename(s)
  BY <1>VerifyRename, <1>k DEF VerifyRename
<1>RenameAnswer. CASE RenameAnswer(s)
  BY <1>RenameAnswer, <1>k DEF RenameAnswer
<1>Fallback. CASE Fallback(s)
  BY <1>Fallback, <1>k DEF Fallback
<1>Symbol. CASE Symbol(s)
  BY <1>Symbol, <1>k DEF Symbol
<1>AnswerFromIndex. CASE AnswerFromIndex(s)
  BY <1>AnswerFromIndex, <1>k DEF AnswerFromIndex
<1>Replied. CASE Replied(s)
  BY <1>Replied, <1>k DEF Replied
<1>InstallNewer. CASE InstallNewer(s)
  BY <1>InstallNewer DEF InstallNewer, CancelAnalyses
<1>ApplyChange. CASE ApplyChange(s)
  BY <1>ApplyChange DEF ApplyChange, CancelAnalyses
<1>CloseDocument. CASE CloseDocument(s)
  BY <1>CloseDocument DEF CloseDocument, CancelAnalyses
<1> QED
  BY <1>InstallNew, <1>InstallNewer, <1>InstallStale, <1>ApplyChange, <1>RejectChange,
     <1>Prepare, <1>Analyze, <1>CommitReport, <1>CommitParseError, <1>CommitNothing,
     <1>Flushed, <1>CloseDocument, <1>Capture, <1>CaptureNothing, <1>SaveFlushed,
     <1>SaveAnalyzed, <1>IndexCheck, <1>UpdateIndex, <1>Snapshot, <1>Load,
     <1>VerifyStale, <1>VerifyAnswer, <1>VerifyFallback, <1>VerifyRename,
     <1>RenameAnswer, <1>Fallback, <1>Symbol, <1>AnswerFromIndex, <1>Replied
  DEF Run

\* Where a handler's step leaves it, and from which step it got there; what it
\* serves never changes.
ComesFrom(s) ==
    LET pc == tasks'[s].pc IN
    /\ pc = "prepare" => InstallNew(s) \/ InstallNewer(s) \/ ApplyChange(s)
    /\ pc = "analyze" => Prepare(s)
    /\ pc = "commit" => Analyze(s)
    /\ pc = "saveFlush" => Capture(s)
    /\ pc = "savePool" => Capture(s) \/ SaveFlushed(s)
    /\ pc = "indexCheck" => SaveAnalyzed(s)
    /\ pc = "index" => IndexCheck(s)
    /\ pc = "verify" => Load(s)
    /\ pc = "symbolWs" => Symbol(s)
    /\ pc = "fallbackWs" => Fallback(s)
    /\ pc = "renameWs" => VerifyRename(s)
    /\ pc \notin {"install", "apply", "remove", "capture"}

\* The handler in slot s moves to pc and serves what it served.
Lands(s, pc) ==
    /\ tasks'[s].pc = pc
    /\ tasks'[s].kind = tasks[s].kind /\ tasks'[s].uri = tasks[s].uri

\* What moving does to the record of a handler.
LEMMA RecordMoves ==
    ASSUME NEW k \in Task, NEW pc, NEW x, NEW y
    PROVE  \A j \in {[k EXCEPT !.pc = pc], [k EXCEPT !.pc = pc, !.result = x],
                     [k EXCEPT !.pc = pc, !.text = x], [k EXCEPT !.pc = pc, !.loaded = x],
                     [k EXCEPT !.pc = pc, !.text = x, !.version = y],
                     [k EXCEPT !.pc = pc, !.text = x, !.overlays = y]} :
               j.pc = pc /\ j.kind = k.kind /\ j.uri = k.uri
  BY DEF Task

LEMMA LandsBy ==
    ASSUME tasks \in TasksType, NEW s \in Slots, tasks[s] # Idle
    PROVE  /\ \A pc : tasks' = Goto(s, pc) => Lands(s, pc)
           /\ \A x : tasks' = Reply(s, x) => Lands(s, "replied")
           /\ tasks' = Return(s) => tasks'[s] = Idle
<1>1. tasks[s] \in Task
  BY DEF TasksType
<1>2. ASSUME NEW pc, tasks' = Goto(s, pc) PROVE Lands(s, pc)
  <2>1. tasks'[s] = [tasks[s] EXCEPT !.pc = pc]
    BY <1>2 DEF Goto, TasksType
  <2> QED BY <1>1, <2>1, RecordMoves DEF Lands
<1>3. ASSUME NEW x, tasks' = Reply(s, x) PROVE Lands(s, "replied")
  <2>1. tasks'[s] = [tasks[s] EXCEPT !.pc = "replied", !.result = x]
    BY <1>3 DEF Reply, TasksType
  <2> QED BY <1>1, <2>1, RecordMoves DEF Lands
<1>4. tasks' = Return(s) => tasks'[s] = Idle
  BY DEF Return, TasksType
<1> QED BY <1>2, <1>3, <1>4

LEMMA RunMoves ==
    ASSUME tasks \in TasksType, NEW s \in Slots, Run(s), tasks'[s] # Idle
    PROVE  /\ tasks[s] \in Task /\ ComesFrom(s)
           /\ tasks'[s].kind = tasks[s].kind /\ tasks'[s].uri = tasks[s].uri
<1>t. tasks[s] # Idle => tasks[s] \in Task
  BY DEF TasksType
<1>k. tasks[s] # Idle =>
        /\ \A pc : tasks' = Goto(s, pc) => Lands(s, pc)
        /\ \A x : tasks' = Reply(s, x) => Lands(s, "replied")
        /\ tasks' = Return(s) => tasks'[s] = Idle
  BY LandsBy
<1>InstallNew. CASE InstallNew(s)
  <2>1. tasks[s] # Idle /\ (Lands(s, "prepare"))
    BY <1>InstallNew, <1>k DEF InstallNew, At
  <2> QED BY <2>1, <1>t, <1>InstallNew DEF Lands, ComesFrom
<1>InstallStale. CASE InstallStale(s)
  BY <1>InstallStale, <1>k DEF InstallStale, At
<1>RejectChange. CASE RejectChange(s)
  BY <1>RejectChange, <1>k DEF RejectChange, At
<1>Prepare. CASE Prepare(s)
  <2>1. tasks[s] # Idle /\ (Lands(s, "analyze"))
    BY <1>Prepare, <1>k DEF Prepare, At
  <2> QED BY <2>1, <1>t, <1>Prepare DEF Lands, ComesFrom
<1>CommitReport. CASE CommitReport(s)
  <2>1. tasks[s] # Idle /\ (Lands(s, "flush"))
    BY <1>CommitReport, <1>k DEF CommitReport, At
  <2> QED BY <2>1, <1>t, <1>CommitReport DEF Lands, ComesFrom
<1>CommitParseError. CASE CommitParseError(s)
  <2>1. tasks[s] # Idle /\ (Lands(s, "flush"))
    BY <1>CommitParseError, <1>k DEF CommitParseError, At
  <2> QED BY <2>1, <1>t, <1>CommitParseError DEF Lands, ComesFrom
<1>CommitNothing. CASE CommitNothing(s)
  BY <1>CommitNothing, <1>k DEF CommitNothing, At
<1>Flushed. CASE Flushed(s)
  BY <1>Flushed, <1>k DEF Flushed, At
<1>CaptureNothing. CASE CaptureNothing(s)
  BY <1>CaptureNothing, <1>k DEF CaptureNothing, At
<1>SaveFlushed. CASE SaveFlushed(s)
  <2>1. tasks[s] # Idle /\ (Lands(s, "savePool"))
    BY <1>SaveFlushed, <1>k DEF SaveFlushed, At
  <2> QED BY <2>1, <1>t, <1>SaveFlushed DEF Lands, ComesFrom
<1>IndexCheck. CASE IndexCheck(s)
  <2>1. tasks[s] # Idle /\ (Lands(s, "index"))
    BY <1>IndexCheck, <1>k DEF IndexCheck, At
  <2> QED BY <2>1, <1>t, <1>IndexCheck DEF Lands, ComesFrom
<1>UpdateIndex. CASE UpdateIndex(s)
  BY <1>UpdateIndex, <1>k DEF UpdateIndex, At
<1>VerifyStale. CASE VerifyStale(s)
  <2>1. tasks[s] # Idle /\ (Lands(s, "replied"))
    BY <1>VerifyStale, <1>k DEF VerifyStale, At
  <2> QED BY <2>1, <1>t, <1>VerifyStale DEF Lands, ComesFrom
<1>VerifyAnswer. CASE VerifyAnswer(s)
  <2>1. tasks[s] # Idle /\ (Lands(s, "replied"))
    BY <1>VerifyAnswer, <1>k DEF VerifyAnswer, At
  <2> QED BY <2>1, <1>t, <1>VerifyAnswer DEF Lands, ComesFrom
<1>VerifyFallback. CASE VerifyFallback(s)
  <2>1. tasks[s] # Idle /\ (Lands(s, "fallback"))
    BY <1>VerifyFallback, <1>k DEF VerifyFallback, At
  <2> QED BY <2>1, <1>t, <1>VerifyFallback DEF Lands, ComesFrom
<1>VerifyRename. CASE VerifyRename(s)
  <2>1. tasks[s] # Idle /\ (Lands(s, "renameWs"))
    BY <1>VerifyRename, <1>k DEF VerifyRename, At
  <2> QED BY <2>1, <1>t, <1>VerifyRename DEF Lands, ComesFrom
<1>RenameAnswer. CASE RenameAnswer(s)
  <2>1. tasks[s] # Idle /\ (Lands(s, "replied"))
    BY <1>RenameAnswer, <1>k DEF RenameAnswer, At
  <2> QED BY <2>1, <1>t, <1>RenameAnswer DEF Lands, ComesFrom
<1>Fallback. CASE Fallback(s)
  <2>1. tasks[s] # Idle /\ (Lands(s, "fallbackWs") \/ Lands(s, "replied"))
    BY <1>Fallback, <1>k DEF Fallback, At
  <2> QED BY <2>1, <1>t, <1>Fallback DEF Lands, ComesFrom
<1>Symbol. CASE Symbol(s)
  <2>1. tasks[s] # Idle /\ (Lands(s, "symbolWs"))
    BY <1>Symbol, <1>k DEF Symbol, At
  <2> QED BY <2>1, <1>t, <1>Symbol DEF Lands, ComesFrom
<1>AnswerFromIndex. CASE AnswerFromIndex(s)
  <2>1. tasks[s] # Idle /\ (Lands(s, "replied"))
    BY <1>AnswerFromIndex, <1>k DEF AnswerFromIndex, At
  <2> QED BY <2>1, <1>t, <1>AnswerFromIndex DEF Lands, ComesFrom
<1>Replied. CASE Replied(s)
  BY <1>Replied, <1>k DEF Replied, At
<1>Analyze. CASE Analyze(s)
  <2>1. PICK r : tasks' = [tasks EXCEPT ![s].pc = "commit", ![s].result = r]
    BY <1>Analyze DEF Analyze
  <2>2. tasks[s] # Idle /\ tasks'[s] = [tasks[s] EXCEPT !.pc = "commit", !.result = r]
    BY <2>1, <1>Analyze DEF Analyze, At, TasksType
  <2>3. Lands(s, "commit")
    BY <2>2, <1>t, RecordMoves DEF Lands
  <2> QED BY <2>2, <2>3, <1>t, <1>Analyze DEF Lands, ComesFrom
<1>Capture. CASE Capture(s)
  <2> DEFINE d == docs[tasks[s].uri]
             pc == IF d.report # NoText THEN "saveFlush" ELSE "savePool"
  <2>1. tasks[s] # Idle /\ tasks'[s] = [tasks[s] EXCEPT !.pc = pc, !.text = d.source, !.version = d.version]
    BY <1>Capture DEF Capture, At, TasksType
  <2>2. Lands(s, pc)
    BY <2>1, <1>t, RecordMoves DEF Lands
  <2> QED BY <2>1, <2>2, <1>t, <1>Capture DEF Lands, ComesFrom
<1>SaveAnalyzed. CASE SaveAnalyzed(s)
  <2>1. tasks[s] # Idle /\ tasks'[s] = [tasks[s] EXCEPT !.pc = "indexCheck", !.result = Outcome(tasks[s].text)]
    BY <1>SaveAnalyzed, <1>k DEF SaveAnalyzed, At, TasksType
  <2>2. Lands(s, "indexCheck")
    BY <2>1, <1>t, RecordMoves DEF Lands
  <2> QED BY <2>1, <2>2, <1>t, <1>SaveAnalyzed DEF Lands, ComesFrom
<1>Snapshot. CASE Snapshot(s)
  <2>0. tasks[s] # Idle
    BY <1>Snapshot DEF Snapshot, At
  <2>1. \/ tasks' = Reply(s, "null")
        \/ tasks'[s] = [tasks[s] EXCEPT !.pc = "load", !.text = docs[tasks[s].uri].source, !.overlays = Overlays]
    BY <1>Snapshot DEF Snapshot, TasksType
  <2>2. ASSUME tasks' # Reply(s, "null") PROVE Lands(s, "load")
    <3>1. tasks'[s] = [tasks[s] EXCEPT !.pc = "load", !.text = docs[tasks[s].uri].source, !.overlays = Overlays]
      BY <2>1, <2>2
    <3> QED BY <2>0, <1>t, <3>1, RecordMoves DEF Lands
  <2>3. Lands(s, "replied") \/ Lands(s, "load")
    BY <2>0, <2>2, <1>k
  <2> QED BY <2>0, <2>3, <1>t DEF Lands, ComesFrom
<1>Load. CASE Load(s)
  <2>0. tasks[s] # Idle
    BY <1>Load DEF Load, At
  <2>1. \/ tasks' = Reply(s, "null") \/ tasks' = Goto(s, "fallback")
        \/ tasks'[s] = [tasks[s] EXCEPT !.pc = "verify", !.loaded = Effective(tasks[s].uri, tasks[s].overlays)]
    BY <1>Load DEF Load, TasksType
  <2>2. ASSUME tasks'[s] = [tasks[s] EXCEPT !.pc = "verify", !.loaded = Effective(tasks[s].uri, tasks[s].overlays)]
        PROVE  Lands(s, "verify")
    BY <2>0, <2>2, <1>t, RecordMoves DEF Lands
  <2>3. Lands(s, "replied") \/ Lands(s, "fallback") \/ Lands(s, "verify")
    BY <2>0, <2>1, <2>2, <1>k
  <2> QED BY <2>0, <2>3, <1>t, <1>Load DEF Lands, ComesFrom
<1>c. ASSUME NEW u, tasks[s] # Idle
      PROVE  /\ CancelAnalyses(u, tasks)[s] \in Task
             /\ CancelAnalyses(u, tasks)[s].kind = tasks[s].kind
             /\ CancelAnalyses(u, tasks)[s].uri = tasks[s].uri
  <2>1. CancelAnalyses(u, tasks)[s] \in {tasks[s], [tasks[s] EXCEPT !.cancelled = TRUE]}
    BY <1>c DEF CancelAnalyses
  <2>2. \A k \in Task : LET j == [k EXCEPT !.cancelled = TRUE]
                        IN j \in Task /\ j.kind = k.kind /\ j.uri = k.uri
    BY DEF Task
  <2> QED BY <1>c, <1>t, <2>1, <2>2
<1>InstallNewer. CASE InstallNewer(s)
  <2> DEFINE k == CancelAnalyses(tasks[s].uri, tasks)[s]
  <2>1. tasks[s] # Idle /\ tasks'[s] = [k EXCEPT !.pc = "prepare"]
    BY <1>InstallNewer DEF InstallNewer, At, CancelAnalyses
  <2>2. k \in Task /\ k.kind = tasks[s].kind /\ k.uri = tasks[s].uri
    BY <2>1, <1>c
  <2> HIDE DEF k
  <2>3. Lands(s, "prepare")
    BY <2>1, <2>2, RecordMoves DEF Lands
  <2> QED BY <2>1, <2>3, <1>t, <1>InstallNewer DEF Lands, ComesFrom
<1>ApplyChange. CASE ApplyChange(s)
  <2> DEFINE k == CancelAnalyses(tasks[s].uri, tasks)[s]
  <2>1. PICK x : tasks'[s] = [k EXCEPT !.pc = "prepare", !.text = x]
    BY <1>ApplyChange DEF ApplyChange, At, CancelAnalyses
  <2>0. tasks[s] # Idle
    BY <1>ApplyChange DEF ApplyChange, At
  <2>2. k \in Task /\ k.kind = tasks[s].kind /\ k.uri = tasks[s].uri
    BY <2>0, <1>c
  <2> HIDE DEF k
  <2>3. Lands(s, "prepare")
    BY <2>1, <2>2, RecordMoves DEF Lands
  <2> QED BY <2>0, <2>3, <1>t, <1>ApplyChange DEF Lands, ComesFrom
<1>CloseDocument. CASE CloseDocument(s)
  BY <1>CloseDocument DEF CloseDocument, CancelAnalyses
<1> QED
  BY <1>InstallNew, <1>InstallNewer, <1>InstallStale, <1>ApplyChange, <1>RejectChange,
     <1>Prepare, <1>Analyze, <1>CommitReport, <1>CommitParseError, <1>CommitNothing,
     <1>Flushed, <1>CloseDocument, <1>Capture, <1>CaptureNothing, <1>SaveFlushed,
     <1>SaveAnalyzed, <1>IndexCheck, <1>UpdateIndex, <1>Snapshot, <1>Load,
     <1>VerifyStale, <1>VerifyAnswer, <1>VerifyFallback, <1>VerifyRename,
     <1>RenameAnswer, <1>Fallback, <1>Symbol, <1>AnswerFromIndex, <1>Replied
  DEF Run

\* Which steps a handler can take from where it is suspended.
RunsFrom(s) ==
    LET pc == tasks[s].pc IN
    /\ pc = "install" => InstallNew(s) \/ InstallNewer(s) \/ InstallStale(s)
    /\ pc = "apply" => ApplyChange(s) \/ RejectChange(s)
    /\ pc = "prepare" => Prepare(s)
    /\ pc = "analyze" => Analyze(s)
    /\ pc = "commit" => CommitReport(s) \/ CommitParseError(s) \/ CommitNothing(s)
    /\ pc = "remove" => CloseDocument(s)
    /\ pc = "capture" => Capture(s) \/ CaptureNothing(s)
    /\ pc = "verify" => VerifyStale(s) \/ VerifyAnswer(s) \/ VerifyFallback(s) \/ VerifyRename(s)

LEMMA RunFrom ==
    ASSUME NEW s \in Slots, Run(s)
    PROVE  tasks[s] # Idle /\ RunsFrom(s)
<1>install. CASE InstallNew(s) \/ InstallNewer(s) \/ InstallStale(s)
  <2>1. At(s, "install")
    BY <1>install DEF InstallNew, InstallNewer, InstallStale
  <2> QED BY <1>install, <2>1 DEF At, RunsFrom
<1>apply. CASE ApplyChange(s) \/ RejectChange(s)
  <2>1. At(s, "apply")
    BY <1>apply DEF ApplyChange, RejectChange
  <2> QED BY <1>apply, <2>1 DEF At, RunsFrom
<1>prepare. CASE Prepare(s)
  <2>1. At(s, "prepare")
    BY <1>prepare DEF Prepare
  <2> QED BY <1>prepare, <2>1 DEF At, RunsFrom
<1>analyze. CASE Analyze(s)
  <2>1. At(s, "analyze")
    BY <1>analyze DEF Analyze
  <2> QED BY <1>analyze, <2>1 DEF At, RunsFrom
<1>commit. CASE CommitReport(s) \/ CommitParseError(s) \/ CommitNothing(s)
  <2>1. At(s, "commit")
    BY <1>commit DEF CommitReport, CommitParseError, CommitNothing
  <2> QED BY <1>commit, <2>1 DEF At, RunsFrom
<1>remove. CASE CloseDocument(s)
  <2>1. At(s, "remove")
    BY <1>remove DEF CloseDocument
  <2> QED BY <1>remove, <2>1 DEF At, RunsFrom
<1>capture. CASE Capture(s) \/ CaptureNothing(s)
  <2>1. At(s, "capture")
    BY <1>capture DEF Capture, CaptureNothing
  <2> QED BY <1>capture, <2>1 DEF At, RunsFrom
<1>verify. CASE VerifyStale(s) \/ VerifyAnswer(s) \/ VerifyFallback(s) \/ VerifyRename(s)
  <2>1. At(s, "verify")
    BY <1>verify DEF VerifyStale, VerifyAnswer, VerifyFallback, VerifyRename
  <2> QED BY <1>verify, <2>1 DEF At, RunsFrom
<1>other. ASSUME ~ RunsFrom(s) \/ tasks[s] = Idle,
         \/ Flushed(s) \/ SaveFlushed(s) \/ SaveAnalyzed(s) \/ IndexCheck(s)
         \/ UpdateIndex(s) \/ Snapshot(s) \/ Load(s) \/ RenameAnswer(s)
         \/ Fallback(s) \/ Symbol(s) \/ AnswerFromIndex(s) \/ Replied(s)
          PROVE  FALSE
  <2>Flushed. Flushed(s) => At(s, "flush")
    BY DEF Flushed
  <2>SaveFlushed. SaveFlushed(s) => At(s, "saveFlush")
    BY DEF SaveFlushed
  <2>SaveAnalyzed. SaveAnalyzed(s) => At(s, "savePool")
    BY DEF SaveAnalyzed
  <2>IndexCheck. IndexCheck(s) => At(s, "indexCheck")
    BY DEF IndexCheck
  <2>UpdateIndex. UpdateIndex(s) => At(s, "index")
    BY DEF UpdateIndex
  <2>Snapshot. Snapshot(s) => At(s, "snapshot")
    BY DEF Snapshot
  <2>Load. Load(s) => At(s, "load")
    BY DEF Load
  <2>RenameAnswer. RenameAnswer(s) => At(s, "renameWs")
    BY DEF RenameAnswer
  <2>Fallback. Fallback(s) => At(s, "fallback")
    BY DEF Fallback
  <2>Symbol. Symbol(s) => At(s, "symbol")
    BY DEF Symbol
  <2>AnswerFromIndex. AnswerFromIndex(s) => At(s, "symbolWs") \/ At(s, "fallbackWs")
    BY DEF AnswerFromIndex
  <2>Replied. Replied(s) => At(s, "replied")
    BY DEF Replied
  <2>1. tasks[s] # Idle /\ tasks[s].pc \in {"flush", "saveFlush", "savePool", "indexCheck", "index", "snapshot", "load", "renameWs", "fallback", "symbol", "symbolWs", "fallbackWs", "replied"}
    BY <1>other, <2>Flushed, <2>SaveFlushed, <2>SaveAnalyzed, <2>IndexCheck, <2>UpdateIndex, <2>Snapshot, <2>Load, <2>RenameAnswer, <2>Fallback, <2>Symbol, <2>AnswerFromIndex, <2>Replied DEF At
  <2> QED BY <2>1, <1>other DEF RunsFrom
<1> QED BY <1>install, <1>apply, <1>prepare, <1>analyze, <1>commit, <1>remove, <1>capture, <1>verify, <1>other DEF Run

\* An answer with locations is given only for a snapshot that still matches.
LEMMA VerifyStep ==
    ASSUME tasks \in TasksType, NEW s \in Slots, Run(s), At(s, "verify"),
           tasks'[s] # Idle, tasks'[s].pc = "replied", tasks'[s].result = "edits"
    PROVE  SnapshotMatches(tasks[s])
<1>1. VerifyStale(s) \/ VerifyAnswer(s) \/ VerifyFallback(s) \/ VerifyRename(s)
  BY RunFrom DEF RunsFrom, At
<1>2. ASSUME VerifyStale(s) PROVE tasks'[s].result = "null"
  <2>1. tasks'[s] = [tasks[s] EXCEPT !.pc = "replied", !.result = "null"] /\ tasks[s] \in Task
    BY <1>2 DEF VerifyStale, Reply, TasksType, At
  <2> QED BY <2>1 DEF Task
<1> QED BY <1>1, <1>2 DEF VerifyAnswer, VerifyFallback, VerifyRename

-----------------------------------------------------------------------------
(* What a step does to the queue of the documents lock *)

\* The handler awaits the documents lock, or no longer does.
Waits(s)  == tasks'[s] # Idle /\ tasks'[s].pc \in PcDocs
Leaves(s) == tasks'[s] = Idle \/ tasks'[s].pc \notin PcDocs

AtHead(s) == docLock.queue # << >> /\ Head(docLock.queue).slot = s

\* A step takes the head of the queue, or joins the queue at its end, or both.
QueueKept(s)  == docLock'.queue = docLock.queue /\ tasks[s].pc \notin PcDocs /\ Leaves(s)
QueueJoins(s) ==
    /\ \E m \in Mode : docLock'.queue = Append(docLock.queue, [slot |-> s, mode |-> m])
    /\ tasks[s].pc \notin PcDocs /\ Waits(s)
QueueTakes(s) == AtHead(s) /\ docLock'.queue = Tail(docLock.queue) /\ Leaves(s)
QueueTurns(s) ==
    /\ AtHead(s) /\ Waits(s)
    /\ \E m \in Mode : docLock'.queue = Append(Tail(docLock.queue), [slot |-> s, mode |-> m])

\* What the lock operations do to the queue.
LEMMA QueueOps ==
    ASSUME NEW l \in Lock, NEW s \in Slots
    PROVE  /\ \A m : Granted(l, s, m) =>
                /\ l.queue # << >> /\ Head(l.queue).slot = s
                /\ Hold(l, s, m).queue = Tail(l.queue)
                /\ \A n : Await(Pass(l), s, n).queue = Append(Tail(l.queue), [slot |-> s, mode |-> n])
           /\ Pass(l).queue = Tail(l.queue)
           /\ \A n : Await(l, s, n).queue = Append(l.queue, [slot |-> s, mode |-> n])
           /\ Release(l, s).queue = l.queue
  BY DEF Granted, Hold, Pass, Await, Release, Lock

LEMMA QueueMoves ==
    ASSUME ServerType, NEW s \in Slots, Run(s)
    PROVE  QueueKept(s) \/ QueueJoins(s) \/ QueueTakes(s) \/ QueueTurns(s)
<1>0. docLock \in Lock /\ tasks \in TasksType
  BY DEF ServerType
<1>m. "read" \in Mode /\ "write" \in Mode
  BY DEF Mode
<1>q. /\ \A m : Granted(docLock, s, m) =>
            /\ AtHead(s)
            /\ Hold(docLock, s, m).queue = Tail(docLock.queue)
            /\ \A n : Await(Pass(docLock), s, n).queue = Append(Tail(docLock.queue), [slot |-> s, mode |-> n])
      /\ Pass(docLock).queue = Tail(docLock.queue)
      /\ \A n : Await(docLock, s, n).queue = Append(docLock.queue, [slot |-> s, mode |-> n])
      /\ Release(docLock, s).queue = docLock.queue
  BY <1>0, QueueOps DEF AtHead
<1>p. /\ {"install", "apply", "prepare", "commit", "remove", "capture",
          "indexCheck", "snapshot", "verify", "fallback", "symbol"} \subseteq PcDocs
      /\ \A pc \in {"index", "symbolWs", "fallbackWs", "renameWs", "analyze", "savePool",
                    "load", "flush", "saveFlush", "replied"} : pc \notin PcDocs
  BY DEF PcDocs
<1>k. tasks[s] # Idle =>
        /\ \A pc : tasks' = Goto(s, pc) => Lands(s, pc)
        /\ \A x : tasks' = Reply(s, x) => Lands(s, "replied")
        /\ tasks' = Return(s) => tasks'[s] = Idle
  BY <1>0, LandsBy
<1>w. \A pc \in PcDocs : tasks[s] # Idle /\ tasks' = Goto(s, pc) => tasks'[s] # Idle
  <2>1. \A pc \in PcDocs : pc \in PcTask
    BY DEF PcTask
  <2>2. ASSUME NEW pc \in PcDocs, tasks[s] # Idle, tasks' = Goto(s, pc) PROVE tasks'[s] # Idle
    <3>1. Goto(s, pc)[s] # Idle
      BY <1>0, <2>1, <2>2, GotoFacts
    <3> QED BY <2>2, <3>1
  <2> QED BY <2>2
<1>Flushed. CASE Flushed(s)
  <2>1. tasks[s] # Idle /\ (tasks'[s] = Idle)
    BY <1>Flushed, <1>k DEF Flushed, At
  <2>2. docLock'.queue = docLock.queue /\ (At(s, "flush"))
    BY <1>Flushed, <1>q DEF Flushed
  <2> QED BY <2>1, <2>2, <1>p DEF QueueKept, Leaves, Lands, At
<1>SaveFlushed. CASE SaveFlushed(s)
  <2>1. tasks[s] # Idle /\ (Lands(s, "savePool"))
    BY <1>SaveFlushed, <1>k DEF SaveFlushed, At
  <2>2. docLock'.queue = docLock.queue /\ (At(s, "saveFlush"))
    BY <1>SaveFlushed, <1>q DEF SaveFlushed
  <2> QED BY <2>1, <2>2, <1>p DEF QueueKept, Leaves, Lands, At
<1>UpdateIndex. CASE UpdateIndex(s)
  <2>1. tasks[s] # Idle /\ (tasks'[s] = Idle)
    BY <1>UpdateIndex, <1>k DEF UpdateIndex, At
  <2>2. docLock'.queue = docLock.queue /\ (At(s, "index"))
    BY <1>UpdateIndex, <1>q DEF UpdateIndex
  <2> QED BY <2>1, <2>2, <1>p DEF QueueKept, Leaves, Lands, At
<1>RenameAnswer. CASE RenameAnswer(s)
  <2>1. tasks[s] # Idle /\ (Lands(s, "replied"))
    BY <1>RenameAnswer, <1>k DEF RenameAnswer, At
  <2>2. docLock'.queue = docLock.queue /\ (At(s, "renameWs"))
    BY <1>RenameAnswer, <1>q DEF RenameAnswer
  <2> QED BY <2>1, <2>2, <1>p DEF QueueKept, Leaves, Lands, At
<1>AnswerFromIndex. CASE AnswerFromIndex(s)
  <2>1. tasks[s] # Idle /\ (Lands(s, "replied"))
    BY <1>AnswerFromIndex, <1>k DEF AnswerFromIndex, At
  <2>2. docLock'.queue = docLock.queue /\ (At(s, "symbolWs") \/ At(s, "fallbackWs"))
    BY <1>AnswerFromIndex, <1>q DEF AnswerFromIndex
  <2> QED BY <2>1, <2>2, <1>p DEF QueueKept, Leaves, Lands, At
<1>Replied. CASE Replied(s)
  <2>1. tasks[s] # Idle /\ (tasks'[s] = Idle)
    BY <1>Replied, <1>k DEF Replied, At
  <2>2. docLock'.queue = docLock.queue /\ (At(s, "replied"))
    BY <1>Replied, <1>q DEF Replied
  <2> QED BY <2>1, <2>2, <1>p DEF QueueKept, Leaves, Lands, At
<1>InstallStale. CASE InstallStale(s)
  <2>1. tasks[s] # Idle /\ (tasks'[s] = Idle)
    BY <1>InstallStale, <1>k DEF InstallStale, At
  <2>2. AtHead(s) /\ docLock'.queue = Tail(docLock.queue)
    BY <1>InstallStale, <1>q DEF InstallStale, PassDocs
  <2> QED BY <2>1, <2>2, <1>p DEF QueueTakes, Leaves, Lands
<1>RejectChange. CASE RejectChange(s)
  <2>1. tasks[s] # Idle /\ (tasks'[s] = Idle)
    BY <1>RejectChange, <1>k DEF RejectChange, At
  <2>2. AtHead(s) /\ docLock'.queue = Tail(docLock.queue)
    BY <1>RejectChange, <1>q DEF RejectChange, PassDocs
  <2> QED BY <2>1, <2>2, <1>p DEF QueueTakes, Leaves, Lands
<1>Prepare. CASE Prepare(s)
  <2>1. tasks[s] # Idle /\ (Lands(s, "analyze") \/ tasks'[s] = Idle)
    BY <1>Prepare, <1>k DEF Prepare, At
  <2>2. AtHead(s) /\ docLock'.queue = Tail(docLock.queue)
    BY <1>Prepare, <1>q DEF Prepare, PassDocs
  <2> QED BY <2>1, <2>2, <1>p DEF QueueTakes, Leaves, Lands
<1>CommitReport. CASE CommitReport(s)
  <2>1. tasks[s] # Idle /\ (Lands(s, "flush"))
    BY <1>CommitReport, <1>k DEF CommitReport, At
  <2>2. AtHead(s) /\ docLock'.queue = Tail(docLock.queue)
    BY <1>CommitReport, <1>q DEF CommitReport, PassDocs
  <2> QED BY <2>1, <2>2, <1>p DEF QueueTakes, Leaves, Lands
<1>CommitParseError. CASE CommitParseError(s)
  <2>1. tasks[s] # Idle /\ (Lands(s, "flush"))
    BY <1>CommitParseError, <1>k DEF CommitParseError, At
  <2>2. AtHead(s) /\ docLock'.queue = Tail(docLock.queue)
    BY <1>CommitParseError, <1>q DEF CommitParseError, PassDocs
  <2> QED BY <2>1, <2>2, <1>p DEF QueueTakes, Leaves, Lands
<1>CommitNothing. CASE CommitNothing(s)
  <2>1. tasks[s] # Idle /\ (tasks'[s] = Idle)
    BY <1>CommitNothing, <1>k DEF CommitNothing, At
  <2>2. AtHead(s) /\ docLock'.queue = Tail(docLock.queue)
    BY <1>CommitNothing, <1>q DEF CommitNothing, PassDocs
  <2> QED BY <2>1, <2>2, <1>p DEF QueueTakes, Leaves, Lands
<1>CaptureNothing. CASE CaptureNothing(s)
  <2>1. tasks[s] # Idle /\ (tasks'[s] = Idle)
    BY <1>CaptureNothing, <1>k DEF CaptureNothing, At
  <2>2. AtHead(s) /\ docLock'.queue = Tail(docLock.queue)
    BY <1>CaptureNothing, <1>q DEF CaptureNothing, PassDocs
  <2> QED BY <2>1, <2>2, <1>p DEF QueueTakes, Leaves, Lands
<1>IndexCheck. CASE IndexCheck(s)
  <2>1. tasks[s] # Idle /\ (Lands(s, "index") \/ tasks'[s] = Idle)
    BY <1>IndexCheck, <1>k DEF IndexCheck, At
  <2>2. AtHead(s) /\ docLock'.queue = Tail(docLock.queue)
    BY <1>IndexCheck, <1>q DEF IndexCheck, PassDocs
  <2> QED BY <2>1, <2>2, <1>p DEF QueueTakes, Leaves, Lands
<1>VerifyStale. CASE VerifyStale(s)
  <2>1. tasks[s] # Idle /\ (Lands(s, "replied"))
    BY <1>VerifyStale, <1>k DEF VerifyStale, At
  <2>2. AtHead(s) /\ docLock'.queue = Tail(docLock.queue)
    BY <1>VerifyStale, <1>q DEF VerifyStale, PassDocs
  <2> QED BY <2>1, <2>2, <1>p DEF QueueTakes, Leaves, Lands
<1>VerifyAnswer. CASE VerifyAnswer(s)
  <2>1. tasks[s] # Idle /\ (Lands(s, "replied"))
    BY <1>VerifyAnswer, <1>k DEF VerifyAnswer, At
  <2>2. AtHead(s) /\ docLock'.queue = Tail(docLock.queue)
    BY <1>VerifyAnswer, <1>q DEF VerifyAnswer, PassDocs
  <2> QED BY <2>1, <2>2, <1>p DEF QueueTakes, Leaves, Lands
<1>VerifyRename. CASE VerifyRename(s)
  <2>1. tasks[s] # Idle /\ (Lands(s, "renameWs"))
    BY <1>VerifyRename, <1>k DEF VerifyRename, At
  <2>2. AtHead(s) /\ docLock'.queue = Tail(docLock.queue)
    BY <1>VerifyRename, <1>q DEF VerifyRename, PassDocs
  <2> QED BY <2>1, <2>2, <1>p DEF QueueTakes, Leaves, Lands
<1>Fallback. CASE Fallback(s)
  <2>1. tasks[s] # Idle /\ (Lands(s, "fallbackWs") \/ Lands(s, "replied"))
    BY <1>Fallback, <1>k DEF Fallback, At
  <2>2. AtHead(s) /\ docLock'.queue = Tail(docLock.queue)
    BY <1>Fallback, <1>q DEF Fallback, PassDocs
  <2> QED BY <2>1, <2>2, <1>p DEF QueueTakes, Leaves, Lands
<1>Symbol. CASE Symbol(s)
  <2>1. tasks[s] # Idle /\ (Lands(s, "symbolWs"))
    BY <1>Symbol, <1>k DEF Symbol, At
  <2>2. AtHead(s) /\ docLock'.queue = Tail(docLock.queue)
    BY <1>Symbol, <1>q DEF Symbol, PassDocs
  <2> QED BY <2>1, <2>2, <1>p DEF QueueTakes, Leaves, Lands
<1>InstallNew. CASE InstallNew(s)
  <2>1. tasks[s] # Idle /\ Lands(s, "prepare") /\ tasks'[s] # Idle
    BY <1>InstallNew, <1>k, <1>w, <1>p DEF InstallNew, At
  <2>2. AtHead(s) /\ docLock'.queue = Append(Tail(docLock.queue), [slot |-> s, mode |-> "read"])
    BY <1>InstallNew, <1>q DEF InstallNew, PassDocsAndAwait
  <2> QED BY <2>1, <2>2, <1>p, <1>m DEF QueueTurns, Waits, Lands
<1>VerifyFallback. CASE VerifyFallback(s)
  <2>1. tasks[s] # Idle /\ Lands(s, "fallback") /\ tasks'[s] # Idle
    BY <1>VerifyFallback, <1>k, <1>w, <1>p DEF VerifyFallback, At
  <2>2. AtHead(s) /\ docLock'.queue = Append(Tail(docLock.queue), [slot |-> s, mode |-> "read"])
    BY <1>VerifyFallback, <1>q DEF VerifyFallback, PassDocsAndAwait
  <2> QED BY <2>1, <2>2, <1>p, <1>m DEF QueueTurns, Waits, Lands
<1>InstallNewer. CASE InstallNewer(s)
  <2>1. tasks'[s] = [CancelAnalyses(tasks[s].uri, tasks)[s] EXCEPT !.pc = "prepare"]
        /\ tasks[s] # Idle /\ tasks[s].pc = "install"
    BY <1>InstallNewer DEF InstallNewer, At, CancelAnalyses
  <2>2. CancelAnalyses(tasks[s].uri, tasks)[s] = tasks[s] /\ tasks[s] \in Task
    BY <1>0, <2>1 DEF CancelAnalyses, TasksType
  <2>3. tasks'[s] \in Task /\ tasks'[s].pc = "prepare"
    BY <2>1, <2>2, PcNames DEF Task
  <2>4. AtHead(s) /\ docLock'.queue = Append(Tail(docLock.queue), [slot |-> s, mode |-> "read"])
    BY <1>InstallNewer, <1>q DEF InstallNewer, PassDocsAndAwait
  <2> QED BY <2>3, <2>4, <1>p, <1>m, LspAssumption DEF QueueTurns, Waits
<1>ApplyChange. CASE ApplyChange(s)
  <2>1. PICK x \in ApplyChanges(docs[tasks[s].uri].source, tasks[s].base, tasks[s].text) \ {NoText} :
          tasks'[s] = [CancelAnalyses(tasks[s].uri, tasks)[s] EXCEPT !.pc = "prepare", !.text = x]
    BY <1>ApplyChange DEF ApplyChange, At, CancelAnalyses
  <2>2. tasks[s] # Idle /\ tasks[s].pc = "apply"
    BY <1>ApplyChange DEF ApplyChange, At
  <2>3. CancelAnalyses(tasks[s].uri, tasks)[s] = tasks[s] /\ tasks[s] \in Task
    BY <1>0, <2>2 DEF CancelAnalyses, TasksType
  <2>4. x \in Texts \union {NoText}
    BY <2>1, <2>3 DEF ApplyChanges, Task
  <2>5. tasks'[s] \in Task /\ tasks'[s].pc = "prepare"
    BY <2>1, <2>3, <2>4, PcNames DEF Task
  <2>6. AtHead(s) /\ docLock'.queue = Append(Tail(docLock.queue), [slot |-> s, mode |-> "read"])
    BY <1>ApplyChange, <1>q DEF ApplyChange, PassDocsAndAwait
  <2> QED BY <2>5, <2>6, <1>p, <1>m, LspAssumption DEF QueueTurns, Waits
<1>CloseDocument. CASE CloseDocument(s)
  BY <1>CloseDocument, <1>q DEF CloseDocument, CancelAnalyses, PassDocs, QueueTakes, Leaves
<1>Capture. CASE Capture(s)
  <2> DEFINE d == docs[tasks[s].uri]
             pc == IF d.report # NoText THEN "saveFlush" ELSE "savePool"
  <2>1. tasks[s] # Idle /\ tasks'[s] = [tasks[s] EXCEPT !.pc = pc, !.text = d.source, !.version = d.version]
    BY <1>0, <1>Capture DEF Capture, At, TasksType
  <2>2. tasks'[s].pc = pc
    BY <1>0, <2>1 DEF TasksType, Task
  <2>3. AtHead(s) /\ docLock'.queue = Tail(docLock.queue)
    BY <1>Capture, <1>q DEF Capture, PassDocs
  <2> QED BY <2>2, <2>3, <1>p DEF QueueTakes, Leaves
<1>Snapshot. CASE Snapshot(s)
  <2>0. tasks[s] # Idle /\ AtHead(s) /\ docLock'.queue = Tail(docLock.queue)
    BY <1>Snapshot, <1>q DEF Snapshot, PassDocs, At
  <2>1. \/ tasks' = Reply(s, "null")
        \/ tasks'[s] = [tasks[s] EXCEPT !.pc = "load", !.text = docs[tasks[s].uri].source, !.overlays = Overlays]
    BY <1>0, <1>Snapshot DEF Snapshot, TasksType
  <2>2. ASSUME tasks' # Reply(s, "null") PROVE tasks'[s].pc = "load"
    <3>1. tasks[s] \in Task
      BY <1>0, <2>0 DEF TasksType
    <3>2. tasks'[s] = [tasks[s] EXCEPT !.pc = "load", !.text = docs[tasks[s].uri].source, !.overlays = Overlays]
      BY <2>1, <2>2
    <3> QED BY <3>1, <3>2, RecordMoves
  <2>3. tasks'[s].pc \in {"replied", "load"}
    BY <2>0, <2>2, <1>k DEF Lands
  <2> QED BY <2>0, <2>3, <1>p DEF QueueTakes, Leaves
<1>Analyze. CASE Analyze(s)
  <2>1. PICK r : tasks' = [tasks EXCEPT ![s].pc = "commit", ![s].result = r] /\ r \in {Outcome(tasks[s].text), "cancelled"}
    BY <1>Analyze DEF Analyze
  <2>2. r \in Result
    BY <2>1 DEF Outcome, Result
  <2>3. tasks[s] # Idle /\ tasks[s].pc = "analyze" /\ tasks[s] \in Task
    BY <1>0, <1>Analyze DEF Analyze, At, TasksType
  <2>4. tasks'[s] = [tasks[s] EXCEPT !.pc = "commit", !.result = r]
    BY <1>0, <2>1, <2>3 DEF TasksType
  <2>5. tasks'[s] \in Task /\ tasks'[s].pc = "commit"
    BY <2>2, <2>3, <2>4, PcNames DEF Task
  <2>6. docLock'.queue = Append(docLock.queue, [slot |-> s, mode |-> "write"])
    BY <1>Analyze, <1>q DEF Analyze
  <2> QED BY <2>3, <2>5, <2>6, <1>p, <1>m, LspAssumption DEF QueueJoins, Waits
<1>SaveAnalyzed. CASE SaveAnalyzed(s)
  <2>1. tasks[s] # Idle /\ tasks[s].pc = "savePool" /\ tasks[s] \in Task
    BY <1>0, <1>SaveAnalyzed DEF SaveAnalyzed, At, TasksType
  <2>2. CASE Outcome(tasks[s].text) = "failed"
    <3>1. tasks'[s] = Idle /\ docLock'.queue = docLock.queue
      BY <2>1, <2>2, <1>k, <1>SaveAnalyzed DEF SaveAnalyzed
    <3> QED BY <2>1, <3>1, <1>p DEF QueueKept, Leaves
  <2>3. CASE Outcome(tasks[s].text) # "failed"
    <3>1. tasks'[s] = [tasks[s] EXCEPT !.pc = "indexCheck", !.result = Outcome(tasks[s].text)]
      BY <1>0, <2>3, <1>SaveAnalyzed DEF SaveAnalyzed, TasksType
    <3>2. Outcome(tasks[s].text) \in Result
      BY DEF Outcome, Result
    <3>3. tasks'[s] \in Task /\ tasks'[s].pc = "indexCheck"
      BY <2>1, <3>1, <3>2, PcNames DEF Task
    <3>4. docLock'.queue = Append(docLock.queue, [slot |-> s, mode |-> "read"])
      BY <2>3, <1>SaveAnalyzed, <1>q DEF SaveAnalyzed
    <3> QED BY <2>1, <3>3, <3>4, <1>p, <1>m, LspAssumption DEF QueueJoins, Waits
  <2> QED BY <2>2, <2>3
<1>Load. CASE Load(s)
  <2> DEFINE e == Effective(tasks[s].uri, tasks[s].overlays)
             ok == \A v \in Loads[tasks[s].uri] : Outcome(e[v]) = "report"
  <2>1. tasks[s] # Idle /\ tasks[s].pc = "load" /\ tasks[s] \in Task
    BY <1>0, <1>Load DEF Load, At, TasksType
  <2>2. e \in [Uris -> Texts \union {NoText}]
    BY <2>1 DEF Effective, ServerType, Task
  <2>3. /\ tasks' = IF ok THEN [tasks EXCEPT ![s].pc = "verify", ![s].loaded = e]
                    ELSE IF tasks[s].kind = "definition" THEN Goto(s, "fallback") ELSE Reply(s, "null")
        /\ docLock' = IF ok \/ tasks[s].kind = "definition" THEN Await(docLock, s, "read") ELSE docLock
    BY <1>Load DEF Load
  <2> HIDE DEF e, ok
  <2>4. CASE ok
    <3>1. tasks'[s] = [tasks[s] EXCEPT !.pc = "verify", !.loaded = e]
      BY <1>0, <2>3, <2>4 DEF TasksType
    <3>2. tasks'[s] \in Task /\ tasks'[s].pc = "verify"
      BY <2>1, <2>2, <3>1, PcNames DEF Task
    <3> QED BY <2>1, <2>3, <2>4, <3>2, <1>p, <1>m, <1>q, LspAssumption DEF QueueJoins, Waits
  <2>5. CASE ~ ok /\ tasks[s].kind = "definition"
    <3>1. tasks'[s] # Idle /\ tasks'[s].pc = "fallback"
      BY <2>1, <2>3, <2>5, <1>k, <1>w, <1>p DEF Lands
    <3> QED BY <2>1, <2>3, <2>5, <3>1, <1>p, <1>m, <1>q DEF QueueJoins, Waits
  <2>6. CASE ~ ok /\ tasks[s].kind # "definition"
    <3>1. tasks'[s].pc = "replied" /\ docLock' = docLock
      BY <2>1, <2>3, <2>6, <1>k DEF Lands
    <3> QED BY <2>1, <3>1, <1>p DEF QueueKept, Leaves
  <2> QED BY <2>4, <2>5, <2>6
<1> QED
  BY <1>InstallNew, <1>InstallNewer, <1>InstallStale, <1>ApplyChange, <1>RejectChange,
     <1>Prepare, <1>Analyze, <1>CommitReport, <1>CommitParseError, <1>CommitNothing,
     <1>Flushed, <1>CloseDocument, <1>Capture, <1>CaptureNothing, <1>SaveFlushed,
     <1>SaveAnalyzed, <1>IndexCheck, <1>UpdateIndex, <1>Snapshot, <1>Load,
     <1>VerifyStale, <1>VerifyAnswer, <1>VerifyFallback, <1>VerifyRename,
     <1>RenameAnswer, <1>Fallback, <1>Symbol, <1>AnswerFromIndex, <1>Replied
  DEF Run
-----------------------------------------------------------------------------
(* What a step does to the queue of the workspace lock *)

\* The handler awaits the workspace lock after the step.
WaitsWs(s) == tasks'[s] # Idle /\ tasks'[s].pc \in PcWs

\* A step leaves the queue, joins it at its end, or takes its head.
WsKept(s)  == wsLock'.queue = wsLock.queue /\ tasks[s].pc \notin PcWs /\ ~ WaitsWs(s)
WsJoins(s) ==
    /\ \E m \in Mode : wsLock'.queue = Append(wsLock.queue, [slot |-> s, mode |-> m])
    /\ tasks[s].pc \notin PcWs /\ WaitsWs(s)
WsTakes(s) ==
    /\ wsLock.queue # << >> /\ Head(wsLock.queue).slot = s
    /\ wsLock'.queue = Tail(wsLock.queue) /\ ~ WaitsWs(s)

\* The steps that may queue for the workspace lock, and those taken with it.
MayAskWs(s) == IndexCheck(s) \/ VerifyRename(s) \/ Fallback(s) \/ Symbol(s)
HasWs(s)    == UpdateIndex(s) \/ RenameAnswer(s) \/ AnswerFromIndex(s)

LEMMA WsMoves ==
    ASSUME ServerType, NEW s \in Slots, Run(s)
    PROVE  WsKept(s) \/ WsJoins(s) \/ WsTakes(s)
<1>0. wsLock \in Lock /\ tasks \in TasksType
  BY DEF ServerType
<1>q. /\ \A m : Granted(wsLock, s, m) => wsLock.queue # << >> /\ Head(wsLock.queue).slot = s
      /\ Pass(wsLock).queue = Tail(wsLock.queue)
      /\ \A n : Await(wsLock, s, n).queue = Append(wsLock.queue, [slot |-> s, mode |-> n])
  BY <1>0, QueueOps
<1>p. /\ PcWs = {"index", "symbolWs", "fallbackWs", "renameWs"}
      /\ "read" \in Mode /\ "write" \in Mode
  BY DEF PcWs, Mode
<1>k. tasks[s] # Idle =>
        /\ \A pc : tasks' = Goto(s, pc) => Lands(s, pc)
        /\ \A x : tasks' = Reply(s, x) => Lands(s, "replied")
        /\ tasks' = Return(s) => tasks'[s] = Idle
  BY <1>0, LandsBy
<1>w. \A pc \in PcWs : tasks[s] # Idle /\ tasks' = Goto(s, pc) => WaitsWs(s)
  <2>1. \A pc \in PcWs : pc \in PcTask
    BY DEF PcTask
  <2>2. ASSUME NEW pc \in PcWs, tasks[s] # Idle, tasks' = Goto(s, pc) PROVE WaitsWs(s)
    <3>1. Goto(s, pc)[s] # Idle /\ Goto(s, pc)[s].pc = pc
      BY <1>0, <2>1, <2>2, GotoFacts
    <3> QED BY <2>2, <3>1 DEF WaitsWs
  <2> QED BY <2>2
<1>n. ~ MayAskWs(s) => ~ WaitsWs(s)
  BY <1>0, <1>p, RunMoves DEF ComesFrom, WaitsWs, MayAskWs
<1>IndexCheck. CASE IndexCheck(s)
  <2>1. tasks[s] # Idle /\ tasks[s].pc = "indexCheck"
    BY <1>IndexCheck DEF IndexCheck, At
  <2>2. \/ tasks' = Goto(s, "index") /\ wsLock' = Await(wsLock, s, "write")
        \/ tasks' = Return(s) /\ wsLock' = wsLock
    BY <1>IndexCheck DEF IndexCheck
  <2> QED BY <2>1, <2>2, <1>p, <1>q, <1>k, <1>w DEF WsKept, WsJoins, WaitsWs
<1>VerifyRename. CASE VerifyRename(s)
  <2>1. tasks[s] # Idle /\ tasks[s].pc = "verify"
    BY <1>VerifyRename DEF VerifyRename, At
  <2>2. tasks' = Goto(s, "renameWs") /\ wsLock' = Await(wsLock, s, "read")
    BY <1>VerifyRename DEF VerifyRename
  <2> QED BY <2>1, <2>2, <1>p, <1>q, <1>w DEF WsJoins
<1>Fallback. CASE Fallback(s)
  <2>1. tasks[s] # Idle /\ tasks[s].pc = "fallback"
    BY <1>Fallback DEF Fallback, At
  <2>2. \/ tasks' = Goto(s, "fallbackWs") /\ wsLock' = Await(wsLock, s, "read")
        \/ tasks' = Reply(s, "null") /\ wsLock' = wsLock
    BY <1>Fallback DEF Fallback
  <2> QED BY <2>1, <2>2, <1>p, <1>q, <1>k, <1>w DEF WsKept, WsJoins, WaitsWs, Lands
<1>Symbol. CASE Symbol(s)
  <2>1. tasks[s] # Idle /\ tasks[s].pc = "symbol"
    BY <1>Symbol DEF Symbol, At
  <2>2. tasks' = Goto(s, "symbolWs") /\ wsLock' = Await(wsLock, s, "read")
    BY <1>Symbol DEF Symbol
  <2> QED BY <2>1, <2>2, <1>p, <1>q, <1>w DEF WsJoins
<1>HasWs. CASE HasWs(s)
  <2>1. (\E m : Granted(wsLock, s, m)) /\ wsLock' = Pass(wsLock)
    BY <1>HasWs DEF HasWs, UpdateIndex, RenameAnswer, AnswerFromIndex
  <2>2. tasks[s] # Idle /\ (tasks' = Return(s) \/ tasks' = Reply(s, "edits"))
    BY <1>HasWs DEF HasWs, UpdateIndex, RenameAnswer, AnswerFromIndex, At
  <2>3. ~ WaitsWs(s)
    BY <2>2, <1>k, <1>p DEF WaitsWs, Lands
  <2> QED BY <2>1, <2>3, <1>q DEF WsTakes
<1>other. CASE ~ MayAskWs(s) /\ ~ HasWs(s)
  <2>1. wsLock' = wsLock /\ tasks[s] # Idle /\ tasks[s].pc \notin PcWs
    <3>InstallNew. CASE InstallNew(s)
      BY <3>InstallNew, <1>p DEF InstallNew, At
    <3>InstallNewer. CASE InstallNewer(s)
      BY <3>InstallNewer, <1>p DEF InstallNewer, At
    <3>InstallStale. CASE InstallStale(s)
      BY <3>InstallStale, <1>p DEF InstallStale, At
    <3>ApplyChange. CASE ApplyChange(s)
      BY <3>ApplyChange, <1>p DEF ApplyChange, At
    <3>RejectChange. CASE RejectChange(s)
      BY <3>RejectChange, <1>p DEF RejectChange, At
    <3>Prepare. CASE Prepare(s)
      BY <3>Prepare, <1>p DEF Prepare, At
    <3>Analyze. CASE Analyze(s)
      BY <3>Analyze, <1>p DEF Analyze, At
    <3>CommitReport. CASE CommitReport(s)
      BY <3>CommitReport, <1>p DEF CommitReport, At
    <3>CommitParseError. CASE CommitParseError(s)
      BY <3>CommitParseError, <1>p DEF CommitParseError, At
    <3>CommitNothing. CASE CommitNothing(s)
      BY <3>CommitNothing, <1>p DEF CommitNothing, At
    <3>Flushed. CASE Flushed(s)
      BY <3>Flushed, <1>p DEF Flushed, At
    <3>CloseDocument. CASE CloseDocument(s)
      BY <3>CloseDocument, <1>p DEF CloseDocument, At
    <3>Capture. CASE Capture(s)
      BY <3>Capture, <1>p DEF Capture, At
    <3>CaptureNothing. CASE CaptureNothing(s)
      BY <3>CaptureNothing, <1>p DEF CaptureNothing, At
    <3>SaveFlushed. CASE SaveFlushed(s)
      BY <3>SaveFlushed, <1>p DEF SaveFlushed, At
    <3>SaveAnalyzed. CASE SaveAnalyzed(s)
      BY <3>SaveAnalyzed, <1>p DEF SaveAnalyzed, At
    <3>Snapshot. CASE Snapshot(s)
      BY <3>Snapshot, <1>p DEF Snapshot, At
    <3>Load. CASE Load(s)
      BY <3>Load, <1>p DEF Load, At
    <3>VerifyStale. CASE VerifyStale(s)
      BY <3>VerifyStale, <1>p DEF VerifyStale, At
    <3>VerifyAnswer. CASE VerifyAnswer(s)
      BY <3>VerifyAnswer, <1>p DEF VerifyAnswer, At
    <3>VerifyFallback. CASE VerifyFallback(s)
      BY <3>VerifyFallback, <1>p DEF VerifyFallback, At
    <3>Replied. CASE Replied(s)
      BY <3>Replied, <1>p DEF Replied, At
    <3> QED
      BY <1>other, <3>InstallNew, <3>InstallNewer, <3>InstallStale, <3>ApplyChange, <3>RejectChange,
         <3>Prepare, <3>Analyze, <3>CommitReport, <3>CommitParseError, <3>CommitNothing,
         <3>Flushed, <3>CloseDocument, <3>Capture, <3>CaptureNothing, <3>SaveFlushed,
         <3>SaveAnalyzed, <3>Snapshot, <3>Load, <3>VerifyStale, <3>VerifyAnswer,
         <3>VerifyFallback, <3>Replied
      DEF Run, MayAskWs, HasWs
  <2> QED BY <2>1, <1>n, <1>other DEF WsKept
<1> QED BY <1>IndexCheck, <1>VerifyRename, <1>Fallback, <1>Symbol, <1>HasWs, <1>other DEF MayAskWs
=============================================================================
