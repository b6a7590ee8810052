------------------------- MODULE LspSession_proofs -------------------------
(***************************************************************************)
(* Theorems about a session of the language server, for any documents,     *)
(* texts, slots, windows and budgets.                                      *)
(***************************************************************************)
EXTENDS LspSession, LspServer_proofs

LOCAL INSTANCE SequencesExt

-----------------------------------------------------------------------------
(* The invariant *)

\* Openings and edits travel with their text.
InboxTexts ==
    \A i \in 1..Len(inbox) :
        inbox[i].kind \in {"open", "change"} => inbox[i].text \in Texts

\* An open buffer has a text.
EditorTexts == \A u \in Uris : editor[u].open => editor[u].text \in Texts

TypeInv == TypeOK /\ TextsPresent /\ InboxTexts /\ EditorTexts

\* A message built from well typed parts is a message.
LEMMA MsgType ==
    ASSUME NEW k \in MessageKind \union RequestKind, NEW u \in Uris,
           NEW x \in Texts \union {NoText}, NEW b \in Texts \union {NoText},
           NEW v \in Version
    PROVE  /\ Msg(k, u, x, b, v) \in Message
           /\ Msg(k, u, x, b, v).kind = k
           /\ Msg(k, u, x, b, v).text = x
  BY DEF Msg, Message

\* What the editor sends keeps the inbox well formed.
LEMMA SendKeeps ==
    ASSUME inbox \in Seq(Message), InboxTexts, NEW m \in Message,
           m.kind \in {"open", "change"} => m.text \in Texts, Send(m)
    PROVE  inbox' \in Seq(Message) /\ InboxTexts'
<1>1. inbox' \in Seq(Message) /\ Len(inbox') = Len(inbox) + 1
  BY AppendProperties DEF Send
<1>2. \A i \in 1..Len(inbox) : inbox'[i] = inbox[i]
  BY AppendProperties DEF Send
<1>3. inbox'[Len(inbox) + 1] = m
  BY AppendProperties DEF Send
<1>4. Len(inbox) \in Nat
  BY LenProperties
<1>5. \A i \in 1..Len(inbox') : inbox'[i].kind \in {"open", "change"} => inbox'[i].text \in Texts
  BY <1>1, <1>2, <1>3, <1>4 DEF InboxTexts
<1> QED BY <1>1, <1>5 DEF InboxTexts

\* What the transport takes out leaves the inbox well formed.
LEMMA RemoveKeeps ==
    ASSUME inbox \in Seq(Message), InboxTexts, NEW i \in 1..Len(inbox),
           inbox' = RemoveAt(inbox, i)
    PROVE  inbox' \in Seq(Message) /\ InboxTexts'
<1>1. inbox' \in Seq(Message)
  BY RemoveAtType
<1>2. /\ Len(inbox') = Len(inbox) - 1
      /\ \A j \in 1..Len(inbox') : inbox'[j] = IF j < i THEN inbox[j] ELSE inbox[j + 1]
  BY RemoveAtElements
<1>3. Len(inbox) \in Nat
  BY LenProperties
<1>4. \A j \in 1..Len(inbox') : inbox'[j].kind \in {"open", "change"} => inbox'[j].text \in Texts
  BY <1>2, <1>3 DEF InboxTexts
<1> QED BY <1>1, <1>4 DEF InboxTexts

\* The state a session starts in is well typed.
LEMMA InitTypes == Init => TypeInv
<1> SUFFICES ASSUME Init PROVE TypeInv
  OBVIOUS
<1> USE DEF Init
<1>1. docs \in [Uris -> Document \union {NoDoc}] /\ disk \in [Uris -> Texts]
  OBVIOUS
<1>2. index \in [Uris -> Texts \union {NoText}]
  BY <1>1 DEF Rescan
<1>3. << >> \in Seq(Waiter) /\ inbox \in Seq(Message) /\ Len(inbox) = 0
  OBVIOUS
<1>4. docLock \in Lock /\ wsLock \in Lock
  BY <1>3 DEF Lock, Unlocked
<1>5. tasks \in [Slots -> Task \union {Idle}] /\ shown \in [Uris -> Texts \union {NoText}]
  BY DEF Cleared
<1>6. editor \in [Uris -> Buffer]
  BY LspAssumption DEF Buffer, Version
<1>7. left \in [DOMAIN Budget -> Nat] /\ written \in [Uris -> SUBSET Texts]
  BY <1>1, SessionAssumption
<1>8. TextsPresent
  BY DEF TextsPresent, At
<1>9. InboxTexts
  BY <1>3 DEF InboxTexts
<1>10. EditorTexts
  BY DEF EditorTexts
<1> HIDE DEF Init
<1> QED BY <1>1, <1>2, <1>3, <1>4, <1>5, <1>6, <1>7, <1>8, <1>9, <1>10 DEF TypeInv, TypeOK

\* The types of the session are those of the server and those of the editor.
LEMMA TypeSplit ==
    /\ TypeOK <=> ServerType /\ /\ editor \in [Uris -> Buffer]
                                /\ inbox \in Seq(Message)
                                /\ left \in [DOMAIN Budget -> Nat]
                                /\ written \in [Uris -> SUBSET Texts]
    /\ TypeOK' <=> ServerType' /\ /\ editor' \in [Uris -> Buffer]
                                  /\ inbox' \in Seq(Message)
                                  /\ left' \in [DOMAIN Budget -> Nat]
                                  /\ written' \in [Uris -> SUBSET Texts]
  BY DEF TypeOK, ServerType, TasksType

\* Spending keeps a budget a budget.
LEMMA SpendType ==
    ASSUME left \in [DOMAIN Budget -> Nat],
           NEW k \in {"open", "change", "save", "request"}, Spend(k)
    PROVE  left' \in [DOMAIN Budget -> Nat]
<1>1. DOMAIN Budget = {"open", "change", "save", "request"}
  BY SessionAssumption
<1>2. left[k] \in Nat /\ left[k] > 0 /\ left' = [left EXCEPT ![k] = left[k] - 1]
  BY <1>1 DEF Spend
<1>3. left[k] - 1 \in Nat
  BY <1>2
<1> QED BY <1>2, <1>3

\* Every step of the session keeps the types.
LEMMA NextTypes == TypeInv /\ [Next]_vars => TypeInv'
<1> SUFFICES ASSUME TypeInv, [Next]_vars PROVE TypeInv'
  OBVIOUS
<1> USE DEF TypeInv
<1>1. /\ ServerType /\ editor \in [Uris -> Buffer] /\ inbox \in Seq(Message)
      /\ left \in [DOMAIN Budget -> Nat] /\ written \in [Uris -> SUBSET Texts]
  BY TypeSplit
<1>2. "open" \in MessageKind /\ "change" \in MessageKind /\ "save" \in MessageKind /\ "close" \in MessageKind
  BY DEF MessageKind
<1>3. 0 \in Version /\ \A b \in Buffer : b.version < MaxVersion => b.version + 1 \in Version
  BY LspAssumption DEF Version, Buffer
<1>s. ASSUME UNCHANGED serverVars PROVE ServerType' /\ TextsPresent'
  BY <1>1, <1>s DEF serverVars, ServerType, TextsPresent, At
<1>ClientOpen. ASSUME NEW u \in Uris, ClientOpen(u) PROVE TypeInv'
  <2>1. PICK v \in {1, editor[u].version + 1} \intersect Version :
          /\ editor' = [editor EXCEPT ![u] = [open |-> TRUE, text |-> disk[u], version |-> v]]
          /\ Send(Msg("open", u, disk[u], NoText, v))
    BY <1>ClientOpen DEF ClientOpen
  <2>2. disk[u] \in Texts
    BY <1>1 DEF ServerType
  <2>3. inbox' \in Seq(Message) /\ InboxTexts'
    <3>0. v \in Version /\ "open" \in MessageKind \union RequestKind
          /\ disk[u] \in Texts \union {NoText} /\ NoText \in Texts \union {NoText}
      BY <1>2, <2>1, <2>2
    <3>1. Msg("open", u, disk[u], NoText, v) \in Message /\ Msg("open", u, disk[u], NoText, v).text \in Texts
      BY <3>0, <2>2 DEF Msg, Message
    <3> QED BY <1>1, <2>1, <3>1, SendKeeps
  <2>4. editor' \in [Uris -> Buffer] /\ EditorTexts'
    BY <1>1, <2>1, <2>2 DEF Buffer, EditorTexts
  <2>5. left' \in [DOMAIN Budget -> Nat] /\ written' = written /\ UNCHANGED serverVars
    BY <1>1, <1>ClientOpen, SpendType DEF ClientOpen
  <2> QED BY <1>1, <1>s, <2>3, <2>4, <2>5, TypeSplit
<1>ClientChange. ASSUME NEW u \in Uris, NEW x \in Texts, ClientChange(u, x) PROVE TypeInv'
  <2>1. PICK b \in {editor[u].text} \union (IF Window = 1 THEN {} ELSE {NoText}) :
          Send(Msg("change", u, x, b, editor[u].version + 1))
    BY <1>ClientChange DEF ClientChange
  <2>2. editor[u] \in Buffer /\ editor[u].version + 1 \in Version /\ b \in Texts \union {NoText}
    BY <1>1, <1>3, <2>1, <1>ClientChange DEF ClientChange, Buffer
  <2>3. inbox' \in Seq(Message) /\ InboxTexts'
    <3> DEFINE m == Msg("change", u, x, b, editor[u].version + 1)
    <3>1. m \in Message /\ m.text \in Texts
      BY <1>2, <2>2, MsgType
    <3> HIDE DEF m
    <3> QED BY <1>1, <2>1, <3>1, SendKeeps DEF m
  <2>4. [editor[u] EXCEPT !.text = x, !.version = editor[u].version + 1] \in Buffer
    BY <2>2 DEF Buffer
  <2>5. [editor[u] EXCEPT !.text = x, !.version = editor[u].version + 1].text = x
    BY <2>2 DEF Buffer
  <2>6. editor' = [editor EXCEPT ![u] = [editor[u] EXCEPT !.text = x, !.version = editor[u].version + 1]]
    BY <1>1, <1>ClientChange DEF ClientChange
  <2>7. editor' \in [Uris -> Buffer] /\ EditorTexts'
    BY <1>1, <2>4, <2>5, <2>6 DEF EditorTexts
  <2>8. left' \in [DOMAIN Budget -> Nat] /\ written' = written /\ UNCHANGED serverVars
    BY <1>1, <1>ClientChange, SpendType DEF ClientChange
  <2> QED BY <1>1, <1>s, <2>3, <2>7, <2>8, TypeSplit
<1>ClientSave. ASSUME NEW u \in Uris, ClientSave(u) PROVE TypeInv'
  <2>1. editor[u].text \in Texts
    BY <1>ClientSave DEF ClientSave, EditorTexts
  <2>2. inbox' \in Seq(Message) /\ InboxTexts'
    <3> DEFINE m == Msg("save", u, NoText, NoText, 0)
    <3>1. m \in Message /\ m.kind = "save" /\ Send(m)
      BY <1>2, <1>3, <1>ClientSave, MsgType DEF ClientSave
    <3> HIDE DEF m
    <3> QED BY <1>1, <3>1, SendKeeps
  <2>3. disk' \in [Uris -> Texts] /\ written' \in [Uris -> SUBSET Texts]
    BY <1>1, <2>1, <1>ClientSave DEF ClientSave, ServerType
  <2>4. left' \in [DOMAIN Budget -> Nat] /\ editor' = editor
        /\ UNCHANGED <<docs, index, docLock, wsLock, tasks, shown>>
    BY <1>1, <1>ClientSave, SpendType DEF ClientSave
  <2>5. ServerType' /\ TextsPresent' /\ EditorTexts'
    BY <1>1, <2>3, <2>4 DEF ServerType, TextsPresent, EditorTexts, At
  <2> QED BY <1>1, <2>2, <2>3, <2>4, <2>5, TypeSplit
<1>ClientClose. ASSUME NEW u \in Uris, ClientClose(u) PROVE TypeInv'
  <2>2. inbox' \in Seq(Message) /\ InboxTexts'
    <3> DEFINE m == Msg("close", u, NoText, NoText, 0)
    <3>1. m \in Message /\ m.kind = "close" /\ Send(m)
      BY <1>2, <1>3, <1>ClientClose, MsgType DEF ClientClose
    <3> HIDE DEF m
    <3> QED BY <1>1, <3>1, SendKeeps
  <2>3. [editor[u] EXCEPT !.open = FALSE, !.text = NoText] \in Buffer
        /\ ~ [editor[u] EXCEPT !.open = FALSE, !.text = NoText].open
    BY <1>1 DEF Buffer
  <2>4. editor' = [editor EXCEPT ![u] = [editor[u] EXCEPT !.open = FALSE, !.text = NoText]]
    BY <1>1, <1>ClientClose DEF ClientClose
  <2>5. editor' \in [Uris -> Buffer] /\ EditorTexts'
    BY <1>1, <2>3, <2>4 DEF EditorTexts
  <2> QED BY <1>1, <1>s, <2>2, <2>5, <1>ClientClose, TypeSplit DEF ClientClose
<1>ClientRequest. ASSUME NEW u \in Uris, NEW k \in Requests, ClientRequest(u, k) PROVE TypeInv'
  <2>2. inbox' \in Seq(Message) /\ InboxTexts'
    <3> DEFINE m == Msg(k, u, NoText, NoText, 0)
    <3>1. k \in MessageKind \union RequestKind /\ k \notin {"open", "change"}
      BY SessionAssumption DEF RequestKind
    <3>2. m \in Message /\ m.kind = k
      BY <1>3, <3>1, MsgType
    <3>3. Send(m)
      BY <1>ClientRequest DEF ClientRequest
    <3> HIDE DEF m
    <3> QED BY <1>1, <3>1, <3>2, <3>3, SendKeeps
  <2>3. left' \in [DOMAIN Budget -> Nat] /\ UNCHANGED <<serverVars, editor, written>>
    BY <1>1, <1>ClientRequest, SpendType DEF ClientRequest
  <2>4. EditorTexts'
    BY <2>3 DEF EditorTexts
  <2> QED BY <1>1, <1>s, <2>2, <2>3, <2>4, TypeSplit
<1>Deliver. ASSUME NEW s \in Slots, Deliver(s) PROVE TypeInv'
  <2>1. PICK i \in 1..Len(inbox) :
          /\ Accept(s, inbox[i])
          /\ inbox' = RemoveAt(inbox, i)
          /\ UNCHANGED <<editor, left, written>>
    BY <1>Deliver DEF Deliver
  <2>2. inbox[i] \in Message /\ (inbox[i].kind \in {"open", "change"} => inbox[i].text \in Texts)
    BY <1>1, ElementOfSeq DEF InboxTexts
  <2>3. ServerType' /\ TextsPresent'
    BY <1>1, <2>1, <2>2, AcceptKeeps
  <2>4. inbox' \in Seq(Message) /\ InboxTexts'
    BY <1>1, <2>1, RemoveKeeps
  <2>5. EditorTexts'
    BY <2>1 DEF EditorTexts
  <2> QED BY <1>1, <2>1, <2>3, <2>4, <2>5, TypeSplit
<1>RunHandler. ASSUME NEW s \in Slots, RunHandler(s) PROVE TypeInv'
  <2>1. Run(s) /\ UNCHANGED clientVars
    BY <1>RunHandler DEF RunHandler
  <2>2. ServerType'
    BY <1>1, <2>1, RunKeepsTypes
  <2>3. OthersStay(s) /\ (tasks'[s] = Idle \/ tasks'[s].pc \notin {"install", "apply"})
    BY <1>1, <2>1, RunSteps
  <2>4. TextsPresent'
    BY <2>3 DEF TextsPresent, OthersStay, At
  <2>5. InboxTexts' /\ EditorTexts'
    BY <2>1 DEF InboxTexts, EditorTexts, clientVars
  <2> QED BY <1>1, <2>1, <2>2, <2>4, <2>5, TypeSplit DEF clientVars
<1>DropRequest. ASSUME NEW s \in Slots, DropRequest(s) PROVE TypeInv'
  <2>1. CancelRequest(s) /\ UNCHANGED clientVars
    BY <1>DropRequest DEF DropRequest
  <2>2. docLock' \in Lock /\ wsLock' \in Lock /\ tasks' = Return(s) /\ tasks[s] # Idle
        /\ UNCHANGED <<docs, index, shown, disk>>
    BY <1>1, <2>1, ForgetType DEF CancelRequest, ServerType
  <2>3. ServerType'
    BY <1>1, <2>2, TaskTypes DEF ServerType
  <2>4. TextsPresent'
    BY <1>1, <2>2 DEF TextsPresent, Return, At, ServerType, TasksType
  <2>5. InboxTexts' /\ EditorTexts'
    BY <2>1 DEF InboxTexts, EditorTexts, clientVars
  <2> QED BY <1>1, <2>1, <2>3, <2>4, <2>5, TypeSplit DEF clientVars
<1>stutter. CASE UNCHANGED vars
  BY <1>1, <1>s, <1>stutter, TypeSplit DEF vars, serverVars, InboxTexts, EditorTexts
<1> QED
  BY <1>ClientOpen, <1>ClientChange, <1>ClientSave, <1>ClientClose, <1>ClientRequest,
     <1>Deliver, <1>RunHandler, <1>DropRequest, <1>stutter DEF Next, Rest

\* Type correctness of the session: every variable has its type in every
\* reachable state, whatever the editor sends and however handlers interleave.
THEOREM TypeCorrect == Spec => []TypeOK
<1>1. TypeInv => TypeOK
  BY DEF TypeInv
<1> QED BY <1>1, InitTypes, NextTypes, PTL DEF Spec
-----------------------------------------------------------------------------
(* Reports *)

\* A report never outlives the text it was computed from: DocumentState's
\* report belongs to its source in every reachable state.
THEOREM ReportsBelong == Spec => []ReportIsOfSource
<1>1. Init => ReportIsOfSource
  BY DEF Init, ReportIsOfSource, IsOpen
<1>2. TypeInv /\ ReportIsOfSource /\ [Next]_vars => ReportIsOfSource'
  <2> SUFFICES ASSUME TypeInv, ReportIsOfSource, [Next]_vars PROVE ReportIsOfSource'
    OBVIOUS
  <2>1. CASE docs' = docs
    BY <2>1 DEF ReportIsOfSource, IsOpen
  <2>2. ASSUME NEW s \in Slots, RunHandler(s) PROVE ReportIsOfSource'
    <3>1. ServerType /\ Run(s)
      BY <2>2, TypeSplit DEF TypeInv, RunHandler
    <3> QED BY <3>1, RunKeepsReports DEF ReportIsOfSource
  <2>3. docs' = docs \/ \E s \in Slots : RunHandler(s)
    BY DEF Next, vars, ClientOpen, ClientSave, ClientClose, ClientChange, ClientRequest,
           serverVars, Deliver, Accept, DropRequest, CancelRequest, Rest
  <2> QED BY <2>1, <2>2, <2>3
<1> QED BY <1>1, <1>2, InitTypes, NextTypes, PTL DEF Spec
-----------------------------------------------------------------------------
(* Guards *)

\* What a step of the session does to handlers and guards: one slot moves, or none.
LEMMA SlotStep ==
    ASSUME TypeInv, [Next]_vars
    PROVE  \/ \E s \in Slots : RunHandler(s) /\ GuardStep(s) /\ OthersStay(s)
           \/ /\ docs' = docs
              /\ index' = index
              /\ \/ UNCHANGED <<tasks, docLock, wsLock>>
                 \/ \E s \in Slots : GuardStep(s) /\ OthersStay(s) /\ ~ At(s, "index")'
                 \/ \E s \in Slots :
                       /\ tasks'[s] = Idle /\ OthersStay(s)
                       /\ docLock'.readers = docLock.readers \ {s}
                       /\ docLock'.writers = docLock.writers \ {s}
                       /\ wsLock'.readers = wsLock.readers \ {s}
                       /\ wsLock'.writers = wsLock.writers \ {s}
<1> USE DEF TypeInv
<1>1. ServerType /\ inbox \in Seq(Message)
  BY TypeSplit
<1>2. CASE UNCHANGED serverVars \/ UNCHANGED <<docs, index, docLock, wsLock, tasks, shown>>
  BY <1>2 DEF serverVars
<1>3. ASSUME NEW s \in Slots, Deliver(s)
      PROVE  docs' = docs /\ index' = index /\ GuardStep(s) /\ OthersStay(s) /\ ~ At(s, "index")'
  <2>1. PICK i \in 1..Len(inbox) : Accept(s, inbox[i])
    BY <1>3 DEF Deliver
  <2>2. inbox[i] \in Message /\ (inbox[i].kind \in {"open", "change"} => inbox[i].text \in Texts)
    BY <1>1, ElementOfSeq DEF InboxTexts
  <2> QED BY <1>1, <2>1, <2>2, AcceptKeeps DEF Accept
<1>4. ASSUME NEW s \in Slots, RunHandler(s)
      PROVE  GuardStep(s) /\ OthersStay(s)
  BY <1>1, <1>4, RunSteps DEF RunHandler
<1>5. ASSUME NEW s \in Slots, DropRequest(s)
      PROVE  /\ docs' = docs /\ index' = index /\ tasks'[s] = Idle /\ OthersStay(s)
             /\ docLock'.readers = docLock.readers \ {s}
             /\ docLock'.writers = docLock.writers \ {s}
             /\ wsLock'.readers = wsLock.readers \ {s}
             /\ wsLock'.writers = wsLock.writers \ {s}
  <2>1. CancelRequest(s) /\ docLock \in Lock /\ wsLock \in Lock /\ tasks \in TasksType
    BY <1>1, <1>5 DEF DropRequest, ServerType
  <2>2. /\ docLock' = Forget(docLock, s) /\ wsLock' = Forget(wsLock, s)
        /\ tasks' = Return(s) /\ tasks[s] # Idle /\ docs' = docs /\ index' = index
    BY <2>1 DEF CancelRequest
  <2>3. tasks'[s] = Idle /\ OthersStay(s)
    BY <2>1, <2>2, GotoFacts DEF OthersStay
  <2> QED BY <2>1, <2>2, <2>3, ForgetType
<1>6. \/ UNCHANGED serverVars \/ UNCHANGED <<docs, index, docLock, wsLock, tasks, shown>>
      \/ \E s \in Slots : Deliver(s) \/ RunHandler(s) \/ DropRequest(s)
  BY DEF Next, vars, serverVars, Rest, ClientOpen, ClientSave, ClientClose, ClientChange, ClientRequest
<1> QED BY <1>2, <1>3, <1>4, <1>5, <1>6

\* The guards of the documents lock, told by where the handlers are.
LEMMA GuardsEquiv ==
    /\ GuardsMatchHandlers <=>
         /\ docLock.writers = {s \in Slots : Writes(s)}
         /\ docLock.readers = {s \in Slots : Reads(s)}
         /\ wsLock.writers = {} /\ wsLock.readers = {}
         /\ Exclusive(docLock)
    /\ GuardsMatchHandlers' <=>
         /\ docLock'.writers = {s \in Slots : Writes(s)'}
         /\ docLock'.readers = {s \in Slots : Reads(s)'}
         /\ wsLock'.writers = {} /\ wsLock'.readers = {}
         /\ Exclusive(docLock')
  BY DEF GuardsMatchHandlers, Writes, Reads, HeldRead, Exclusive

\* Handlers that stay where they are keep the guards they have.
LEMMA OthersKeep ==
    ASSUME NEW s \in Slots, OthersStay(s)
    PROVE  \A r \in Slots \ {s} : /\ Reads(r)' <=> Reads(r)
                                  /\ Writes(r)' <=> Writes(r)
  BY DEF OthersStay, Reads, Writes, At

\* A handler that moves takes and drops exactly the guards its place calls for.
LEMMA GuardStepKeeps ==
    ASSUME GuardsMatchHandlers, NEW s \in Slots, GuardStep(s), OthersStay(s)
    PROVE  GuardsMatchHandlers'
<1>1. /\ docLock.writers = {r \in Slots : Writes(r)}
      /\ docLock.readers = {r \in Slots : Reads(r)}
      /\ wsLock.writers = {} /\ wsLock.readers = {}
      /\ Exclusive(docLock)
  BY GuardsEquiv
<1>2. \A r \in Slots \ {s} : (Reads(r)' <=> Reads(r)) /\ (Writes(r)' <=> Writes(r))
  BY OthersKeep
<1>3. wsLock'.writers = {} /\ wsLock'.readers = {}
  BY <1>1 DEF GuardStep
<1>4. docLock'.writers = {r \in Slots : Writes(r)'} /\ docLock'.readers = {r \in Slots : Reads(r)'}
  <2>1. CASE SameGuards(s)
    BY <1>1, <1>2, <2>1 DEF SameGuards
  <2>2. CASE TakesRead(s)
    BY <1>1, <1>2, <2>2 DEF TakesRead
  <2>3. CASE TakesWrite(s)
    <3>1. ~ Reads(s)
      BY <1>1, <2>3 DEF TakesWrite
    <3> QED BY <1>1, <1>2, <2>3, <3>1 DEF TakesWrite
  <2>4. CASE DropsGuards(s)
    BY <1>1, <1>2, <2>4 DEF DropsGuards
  <2> QED BY <2>1, <2>2, <2>3, <2>4 DEF GuardStep
<1>5. Exclusive(docLock')
  BY <1>1 DEF Exclusive, GuardStep, SameGuards, TakesRead, TakesWrite, DropsGuards
<1> QED BY <1>3, <1>4, <1>5, GuardsEquiv

\* A cancelled request gives up all its guards.
LEMMA DropKeeps ==
    ASSUME GuardsMatchHandlers, NEW s \in Slots, tasks'[s] = Idle, OthersStay(s),
           docLock'.readers = docLock.readers \ {s},
           docLock'.writers = docLock.writers \ {s},
           wsLock'.readers = wsLock.readers \ {s},
           wsLock'.writers = wsLock.writers \ {s}
    PROVE  GuardsMatchHandlers'
<1>1. /\ docLock.writers = {r \in Slots : Writes(r)}
      /\ docLock.readers = {r \in Slots : Reads(r)}
      /\ wsLock.writers = {} /\ wsLock.readers = {}
      /\ Exclusive(docLock)
  BY GuardsEquiv
<1>2. \A r \in Slots \ {s} : (Reads(r)' <=> Reads(r)) /\ (Writes(r)' <=> Writes(r))
  BY OthersKeep
<1>3. ~ Reads(s)' /\ ~ Writes(s)'
  BY DEF Reads, Writes, At
<1>4. docLock'.writers = {r \in Slots : Writes(r)'} /\ docLock'.readers = {r \in Slots : Reads(r)'}
  BY <1>1, <1>2, <1>3
<1>5. Exclusive(docLock')
  BY <1>1 DEF Exclusive
<1> QED BY <1>1, <1>4, <1>5, GuardsEquiv

\* No step of the session leaks a guard or takes one too many.
LEMMA NextGuards == TypeInv /\ GuardsMatchHandlers /\ [Next]_vars => GuardsMatchHandlers'
<1> SUFFICES ASSUME TypeInv, GuardsMatchHandlers, [Next]_vars PROVE GuardsMatchHandlers'
  OBVIOUS
<1>1. CASE UNCHANGED <<tasks, docLock, wsLock>>
  BY <1>1 DEF GuardsMatchHandlers, At, Exclusive
<1> QED BY <1>1, SlotStep, GuardStepKeeps, DropKeeps

\* A session starts without guards.
LEMMA InitGuards == Init => GuardsMatchHandlers
  BY DEF Init, GuardsMatchHandlers, Unlocked, At, Exclusive

\* The documents lock is held by exactly the handlers suspended in a section
\* that needs it, a writer alone, whatever is cancelled: the workspace lock is
\* held across no suspension.
THEOREM GuardsCorrect == Spec => []GuardsMatchHandlers
  BY InitTypes, NextTypes, InitGuards, NextGuards, PTL DEF Spec
-----------------------------------------------------------------------------
(* The index *)

\* Why the index may trust a comparison made before its lock was awaited: the
\* handler keeps the documents guard, and no document changes under it.
IndexInv ==
    \A r \in Slots : At(r, "index") =>
        IsGeneration(tasks[r].uri, tasks[r].text, tasks[r].version)

\* A handler that reaches the index has just compared its generation.
LEMMA IndexCheckFacts ==
    ASSUME ServerType, NEW s \in Slots, IndexCheck(s), At(s, "index")'
    PROVE  /\ docs' = docs
           /\ IsGeneration(tasks[s].uri, tasks[s].text, tasks[s].version)
           /\ tasks'[s].uri = tasks[s].uri /\ tasks'[s].text = tasks[s].text
           /\ tasks'[s].version = tasks[s].version
<1>1. tasks[s] # Idle /\ tasks \in TasksType /\ docs' = docs
  BY DEF IndexCheck, At, ServerType
<1>2. tasks[s] \in Task
  BY <1>1 DEF TasksType
<1>3. Return(s)[s] = Idle
  BY <1>1, GotoFacts
<1>4. IsGeneration(tasks[s].uri, tasks[s].text, tasks[s].version) /\ tasks' = Goto(s, "index")
  BY <1>3 DEF IndexCheck, At
<1>5. tasks'[s] = [tasks[s] EXCEPT !.pc = "index"]
  BY <1>1, <1>4, GotoFacts, PcNames
<1> QED BY <1>1, <1>2, <1>4, <1>5 DEF Task

\* No step makes a comparison stale while its handler awaits the index.
LEMMA NextIndex == TypeInv /\ GuardsMatchHandlers /\ IndexInv /\ [Next]_vars => IndexInv'
<1> SUFFICES ASSUME TypeInv, GuardsMatchHandlers, IndexInv, [Next]_vars,
                    NEW r \in Slots, At(r, "index")'
             PROVE  IsGeneration(tasks[r].uri, tasks[r].text, tasks[r].version)'
  BY DEF IndexInv
<1>0. ServerType
  BY TypeSplit DEF TypeInv
<1>1. ASSUME NEW s \in Slots, OthersStay(s), r # s
      PROVE  /\ At(r, "index") /\ tasks'[r].uri = tasks[r].uri
             /\ tasks'[r].text = tasks[r].text /\ tasks'[r].version = tasks[r].version
  BY <1>1 DEF OthersStay, At
<1>2. CASE docs' = docs /\ UNCHANGED <<tasks, docLock, wsLock>>
  BY <1>2 DEF IndexInv, At, IsGeneration, IsOpen
<1>3. ASSUME NEW s \in Slots, docs' = docs, OthersStay(s), ~ At(s, "index")'
      PROVE  IsGeneration(tasks[r].uri, tasks[r].text, tasks[r].version)'
  BY <1>1, <1>3 DEF IndexInv, IsGeneration, IsOpen
<1>4. ASSUME NEW s \in Slots, RunHandler(s), OthersStay(s)
      PROVE  IsGeneration(tasks[r].uri, tasks[r].text, tasks[r].version)'
  <2>1. Run(s)
    BY <1>4 DEF RunHandler
  <2>2. CASE docs' # docs
    <3>1. docLock.readers = {}
      BY <2>1, <2>2, DocsChangeAlone
    <3>2. r = s
      BY <1>1, <1>4, <3>1 DEF GuardsMatchHandlers
    <3>3. IndexCheck(s)
      BY <1>0, <2>1, <3>2, RunSteps DEF At, TypeInv
    <3> QED BY <2>2, <3>3 DEF IndexCheck
  <2>3. CASE docs' = docs /\ r # s
    BY <1>1, <1>4, <2>3 DEF IndexInv, IsGeneration, IsOpen
  <2>4. CASE docs' = docs /\ r = s
    <3>1. IndexCheck(s)
      BY <1>0, <2>1, <2>4, RunSteps DEF At, TypeInv
    <3> QED BY <1>0, <2>4, <3>1, IndexCheckFacts DEF IsGeneration, IsOpen
  <2> QED BY <2>2, <2>3, <2>4
<1>5. ASSUME NEW s \in Slots, docs' = docs, OthersStay(s), tasks'[s] = Idle
      PROVE  IsGeneration(tasks[r].uri, tasks[r].text, tasks[r].version)'
  BY <1>3, <1>5 DEF At
<1> QED BY <1>2, <1>3, <1>4, <1>5, SlotStep

\* The entry a step writes is the text of the open generation.
LEMMA IndexStep ==
    TypeInv /\ IndexInv /\ [Next]_vars =>
        \A u \in Uris : index'[u] # index[u] /\ index'[u] # NoText =>
            IsOpen(u) /\ index'[u] = docs[u].source
<1> SUFFICES ASSUME TypeInv, IndexInv, [Next]_vars, NEW u \in Uris,
                    index'[u] # index[u], index'[u] # NoText
             PROVE  IsOpen(u) /\ index'[u] = docs[u].source
  OBVIOUS
<1>1. PICK s \in Slots : Run(s)
  BY SlotStep DEF RunHandler
<1>2. UpdateIndex(s) /\ index \in [Uris -> Texts \union {NoText}]
  BY <1>1, RunIndex, TypeSplit DEF TypeInv, ServerType
<1>3. u = tasks[s].uri /\ index'[u] = tasks[s].text
  BY <1>2 DEF UpdateIndex
<1>4. IsGeneration(tasks[s].uri, tasks[s].text, tasks[s].version)
  BY <1>2 DEF UpdateIndex, IndexInv
<1> QED BY <1>3, <1>4 DEF IsGeneration

\* The symbol index only ever takes an entry from the generation that is open:
\* update_workspace_from_saved_generation compares, then awaits another lock.
THEOREM IndexIsCurrent == Spec => IndexFromCurrentGeneration
<1>1. Init => IndexInv
  BY DEF Init, IndexInv, At
<1>2. TypeInv /\ IndexInv /\ [Next]_vars =>
        [\A u \in Uris : index'[u] # index[u] /\ index'[u] # NoText =>
            IsOpen(u) /\ index'[u] = docs[u].source]_vars
  BY IndexStep
<1> QED
  BY <1>1, <1>2, InitTypes, NextTypes, InitGuards, NextGuards, NextIndex, PTL
  DEF Spec, IndexFromCurrentGeneration

-----------------------------------------------------------------------------
(* Steps of the session, seen from the handlers *)

\* What each notification waits for first.
Serves(t) ==
    /\ t.pc = "install" => t.kind = "open"
    /\ t.pc = "apply" => t.kind = "change"
    /\ t.pc = "remove" => t.kind = "close"
    /\ t.pc = "capture" => t.kind = "save"

\* A step runs a handler, or starts one, or drops a request, or moves none.
Starts(s) ==
    /\ tasks[s] = Idle /\ tasks'[s] \in Task
    /\ tasks'[s].pc \in {"install", "apply", "remove", "capture", "snapshot", "symbol"}
    /\ Serves(tasks'[s])
    /\ ~ tasks'[s].cancelled

Drops(s) == tasks[s] \in Task /\ tasks[s].kind \in RequestKind /\ tasks'[s] = Idle

LEMMA SessionStep ==
    ASSUME TypeInv, [Next]_vars
    PROVE  \/ \E s \in Slots : Run(s) /\ UNCHANGED clientVars
           \/ /\ docs' = docs /\ index' = index /\ shown' = shown
              /\ \/ tasks' = tasks
                 \/ \E s \in Slots : /\ Starts(s) \/ Drops(s)
                                     /\ \A r \in Slots \ {s} : tasks'[r] = tasks[r]
<1>0. ServerType /\ tasks \in TasksType /\ inbox \in Seq(Message)
  BY TypeSplit DEF TypeInv, ServerType
<1>1. ASSUME NEW s \in Slots, Deliver(s)
      PROVE  /\ docs' = docs /\ index' = index /\ shown' = shown /\ Starts(s)
             /\ \A r \in Slots \ {s} : tasks'[r] = tasks[r]
  <2>1. PICK i \in 1..Len(inbox) : Accept(s, inbox[i])
    BY <1>1 DEF Deliver
  <2>2. inbox[i] \in Message
    BY <1>0, ElementOfSeq
  <2> DEFINE m == inbox[i]
             t == [kind |-> m.kind, uri |-> m.uri, pc |-> FirstAwait[m.kind][1],
                   text |-> m.text, base |-> m.base, version |-> m.version,
                   cancelled |-> FALSE, result |-> "none",
                   overlays |-> NoFiles, loaded |-> NoFiles]
  <2>3. tasks[s] = Idle /\ tasks' = [tasks EXCEPT ![s] = t]
    BY <2>1 DEF Accept
  <2>4. /\ m.kind \in MessageKind \union RequestKind /\ m.uri \in Uris /\ m.version \in Version
        /\ m.text \in Texts \union {NoText} /\ m.base \in Texts \union {NoText}
    BY <2>2 DEF Message
  <2>5. NoFiles \in [Uris -> Texts \union {NoText}]
    BY DEF NoFiles
  <2> HIDE DEF m
  <2>6. t \in Task
    BY <2>4, <2>5, FirstAwaitType DEF Task, Result
  <2>7. /\ t.pc \in {"install", "apply", "remove", "capture", "snapshot", "symbol"}
        /\ Serves(t)
        /\ ~ t.cancelled
    BY <2>4 DEF FirstAwait, MessageKind, RequestKind, Serves
  <2> HIDE DEF t
  <2>8. tasks'[s] = t /\ \A r \in Slots \ {s} : tasks'[r] = tasks[r]
    BY <1>0, <2>3 DEF TasksType
  <2>9. Starts(s)
    BY <2>3, <2>6, <2>7, <2>8 DEF Starts
  <2> QED BY <2>1, <2>8, <2>9 DEF Accept
<1>2. ASSUME NEW s \in Slots, DropRequest(s)
      PROVE  /\ docs' = docs /\ index' = index /\ shown' = shown /\ Drops(s)
             /\ \A r \in Slots \ {s} : tasks'[r] = tasks[r]
  <2>1. tasks[s] # Idle /\ tasks[s].kind \in RequestKind /\ tasks' = Return(s)
        /\ docs' = docs /\ index' = index /\ shown' = shown
    BY <1>2 DEF DropRequest, CancelRequest
  <2>2. tasks[s] \in Task /\ tasks'[s] = Idle /\ \A r \in Slots \ {s} : tasks'[r] = tasks[r]
    BY <1>0, <2>1 DEF Return, TasksType
  <2> QED BY <2>1, <2>2 DEF Drops
<1>3. \/ docs' = docs /\ index' = index /\ shown' = shown /\ tasks' = tasks
      \/ \E s \in Slots : Deliver(s) \/ RunHandler(s) \/ DropRequest(s)
  BY DEF Next, vars, serverVars, Rest, ClientOpen, ClientSave, ClientClose, ClientChange, ClientRequest
<1> QED BY <1>1, <1>2, <1>3 DEF RunHandler
-----------------------------------------------------------------------------
(* Nothing late takes effect *)

\* A superseded analysis never repopulates the client: what analyze_and_publish
\* and did_save queue is of the generation that is current, what did_close
\* queues clears.
THEOREM DiagnosticsAreCurrent == Spec => NoObsoleteDiagnostics
<1>1. TypeInv /\ ReportIsOfSource /\ [Next]_vars =>
        [\A u \in Uris : shown'[u] # shown[u] =>
            IF docs'[u] = NoDoc THEN shown'[u] = Cleared
            ELSE shown'[u] = docs'[u].source]_vars
  <2> SUFFICES ASSUME TypeInv, ReportIsOfSource, [Next]_vars, NEW u \in Uris, shown'[u] # shown[u]
               PROVE  IF docs'[u] = NoDoc THEN shown'[u] = Cleared
                      ELSE shown'[u] = docs'[u].source
    OBVIOUS
  <2>1. ServerType
    BY TypeSplit DEF TypeInv
  <2>2. PICK s \in Slots : Run(s)
    BY SessionStep
  <2> QED BY <2>1, <2>2, ShownStep DEF ReportIsOfSource
<1> QED
  BY <1>1, InitTypes, NextTypes, ReportsBelong, PTL DEF Spec, NoObsoleteDiagnostics

\* A request that reaches its check has read every file its imports reach.
LoadedInv ==
    \A r \in Slots : At(r, "verify") =>
        \A v \in Loads[tasks[r].uri] : tasks[r].loaded[v] # NoText

\* Loading leaves no reachable file without a text.
LEMMA LoadStep ==
    ASSUME ServerType, NEW s \in Slots, Load(s), At(s, "verify")'
    PROVE  \A v \in Loads[tasks'[s].uri] : tasks'[s].loaded[v] # NoText
<1> DEFINE t == tasks[s]
           e == Effective(t.uri, t.overlays)
<1>1. t \in Task /\ t.uri \in Uris /\ tasks \in TasksType /\ disk \in [Uris -> Texts]
  BY DEF Load, At, ServerType, TasksType, Task
<1>2. Goto(s, "fallback")[s].pc # "verify" /\ Reply(s, "null")[s].pc # "verify"
  BY <1>1, GotoFacts, PcNames DEF Load, At
<1>3. tasks' = [tasks EXCEPT ![s].pc = "verify", ![s].loaded = e]
  BY <1>2 DEF Load, At
<1>4. tasks'[s] = [t EXCEPT !.pc = "verify", !.loaded = e]
  BY <1>1, <1>3 DEF TasksType
<1> HIDE DEF e
<1>5. tasks'[s].loaded = e /\ tasks'[s].uri = t.uri
  BY <1>1, <1>4 DEF Task
<1>6. Loads[t.uri] \subseteq Uris
  BY <1>1, LspAssumption
<1>7. \A v \in Loads[t.uri] : e[v] # NoText
  BY <1>1, <1>6, LspAssumption DEF e, Effective
<1> QED BY <1>5, <1>7

LEMMA NextLoaded == TypeInv /\ LoadedInv /\ [Next]_vars => LoadedInv'
<1> SUFFICES ASSUME TypeInv, LoadedInv, [Next]_vars, NEW r \in Slots, At(r, "verify")'
             PROVE  \A v \in Loads[tasks'[r].uri] : tasks'[r].loaded[v] # NoText
  BY DEF LoadedInv
<1>0. ServerType /\ tasks \in TasksType
  BY TypeSplit DEF TypeInv, ServerType
<1>1. ASSUME tasks'[r] = tasks[r]
      PROVE  \A v \in Loads[tasks'[r].uri] : tasks'[r].loaded[v] # NoText
  BY <1>1 DEF LoadedInv, At
<1>2. ASSUME NEW s \in Slots, Run(s)
      PROVE  \A v \in Loads[tasks'[r].uri] : tasks'[r].loaded[v] # NoText
  <2>1. CASE r = s
    BY <1>0, <1>2, <2>1, RunMoves, LoadStep DEF At, ComesFrom
  <2>2. CASE r # s
    <3>1. tasks'[r] = tasks[r] \/ tasks'[r] = CancelAnalyses(tasks[s].uri, tasks)[r]
      BY <1>0, <1>2, <2>2, OthersKept
    <3>2. tasks'[r] = tasks[r] \/ (tasks[r] \in Task /\ tasks[r].pc = "analyze"
                                   /\ tasks'[r] = [tasks[r] EXCEPT !.cancelled = TRUE])
      BY <1>0, <3>1 DEF CancelAnalyses, TasksType
    <3>3. tasks'[r] = tasks[r]
      BY <3>2 DEF At, Task
    <3> QED BY <1>1, <3>3
  <2> QED BY <2>1, <2>2
<1>3. ASSUME NEW s \in Slots, Starts(s) \/ Drops(s), \A q \in Slots \ {s} : tasks'[q] = tasks[q]
      PROVE  \A v \in Loads[tasks'[r].uri] : tasks'[r].loaded[v] # NoText
  BY <1>1, <1>3 DEF Starts, Drops, At
<1> QED BY <1>1, <1>2, <1>3, SessionStep

\* A snapshot that matches the open buffers was computed from them.
LEMMA MatchingIsCurrent ==
    ASSUME TypeInv, LoadedInv, NEW s \in Slots, At(s, "verify"), SnapshotMatches(tasks[s])
    PROVE  CurrentBuffers(tasks[s])
<1>1. tasks[s] \in Task /\ tasks[s].uri \in Uris
  BY TypeSplit DEF TypeInv, ServerType, TasksType, Task, At
<1>2. Loads[tasks[s].uri] \subseteq Uris
  BY <1>1, LspAssumption
<1> QED BY <1>2 DEF LoadedInv, SnapshotMatches, CurrentBuffers

\* references and goto_definition answer for the buffers that are open when
\* the answer is given, and no notification, however late, moves an open
\* document back to an older version: for any window of the transport.
THEOREM LateIsIgnored == Spec => NothingLateTakesEffect
<1>1. Init => LoadedInv
  BY DEF Init, LoadedInv, At
<1>2. TypeInv /\ LoadedInv /\ [Next]_vars =>
        [\A s \in Slots :
            /\ At(s, "verify") /\ tasks'[s] # Idle
            /\ tasks'[s].pc = "replied" /\ tasks'[s].result = "edits"
            => CurrentBuffers(tasks[s])]_vars
  <2> SUFFICES ASSUME TypeInv, LoadedInv, [Next]_vars, NEW s \in Slots, At(s, "verify"),
                      tasks'[s] # Idle, tasks'[s].pc = "replied", tasks'[s].result = "edits"
               PROVE  CurrentBuffers(tasks[s])
    OBVIOUS
  <2>0. ServerType /\ tasks \in TasksType
    BY TypeSplit DEF TypeInv, ServerType
  <2>1. tasks'[s] # tasks[s]
    BY DEF At
  <2>2. Run(s)
    <3>1. ASSUME NEW r \in Slots, Run(r), r # s PROVE FALSE
      <4>1. OthersStay(r)
        BY <2>0, <3>1, RunSteps DEF TypeInv
      <4> QED BY <3>1, <4>1 DEF OthersStay, At
    <3>2. ASSUME NEW r \in Slots, Starts(r) \/ Drops(r), \A q \in Slots \ {r} : tasks'[q] = tasks[q]
          PROVE  FALSE
      BY <2>1, <3>2 DEF Starts, Drops, At
    <3> QED BY <2>1, <3>1, <3>2, SessionStep
  <2> QED BY <2>0, <2>2, VerifyStep, MatchingIsCurrent
<1>3. TypeInv /\ [Next]_vars =>
        [\A u \in Uris : IsOpen(u) /\ docs'[u] # NoDoc /\ docs'[u] # docs[u] =>
            \/ docs'[u].version > docs[u].version
            \/ docs'[u] = [docs[u] EXCEPT !.report = docs[u].source]]_vars
  <2> SUFFICES ASSUME TypeInv, [Next]_vars, NEW u \in Uris,
                      IsOpen(u), docs'[u] # NoDoc, docs'[u] # docs[u]
               PROVE  \/ docs'[u].version > docs[u].version
                      \/ docs'[u] = [docs[u] EXCEPT !.report = docs[u].source]
    OBVIOUS
  <2>1. PICK s \in Slots : Run(s)
    BY SessionStep
  <2> QED BY <2>1, VersionStep, TypeSplit DEF TypeInv
<1> QED
  BY <1>1, <1>2, <1>3, InitTypes, NextTypes, NextLoaded, PTL
  DEF Spec, NothingLateTakesEffect, AnswersAreCurrent, VersionsOnlyGrow

-----------------------------------------------------------------------------
(* The client is left with the diagnostics of what it shows *)

\* A handler that has not run yet does what its message asks for, and a
\* notification that waits to install a text was not cancelled.
FreshInv ==
    \A r \in Slots : tasks[r] # Idle =>
        /\ Serves(tasks[r])
        /\ tasks[r].pc \in {"install", "apply"} => ~ tasks[r].cancelled

\* The handler in slot s is about to publish the current generation of u.
Diagnosing(s, u) ==
    LET t == tasks[s] IN
    /\ t # Idle
    /\ t.uri = u /\ t.kind \in MessageKind
    /\ IsGeneration(u, t.text, t.version)
    /\ \/ t.pc \in {"prepare", "analyze"} /\ ~ t.cancelled
       \/ t.pc = "commit" /\ t.result = Outcome(t.text)

\* The diagnostics shown are those of the document held, or some handler whose
\* token still lives is on its way to publish them.
DiagInv ==
    \A u \in Uris :
        /\ ~ IsOpen(u) => shown[u] = Cleared
        /\ IsOpen(u) /\ docs[u].source \notin Crashing =>
              shown[u] = docs[u].source \/ \E s \in Slots : Diagnosing(s, u)

LEMMA NextFresh == TypeInv /\ FreshInv /\ [Next]_vars => FreshInv'
<1> SUFFICES ASSUME TypeInv, FreshInv, [Next]_vars, NEW r \in Slots, tasks'[r] # Idle
             PROVE  /\ Serves(tasks'[r])
                    /\ tasks'[r].pc \in {"install", "apply"} => ~ tasks'[r].cancelled
  BY DEF FreshInv, Serves
<1>0. ServerType /\ tasks \in TasksType
  BY TypeSplit DEF TypeInv, ServerType
<1>1. ASSUME tasks'[r] = tasks[r]
      PROVE  /\ Serves(tasks'[r])
             /\ tasks'[r].pc \in {"install", "apply"} => ~ tasks'[r].cancelled
  BY <1>1 DEF FreshInv, Serves
<1>2. ASSUME NEW s \in Slots, Run(s)
      PROVE  /\ Serves(tasks'[r])
             /\ tasks'[r].pc \in {"install", "apply"} => ~ tasks'[r].cancelled
  <2>1. CASE r = s
    BY <1>0, <1>2, <2>1, RunMoves DEF ComesFrom, Serves
  <2>2. CASE r # s
    <3>1. tasks'[r] = tasks[r] \/ tasks'[r] = CancelAnalyses(tasks[s].uri, tasks)[r]
      BY <1>0, <1>2, <2>2, OthersKept
    <3>2. tasks'[r] = tasks[r] \/ (tasks[r] \in Task /\ tasks[r].pc = "analyze"
                                   /\ tasks'[r] = [tasks[r] EXCEPT !.cancelled = TRUE])
      BY <1>0, <3>1 DEF CancelAnalyses, TasksType
    <3>3. tasks'[r] = tasks[r] \/ tasks'[r].pc = "analyze"
      BY <3>2 DEF Task
    <3> QED BY <1>1, <3>3 DEF Serves
  <2> QED BY <2>1, <2>2
<1>3. ASSUME NEW s \in Slots, Starts(s) \/ Drops(s), \A q \in Slots \ {s} : tasks'[q] = tasks[q]
      PROVE  /\ Serves(tasks'[r])
             /\ tasks'[r].pc \in {"install", "apply"} => ~ tasks'[r].cancelled
  BY <1>1, <1>3 DEF Starts, Drops
<1> QED BY <1>1, <1>2, <1>3, SessionStep

\* What another handler does leaves an analysis of the document it keeps alone.
LEMMA KeepsDiagnosing ==
    ASSUME tasks \in TasksType, NEW s \in Slots, Run(s), NEW r \in Slots \ {s}, NEW u \in Uris,
           Diagnosing(r, u),
           tasks[s].uri # u \/ ~ (InstallNewer(s) \/ ApplyChange(s) \/ CloseDocument(s)),
           IsOpen(u)', docs'[u].source = docs[u].source, docs'[u].version = docs[u].version
    PROVE  Diagnosing(r, u)'
<1>1. tasks'[r] = tasks[r] \/ (tasks[s].uri # u /\ tasks'[r] = CancelAnalyses(tasks[s].uri, tasks)[r])
  BY OthersKept
<1>2. tasks'[r] = tasks[r]
  BY <1>1 DEF CancelAnalyses, Diagnosing
<1> QED BY <1>2 DEF Diagnosing, IsGeneration, IsOpen

\* A handler touches no document but its own, nor what is shown of another.
LEMMA OwnDocument ==
    ASSUME ServerType, NEW s \in Slots, Run(s), NEW u \in Uris, tasks[s].uri # u
    PROVE  docs'[u] = docs[u] /\ shown'[u] = shown[u]
<1>1. docs'[u] = docs[u]
  BY RunDocs DEF ServerType, InstallNew, InstallNewer, ApplyChange, CommitReport, CloseDocument
<1>2. shown'[u] = shown[u]
  BY RunShown DEF ServerType, CommitReport, CommitParseError, CloseDocument, Capture
<1> QED BY <1>1, <1>2

\* The handler that installs a generation goes on to analyse it.
LEMMA InstallDiagnoses ==
    ASSUME ServerType, TextsPresent, FreshInv, NEW s \in Slots,
           InstallNew(s) \/ InstallNewer(s) \/ ApplyChange(s),
           NEW u \in Uris, tasks[s].uri = u
    PROVE  Diagnosing(s, u)'
<1> DEFINE t == tasks[s]
<1>0. t \in Task /\ t.uri = u /\ tasks \in TasksType /\ docs \in [Uris -> Document \union {NoDoc}]
  BY DEF ServerType, TasksType, Task, InstallNew, InstallNewer, ApplyChange, At
<1>1. ~ t.cancelled /\ t.kind \in MessageKind /\ t.pc \in {"install", "apply"}
  BY DEF FreshInv, Serves, MessageKind, InstallNew, InstallNewer, ApplyChange, At
<1>T. t.text \in Texts
  BY <1>1 DEF TextsPresent, InstallNew, InstallNewer, ApplyChange, At
<1>2. PICK x \in Texts : /\ docs'[u] = NewDocument(x, t.version)
                        /\ tasks'[s] = [t EXCEPT !.pc = "prepare", !.text = x]
  <2>1. CASE InstallNew(s)
    <3>1. tasks'[s] = [t EXCEPT !.pc = "prepare"] /\ docs'[u] = NewDocument(t.text, t.version)
      BY <1>0, <2>1 DEF InstallNew, Goto, TasksType
    <3>2. tasks'[s] = [t EXCEPT !.pc = "prepare", !.text = t.text]
      BY <1>0, <3>1 DEF Task
    <3> QED BY <1>T, <3>1, <3>2
  <2>2. CASE InstallNewer(s)
    <3>1. tasks'[s] = [CancelAnalyses(u, tasks)[s] EXCEPT !.pc = "prepare"]
          /\ docs'[u] = NewDocument(t.text, t.version)
      BY <1>0, <2>2 DEF InstallNewer, CancelAnalyses
    <3>2. CancelAnalyses(u, tasks)[s] = t
      BY <1>1 DEF CancelAnalyses
    <3>3. [t EXCEPT !.pc = "prepare"] = [t EXCEPT !.pc = "prepare", !.text = t.text]
      BY <1>0 DEF Task
    <3> QED BY <1>T, <3>1, <3>2, <3>3
  <2>3. CASE ApplyChange(s)
    <3>1. PICK x \in ApplyChanges(docs[t.uri].source, t.base, t.text) \ {NoText} :
            /\ docs' = [docs EXCEPT ![t.uri] = NewDocument(x, t.version)]
            /\ tasks' = [CancelAnalyses(t.uri, tasks) EXCEPT ![s].pc = "prepare", ![s].text = x]
      BY <2>3 DEF ApplyChange
    <3>2. CancelAnalyses(u, tasks)[s] = t
      BY <1>1 DEF CancelAnalyses
    <3>3. x \in Texts
      BY <1>T, <3>1 DEF ApplyChanges
    <3>4. tasks'[s] = [CancelAnalyses(u, tasks)[s] EXCEPT !.pc = "prepare", !.text = x]
      BY <1>0, <3>1 DEF CancelAnalyses
    <3> QED BY <1>0, <3>1, <3>2, <3>3, <3>4
  <2> QED BY <2>1, <2>2, <2>3
<1>3. /\ tasks'[s].pc = "prepare" /\ tasks'[s].text = x /\ tasks'[s].version = t.version
      /\ tasks'[s].uri = u /\ tasks'[s].kind = t.kind /\ ~ tasks'[s].cancelled
  BY <1>0, <1>1, <1>2 DEF Task
<1>4. docs'[u].source = x /\ docs'[u].version = t.version
  BY <1>2 DEF NewDocument
<1>5. docs'[u] # NoDoc /\ tasks'[s] # Idle
  <2>1. t.version \in Version
    BY <1>0 DEF Task
  <2>2. docs'[u] \in Document
    BY <1>2, <2>1, DocumentType
  <2>3. tasks'[s] \in Task
    BY <1>0, <1>2, PcNames DEF Task
  <2> QED BY <2>2, <2>3, LspAssumption
<1> QED BY <1>1, <1>3, <1>4, <1>5 DEF Diagnosing, IsGeneration, IsOpen

\* The handler on its way publishes, unless the generation is replaced.
LEMMA DiagnosesOn ==
    ASSUME ServerType, NEW s \in Slots, Run(s), NEW u \in Uris, Diagnosing(s, u),
           docs[u].source \notin Crashing, docs' = docs, shown' = shown
    PROVE  Diagnosing(s, u)' \/ shown'[u] = docs'[u].source
<1> DEFINE t == tasks[s]
<1>0. t \in Task /\ tasks \in TasksType /\ t # Idle /\ t.uri = u
      /\ IsGeneration(u, t.text, t.version)
  BY DEF ServerType, TasksType, Diagnosing
<1>1. RunsFrom(s)
  BY RunFrom
<1>2. CASE t.pc = "prepare"
  <2>1. Prepare(s) /\ ~ t.cancelled /\ t.kind \in MessageKind
    BY <1>1, <1>2 DEF RunsFrom, Diagnosing
  <2>2. tasks'[s] = [t EXCEPT !.pc = "analyze"]
    BY <1>0, <2>1 DEF Prepare, Goto, TasksType
  <2>3. /\ tasks'[s].pc = "analyze" /\ tasks'[s].uri = u /\ tasks'[s].kind \in MessageKind
        /\ tasks'[s].text = t.text /\ tasks'[s].version = t.version /\ ~ tasks'[s].cancelled
        /\ tasks'[s] \in Task
    BY <1>0, <2>1, <2>2, PcNames DEF Task
  <2> QED BY <1>0, <2>3, LspAssumption DEF Diagnosing, IsGeneration, IsOpen
<1>3. CASE t.pc = "analyze"
  <2>1. Analyze(s) /\ ~ t.cancelled /\ t.kind \in MessageKind
    BY <1>1, <1>3 DEF RunsFrom, Diagnosing
  <2>2. tasks'[s] = [t EXCEPT !.pc = "commit", !.result = Outcome(t.text)]
    BY <1>0, <2>1 DEF Analyze, TasksType
  <2>0. Outcome(t.text) \in Result
    BY DEF Outcome, Result
  <2>3. /\ tasks'[s].pc = "commit" /\ tasks'[s].uri = u /\ tasks'[s].kind \in MessageKind
        /\ tasks'[s].text = t.text /\ tasks'[s].version = t.version
        /\ tasks'[s].result = Outcome(t.text) /\ tasks'[s] \in Task
    BY <1>0, <2>0, <2>1, <2>2, PcNames DEF Task
  <2> QED BY <1>0, <2>3, LspAssumption DEF Diagnosing, IsGeneration, IsOpen
<1>4. CASE t.pc = "commit"
  <2>1. CommitReport(s) \/ CommitParseError(s) \/ CommitNothing(s)
    BY <1>1, <1>4 DEF RunsFrom
  <2>2. t.result = Outcome(t.text) /\ t.text = docs[u].source
    BY <1>4 DEF Diagnosing, IsGeneration
  <2>3. t.result \notin {"cancelled", "failed"}
    BY <2>2 DEF Outcome
  <2>4. ~ CommitNothing(s)
    BY <1>0, <2>3 DEF CommitNothing
  <2>5. shown'[u] = t.text
    BY <1>0, <2>1, <2>4 DEF CommitReport, CommitParseError, ServerType
  <2> QED BY <2>2, <2>5
<1> QED BY <1>2, <1>3, <1>4 DEF Diagnosing

LEMMA NextDiag ==
    TypeInv /\ FreshInv /\ ReportIsOfSource /\ DiagInv /\ [Next]_vars => DiagInv'
<1> SUFFICES ASSUME TypeInv, FreshInv, ReportIsOfSource, DiagInv, [Next]_vars, NEW u \in Uris
             PROVE  /\ ~ IsOpen(u)' => shown'[u] = Cleared
                    /\ IsOpen(u)' /\ docs'[u].source \notin Crashing =>
                          shown'[u] = docs'[u].source \/ \E s \in Slots : Diagnosing(s, u)'
  BY DEF DiagInv
<1> DEFINE Goal == /\ ~ IsOpen(u)' => shown'[u] = Cleared
                   /\ IsOpen(u)' /\ docs'[u].source \notin Crashing =>
                         shown'[u] = docs'[u].source \/ \E s \in Slots : Diagnosing(s, u)'
<1>0. ServerType /\ TextsPresent /\ tasks \in TasksType
  BY TypeSplit DEF TypeInv, ServerType
<1>d. /\ ~ IsOpen(u) => shown[u] = Cleared
      /\ IsOpen(u) /\ docs[u].source \notin Crashing =>
            shown[u] = docs[u].source \/ \E s \in Slots : Diagnosing(s, u)
  BY DEF DiagInv
<1>1. ASSUME docs' = docs, shown' = shown,
             \A s \in Slots : Diagnosing(s, u) => tasks'[s] = tasks[s]
      PROVE  Goal
  <2>1. \A s \in Slots : Diagnosing(s, u) => Diagnosing(s, u)'
    BY <1>1 DEF Diagnosing, IsGeneration, IsOpen
  <2> QED BY <1>1, <1>d, <2>1 DEF IsOpen
<1>2. ASSUME NEW s \in Slots, Run(s), tasks[s].uri # u PROVE Goal
  <2>1. docs'[u] = docs[u] /\ shown'[u] = shown[u]
    BY <1>0, <1>2, OwnDocument
  <2>2. \A r \in Slots : Diagnosing(r, u) => r # s
    BY <1>2 DEF Diagnosing
  <2>3. \A r \in Slots : IsOpen(u) /\ Diagnosing(r, u) => Diagnosing(r, u)'
    BY <1>0, <1>2, <2>1, <2>2, KeepsDiagnosing DEF IsOpen
  <2> QED BY <1>d, <2>1, <2>3 DEF IsOpen
<1>3. ASSUME NEW s \in Slots, Run(s), tasks[s].uri = u PROVE Goal
  <2>0. docs \in [Uris -> Document \union {NoDoc}] /\ shown \in [Uris -> Texts \union {NoText}]
        /\ (IsOpen(u) => docs[u].report \in {NoText, docs[u].source})
    BY <1>0 DEF ServerType, ReportIsOfSource
  <2>1. CASE InstallNew(s) \/ InstallNewer(s) \/ ApplyChange(s)
    <3>1. Diagnosing(s, u)'
      BY <1>0, <1>3, <2>1, InstallDiagnoses
    <3> QED BY <3>1 DEF Diagnosing, IsGeneration
  <2>2. CASE CloseDocument(s)
    BY <1>3, <2>0, <2>2 DEF CloseDocument, IsOpen
  <2>3. CASE CommitReport(s)
    <3>1. /\ docs'[u] = [docs[u] EXCEPT !.report = tasks[s].text] /\ shown'[u] = tasks[s].text
          /\ IsOpen(u) /\ docs[u].source = tasks[s].text
      BY <1>3, <2>0, <2>3 DEF CommitReport, IsGeneration
    <3>2. docs'[u].source = docs[u].source /\ docs'[u] \in Document
      BY <2>0, <3>1 DEF Document, IsOpen
    <3> QED BY <3>1, <3>2, LspAssumption DEF IsOpen
  <2>4. CASE CommitParseError(s)
    BY <1>3, <2>0, <2>4 DEF CommitParseError, IsGeneration, IsOpen
  <2>5. CASE Capture(s)
    <3>1. docs' = docs /\ (shown'[u] = shown[u] \/ shown'[u] = docs[u].source) /\ IsOpen(u)
      BY <1>3, <2>0, <2>5 DEF Capture
    <3>2. At(s, "capture")
      BY <2>5 DEF Capture
    <3>3. ~ (InstallNewer(s) \/ ApplyChange(s) \/ CloseDocument(s))
      BY <3>2 DEF InstallNewer, ApplyChange, CloseDocument, At
    <3>4. \A r \in Slots : Diagnosing(r, u) => r # s
      BY <3>2 DEF Diagnosing, At
    <3>5. \A r \in Slots : Diagnosing(r, u) => Diagnosing(r, u)'
      BY <1>0, <1>3, <3>1, <3>3, <3>4, KeepsDiagnosing DEF IsOpen
    <3> QED BY <1>d, <3>1, <3>5 DEF IsOpen
  <2>6. CASE ~ (InstallNew(s) \/ InstallNewer(s) \/ ApplyChange(s) \/ CommitReport(s)
                \/ CommitParseError(s) \/ CloseDocument(s) \/ Capture(s))
    <3>1. docs' = docs /\ shown' = shown
      BY <1>3, <2>6, RunDocs, RunShown
    <3>2. \A r \in Slots \ {s} : IsOpen(u) /\ Diagnosing(r, u) => Diagnosing(r, u)'
      BY <1>0, <1>3, <2>6, <3>1, KeepsDiagnosing DEF IsOpen
    <3>3. Diagnosing(s, u) /\ docs[u].source \notin Crashing =>
             Diagnosing(s, u)' \/ shown'[u] = docs'[u].source
      BY <1>0, <1>3, <3>1, DiagnosesOn
    <3> QED BY <1>d, <3>1, <3>2, <3>3 DEF IsOpen
  <2> QED BY <2>1, <2>2, <2>3, <2>4, <2>5, <2>6
<1>4. ASSUME NEW s \in Slots, Starts(s) \/ Drops(s), \A r \in Slots \ {s} : tasks'[r] = tasks[r],
             docs' = docs, shown' = shown
      PROVE  Goal
  <2>1. ~ Diagnosing(s, u)
    BY <1>4 DEF Starts, Drops, Diagnosing, MessageKind, RequestKind
  <2>2. \A r \in Slots : Diagnosing(r, u) => tasks'[r] = tasks[r]
    BY <1>4, <2>1
  <2> QED BY <1>1, <1>4, <2>2
<1> HIDE DEF Goal
<1>5. Goal
  BY <1>1, <1>2, <1>3, <1>4, SessionStep
<1> QED BY <1>5 DEF Goal

\* Once the handlers of a document are done, the client was last told the
\* diagnostics of the text the document holds, or nothing when it is closed:
\* whatever was superseded, cancelled, closed, reopened or started out of order.
THEOREM DiagnosticsAreSettled == Spec => []DiagnosticsSettle
<1>1. Init => FreshInv /\ DiagInv
  BY DEF Init, FreshInv, DiagInv, IsOpen
<1>2. DiagInv => DiagnosticsSettle
  BY DEF DiagInv, DiagnosticsSettle, Settled, Diagnosing
<1> QED
  BY <1>1, <1>2, InitTypes, NextTypes, NextFresh, NextDiag, ReportsBelong, PTL DEF Spec

-----------------------------------------------------------------------------
(* The notifications on their way *)

\* A message that opens, changes or closes document u.
Moves(m, u) == m.uri = u /\ m.kind \in {"open", "change", "close"}

\* One that neither does so nor saves it.
Quiet(m, u) == m.uri # u \/ m.kind \in RequestKind

\* The state of a document: what is held of it, or nothing.
Closed == [text |-> NoText, version |-> 0]

After(m) == IF m.kind = "close" THEN Closed ELSE [text |-> m.text, version |-> m.version]

\* What the editor may say of a document in state d, W being the texts its file
\* has had.
Fits(d, m, W) ==
    /\ m.kind = "open" => d = Closed
    /\ m.kind \in {"change", "close"} => d.text # NoText
    /\ m.kind = "change" => m.base \in {d.text, NoText} /\ m.version > d.version
    /\ m.kind = "save" => d.text \in W

\* Position i holds the last move of u before position j (0: there is none).
LastMove(L, u, i, j) ==
    /\ i = 0 \/ Moves(L[i], u)
    /\ \A k \in (i + 1)..(j - 1) : ~ Moves(L[k], u)

StateAt(L, d, i) == IF i = 0 THEN d ELSE After(L[i])

\* The n messages of L take document u from state d to state e, each fitting
\* the state the one before it left.
Chain(L, n, u, d, e, W) ==
    \A j \in 1..(n + 1) : \A i \in 0..(j - 1) : LastMove(L, u, i, j) =>
        IF j = n + 1 THEN StateAt(L, d, i) = e
        ELSE L[j].uri = u => Fits(StateAt(L, d, i), L[j], W)

\* A quiet message moves nothing and fits everything.
LEMMA QuietFits ==
    ASSUME NEW m, NEW u, Quiet(m, u)
    PROVE  ~ Moves(m, u) /\ (m.uri = u => \A d, W : Fits(d, m, W))
  BY DEF Quiet, Moves, Fits, RequestKind

\* A chain is told by its messages, and more texts on disk do not break it.
LEMMA ChainSame ==
    ASSUME NEW n \in Nat, NEW L, NEW M, NEW u, NEW d, NEW e, NEW W, NEW V,
           \A i \in 1..n : M[i] = L[i], W \subseteq V, Chain(L, n, u, d, e, W)
    PROVE  Chain(M, n, u, d, e, V)
<1> SUFFICES ASSUME NEW j \in 1..(n + 1), NEW i \in 0..(j - 1), LastMove(M, u, i, j)
             PROVE  IF j = n + 1 THEN StateAt(M, d, i) = e
                    ELSE M[j].uri = u => Fits(StateAt(M, d, i), M[j], V)
  BY DEF Chain
<1>1. \A k \in (i + 1)..(j - 1) : k \in 1..n
  OBVIOUS
<1>2. i # 0 => i \in 1..n
  OBVIOUS
<1>3. LastMove(L, u, i, j) /\ StateAt(M, d, i) = StateAt(L, d, i)
  BY <1>1, <1>2 DEF LastMove, StateAt
<1>4. IF j = n + 1 THEN StateAt(L, d, i) = e
      ELSE L[j].uri = u => Fits(StateAt(L, d, i), L[j], W)
  BY <1>3 DEF Chain
<1>5. j # n + 1 => M[j] = L[j]
  OBVIOUS
<1> QED BY <1>3, <1>4, <1>5 DEF Fits

\* The first message fits, and what follows goes on from the state it leaves.
LEMMA ChainTail ==
    ASSUME NEW n \in Nat, NEW L, NEW M, NEW u, NEW d, NEW e, NEW W,
           n > 0, \A i \in 1..(n - 1) : M[i] = L[i + 1], Chain(L, n, u, d, e, W)
    PROVE  /\ L[1].uri = u => Fits(d, L[1], W)
           /\ Chain(M, n - 1, u, IF Moves(L[1], u) THEN After(L[1]) ELSE d, e, W)
<1> DEFINE c == IF Moves(L[1], u) THEN After(L[1]) ELSE d
<1>1. L[1].uri = u => Fits(d, L[1], W)
  <2>1. LastMove(L, u, 0, 1) /\ StateAt(L, d, 0) = d /\ 1 \in 1..(n + 1) /\ 0 \in 0..(1 - 1) /\ 1 # n + 1
    BY DEF LastMove, StateAt
  <2> QED BY <2>1 DEF Chain
<1>2. ASSUME NEW j \in 1..n, NEW i \in 0..(j - 1), LastMove(M, u, i, j)
      PROVE  IF j = n THEN StateAt(M, c, i) = e
             ELSE M[j].uri = u => Fits(StateAt(M, c, i), M[j], W)
  <2> DEFINE h == IF i = 0 /\ ~ Moves(L[1], u) THEN 0 ELSE i + 1
  <2>1. j + 1 \in 1..(n + 1) /\ h \in 0..((j + 1) - 1)
    OBVIOUS
  <2>2. \A k \in (h + 1)..((j + 1) - 1) : ~ Moves(L[k], u)
    <3> SUFFICES ASSUME NEW k \in (h + 1)..j PROVE ~ Moves(L[k], u)
      OBVIOUS
    <3>1. CASE k = 1
      BY <3>1
    <3>2. CASE k # 1
      <4>1. k - 1 \in (i + 1)..(j - 1) /\ k - 1 \in 1..(n - 1) /\ (k - 1) + 1 = k
        BY <3>2
      <4> QED BY <1>2, <4>1 DEF LastMove
    <3> QED BY <3>1, <3>2
  <2>3. h = 0 \/ Moves(L[h], u)
    <3>1. CASE i = 0
      BY <3>1
    <3>2. CASE i # 0
      <4>1. h = i + 1 /\ i \in 1..(n - 1)
        BY <3>2
      <4> QED BY <1>2, <3>2, <4>1 DEF LastMove
    <3> QED BY <3>1, <3>2
  <2>4. StateAt(M, c, i) = StateAt(L, d, h)
    <3>1. CASE i = 0
      BY <3>1 DEF StateAt
    <3>2. CASE i # 0
      <4>1. h = i + 1 /\ h # 0 /\ i \in 1..(n - 1)
        BY <3>2
      <4> QED BY <3>2, <4>1 DEF StateAt
    <3> QED BY <3>1, <3>2
  <2>5. LastMove(L, u, h, j + 1)
    BY <2>2, <2>3 DEF LastMove
  <2> HIDE DEF h, c
  <2>6. IF j + 1 = n + 1 THEN StateAt(L, d, h) = e
        ELSE L[j + 1].uri = u => Fits(StateAt(L, d, h), L[j + 1], W)
    BY <2>1, <2>5 DEF Chain
  <2>7. j # n => j \in 1..(n - 1) /\ j + 1 # n + 1
    OBVIOUS
  <2>8. j = n => j + 1 = n + 1
    OBVIOUS
  <2> QED BY <2>4, <2>6, <2>7, <2>8
<1>3. (n - 1) + 1 = n
  OBVIOUS
<1>4. Chain(M, n - 1, u, c, e, W)
  BY <1>2, <1>3 DEF Chain
<1> QED BY <1>1, <1>4

\* A message that fits the state at the end may follow.
LEMMA ChainAppend ==
    ASSUME NEW n \in Nat, NEW L, NEW M, NEW u, NEW d, NEW e, NEW W,
           \A i \in 1..n : M[i] = L[i], Chain(L, n, u, d, e, W),
           M[n + 1].uri = u => Fits(e, M[n + 1], W)
    PROVE  Chain(M, n + 1, u, d, IF Moves(M[n + 1], u) THEN After(M[n + 1]) ELSE e, W)
<1> DEFINE f == IF Moves(M[n + 1], u) THEN After(M[n + 1]) ELSE e
<1> SUFFICES ASSUME NEW j \in 1..((n + 1) + 1), NEW i \in 0..(j - 1), LastMove(M, u, i, j)
             PROVE  IF j = (n + 1) + 1 THEN StateAt(M, d, i) = f
                    ELSE M[j].uri = u => Fits(StateAt(M, d, i), M[j], W)
  BY DEF Chain
<1>1. ASSUME NEW k \in 1..(n + 1), k <= j, i < k
      PROVE  LastMove(L, u, i, k) /\ StateAt(M, d, i) = StateAt(L, d, i) /\ i \in 0..(k - 1)
  <2>1. \A h \in (i + 1)..(k - 1) : h \in 1..n /\ h \in (i + 1)..(j - 1)
    BY <1>1
  <2>2. i # 0 => i \in 1..n
    BY <1>1
  <2>3. i \in 0..(k - 1)
    BY <1>1
  <2> QED BY <2>1, <2>2, <2>3 DEF LastMove, StateAt
<1>2. CASE j <= n
  <2>1. LastMove(L, u, i, j) /\ StateAt(M, d, i) = StateAt(L, d, i) /\ M[j] = L[j] /\ j # n + 1
    BY <1>1, <1>2
  <2>2. L[j].uri = u => Fits(StateAt(L, d, i), L[j], W)
    BY <1>2, <2>1 DEF Chain
  <2> QED BY <1>2, <2>1, <2>2
<1>3. CASE j = n + 1
  <2>1. LastMove(L, u, i, n + 1) /\ StateAt(M, d, i) = StateAt(L, d, i) /\ i \in 0..((n + 1) - 1)
    BY <1>1, <1>3
  <2>2. StateAt(L, d, i) = e
    BY <2>1 DEF Chain
  <2> QED BY <1>3, <2>1, <2>2
<1>4. CASE j = (n + 1) + 1
  <2>1. CASE i = n + 1
    <3>1. Moves(M[n + 1], u) /\ i # 0
      BY <2>1 DEF LastMove
    <3> QED BY <1>4, <2>1, <3>1 DEF StateAt
  <2>2. CASE i # n + 1
    <3>1. n + 1 \in (i + 1)..(j - 1) /\ i < n + 1 /\ n + 1 <= j
      BY <1>4, <2>2
    <3>2. ~ Moves(M[n + 1], u)
      BY <3>1 DEF LastMove
    <3>3. LastMove(L, u, i, n + 1) /\ StateAt(M, d, i) = StateAt(L, d, i) /\ i \in 0..((n + 1) - 1)
      BY <1>1, <3>1
    <3>4. StateAt(L, d, i) = e
      BY <3>3 DEF Chain
    <3> QED BY <1>4, <3>2, <3>3, <3>4
  <2> QED BY <2>1, <2>2
<1>5. j <= n \/ j = n + 1 \/ j = (n + 1) + 1
  OBVIOUS
<1> QED BY <1>2, <1>3, <1>4, <1>5

\* A quiet message may come in between.
LEMMA ChainInsert ==
    ASSUME NEW n \in Nat, NEW p \in 0..n, NEW L, NEW M, NEW u, NEW d, NEW e, NEW W,
           \A i \in 1..p : M[i] = L[i], \A i \in (p + 1)..n : M[i + 1] = L[i],
           Quiet(M[p + 1], u), Chain(L, n, u, d, e, W)
    PROVE  Chain(M, n + 1, u, d, e, W)
<1> SUFFICES ASSUME NEW j \in 1..((n + 1) + 1), NEW i \in 0..(j - 1), LastMove(M, u, i, j)
             PROVE  IF j = (n + 1) + 1 THEN StateAt(M, d, i) = e
                    ELSE M[j].uri = u => Fits(StateAt(M, d, i), M[j], W)
  BY DEF Chain
<1> DEFINE f(x) == IF x <= p THEN x ELSE x - 1
<1>1. i # p + 1
  BY QuietFits DEF LastMove
<1>2. CASE j = p + 1
  BY <1>2, QuietFits
<1>3. CASE j # p + 1
  <2>1. f(j) \in 1..(n + 1) /\ f(i) \in 0..(f(j) - 1)
    BY <1>1, <1>3
  <2>2. i # 0 => f(i) \in 1..n /\ M[i] = L[f(i)] /\ f(i) # 0
    <3>1. CASE i <= p
      BY <3>1
    <3>2. CASE i > p
      <4>1. i - 1 \in (p + 1)..n /\ (i - 1) + 1 = i
        BY <1>1, <3>2
      <4> QED BY <3>2, <4>1
    <3> QED BY <3>1, <3>2
  <2>3. j # (n + 1) + 1 => M[j] = L[f(j)] /\ f(j) # n + 1
    <3>1. CASE j <= p
      BY <3>1
    <3>2. CASE j > p /\ j # (n + 1) + 1
      <4>1. j - 1 \in (p + 1)..n /\ (j - 1) + 1 = j
        BY <1>3, <3>2
      <4> QED BY <3>2, <4>1
    <3> QED BY <3>1, <3>2
  <2>4. \A k \in (f(i) + 1)..(f(j) - 1) : ~ Moves(L[k], u)
    <3> SUFFICES ASSUME NEW k \in (f(i) + 1)..(f(j) - 1) PROVE ~ Moves(L[k], u)
      OBVIOUS
    <3>1. CASE k <= p
      <4>1. k \in (i + 1)..(j - 1) /\ k \in 1..p
        BY <1>1, <3>1
      <4> QED BY <4>1 DEF LastMove
    <3>2. CASE k > p
      <4>1. k + 1 \in (i + 1)..(j - 1) /\ k \in (p + 1)..n
        BY <1>1, <3>2
      <4> QED BY <4>1 DEF LastMove
    <3> QED BY <3>1, <3>2
  <2>5. j = (n + 1) + 1 => f(j) = n + 1
    OBVIOUS
  <2>6. i = 0 => f(i) = 0
    OBVIOUS
  <2> HIDE DEF f
  <2>7. LastMove(L, u, f(i), f(j)) /\ StateAt(M, d, i) = StateAt(L, d, f(i))
    BY <2>2, <2>4, <2>6 DEF LastMove, StateAt
  <2>8. IF f(j) = n + 1 THEN StateAt(L, d, f(i)) = e
        ELSE L[f(j)].uri = u => Fits(StateAt(L, d, f(i)), L[f(j)], W)
    BY <2>1, <2>7 DEF Chain
  <2> QED BY <2>3, <2>5, <2>7, <2>8
<1> QED BY <1>2, <1>3

\* A quiet message may go.
LEMMA ChainRemove ==
    ASSUME NEW n \in Nat, NEW r \in 1..n, NEW L, NEW M, NEW u, NEW d, NEW e, NEW W,
           \A i \in 1..(r - 1) : M[i] = L[i], \A i \in r..(n - 1) : M[i] = L[i + 1],
           Quiet(L[r], u), Chain(L, n, u, d, e, W)
    PROVE  Chain(M, n - 1, u, d, e, W)
<1>0. (n - 1) + 1 = n
  OBVIOUS
<1> SUFFICES ASSUME NEW j \in 1..n, NEW i \in 0..(j - 1), LastMove(M, u, i, j)
             PROVE  IF j = n THEN StateAt(M, d, i) = e
                    ELSE M[j].uri = u => Fits(StateAt(M, d, i), M[j], W)
  BY <1>0 DEF Chain
<1> DEFINE g(x) == IF x < r THEN x ELSE x + 1
<1>1. g(j) \in 1..(n + 1) /\ g(i) \in 0..(g(j) - 1)
  OBVIOUS
<1>2. i # 0 => M[i] = L[g(i)] /\ g(i) # 0
  OBVIOUS
<1>3. j # n => M[j] = L[g(j)] /\ g(j) # n + 1
  OBVIOUS
<1>4. j = n => g(j) = n + 1
  OBVIOUS
<1>5. i = 0 => g(i) = 0
  OBVIOUS
<1>6. \A k \in (g(i) + 1)..(g(j) - 1) : ~ Moves(L[k], u)
  <2> SUFFICES ASSUME NEW k \in (g(i) + 1)..(g(j) - 1) PROVE ~ Moves(L[k], u)
    OBVIOUS
  <2>1. CASE k < r
    <3>1. k \in (i + 1)..(j - 1) /\ k \in 1..(r - 1)
      BY <2>1
    <3> QED BY <3>1 DEF LastMove
  <2>2. CASE k = r
    BY <2>2, QuietFits
  <2>3. CASE k > r
    <3>1. k - 1 \in (i + 1)..(j - 1) /\ k - 1 \in r..(n - 1) /\ (k - 1) + 1 = k
      BY <2>3
    <3> QED BY <3>1 DEF LastMove
  <2> QED BY <2>1, <2>2, <2>3
<1> HIDE DEF g
<1>7. LastMove(L, u, g(i), g(j)) /\ StateAt(M, d, i) = StateAt(L, d, g(i))
  BY <1>2, <1>5, <1>6 DEF LastMove, StateAt
<1>8. IF g(j) = n + 1 THEN StateAt(L, d, g(i)) = e
      ELSE L[g(j)].uri = u => Fits(StateAt(L, d, g(i)), L[g(j)], W)
  BY <1>1, <1>7 DEF Chain
<1> QED BY <1>3, <1>4, <1>7, <1>8

-----------------------------------------------------------------------------
(* The editor is followed *)

\* Where the handlers of notifications wait first.
First == {"install", "apply", "remove", "capture"}

\* Who queues for the documents lock, awaits it, and queues once.
QueueInv ==
    /\ \A i \in 1..Len(docLock.queue) :
         /\ tasks[docLock.queue[i].slot] # Idle
         /\ tasks[docLock.queue[i].slot].pc \in PcDocs
    /\ \A i, j \in 1..Len(docLock.queue) :
         docLock.queue[i].slot = docLock.queue[j].slot => i = j

\* The message a handler still has to act on: a notification until it has the
\* lock for the first time, and nothing that matters here ("symbol") after it.
Letter(t) == [kind |-> IF t.pc \in First \/ t.kind \in RequestKind THEN t.kind ELSE "symbol",
              uri |-> t.uri, text |-> t.text, base |-> t.base, version |-> t.version]

\* The messages on their way: those whose handlers queue for the documents
\* lock, then those the transport has not taken.
Queued == Len(docLock.queue)

Line == [i \in 1..(Queued + Len(inbox)) |->
            IF i <= Queued THEN Letter(tasks[docLock.queue[i].slot]) ELSE inbox[i - Queued]]

\* What the server holds of a document, and what the editor has of it.
Held(u) == IF IsOpen(u) THEN [text |-> docs[u].source, version |-> docs[u].version] ELSE Closed

Kept(u) == IF editor[u].open THEN [text |-> editor[u].text, version |-> editor[u].version] ELSE Closed

\* What is on its way takes the server from what it holds to what the editor has.
FollowInv == \A u \in Uris : Chain(Line, Queued + Len(inbox), u, Held(u), Kept(u), written[u])

\* The handler of another slot still has the same message to act on.
LEMMA OthersLetter ==
    ASSUME tasks \in TasksType, NEW s \in Slots, Run(s), NEW r \in Slots \ {s}, tasks[r] # Idle
    PROVE  tasks'[r] # Idle /\ tasks'[r].pc = tasks[r].pc /\ Letter(tasks'[r]) = Letter(tasks[r])
<1>1. tasks'[r] = tasks[r] \/ tasks'[r] = CancelAnalyses(tasks[s].uri, tasks)[r]
  BY OthersKept
<1>2. tasks[r] \in Task
  BY DEF TasksType
<1>3. tasks'[r] = tasks[r] \/ tasks'[r] = [tasks[r] EXCEPT !.cancelled = TRUE]
  BY <1>1 DEF CancelAnalyses
<1>4. CASE tasks'[r] = [tasks[r] EXCEPT !.cancelled = TRUE]
  <2>1. [tasks[r] EXCEPT !.cancelled = TRUE] \in Task
    BY <1>2 DEF Task
  <2>2. /\ tasks'[r].pc = tasks[r].pc /\ tasks'[r].kind = tasks[r].kind /\ tasks'[r].uri = tasks[r].uri
        /\ tasks'[r].text = tasks[r].text /\ tasks'[r].base = tasks[r].base
        /\ tasks'[r].version = tasks[r].version
    BY <1>2, <1>4 DEF Task
  <2>3. tasks'[r] # Idle
    BY <1>4, <2>1, LspAssumption
  <2> QED BY <2>2, <2>3 DEF Letter
<1> QED BY <1>3, <1>4

\* Once it has run, a handler's message no longer matters.
LEMMA LetterQuiet ==
    ASSUME NEW t, t.pc \notin First, NEW u
    PROVE  Quiet(Letter(t), u)
  BY DEF Letter, Quiet, RequestKind

\* Sequences: taking the head, queueing at the end.
LEMMA TailElements ==
    ASSUME NEW S, NEW q \in Seq(S), q # << >>
    PROVE  /\ Tail(q) \in Seq(S) /\ Len(q) \in Nat /\ Len(q) > 0 /\ Len(Tail(q)) = Len(q) - 1
           /\ Head(q) = q[1]
           /\ \A i \in 1..(Len(q) - 1) : Tail(q)[i] = q[i + 1]
<1>1. Tail(q) \in Seq(S) /\ Len(Tail(q)) = Len(q) - 1 /\ \A i \in 1..Len(Tail(q)) : Tail(q)[i] = q[i + 1]
  BY HeadTailProperties
<1>2. Len(q) \in Nat /\ Len(q) # 0
  BY LenProperties, EmptySeq
<1>3. Head(q) = q[1]
  OBVIOUS
<1> QED BY <1>1, <1>2, <1>3

LEMMA AppendElements ==
    ASSUME NEW S, NEW q \in Seq(S), NEW x
    PROVE  /\ Len(q) \in Nat /\ Len(Append(q, x)) = Len(q) + 1
           /\ \A i \in 1..Len(q) : Append(q, x)[i] = q[i]
           /\ Append(q, x)[Len(q) + 1] = x
<1>1. q \in Seq(S \union {x}) /\ x \in S \union {x}
  <2>1. Len(q) \in Nat /\ DOMAIN q = 1..Len(q) /\ \A i \in 1..Len(q) : q[i] \in S
    BY LenProperties, ElementOfSeq
  <2> QED OBVIOUS
<1>2. Len(q) \in Nat
  BY LenProperties
<1> QED BY <1>1, <1>2, AppendProperties

\* Who waits is a slot.
LEMMA WaitersAreSlots ==
    ASSUME NEW q \in Seq(Waiter)
    PROVE  Len(q) \in Nat /\ \A i \in 1..Len(q) : q[i].slot \in Slots
<1>1. \A i \in 1..Len(q) : q[i] \in Waiter
  BY ElementOfSeq
<1>2. \A x \in Waiter : x.slot \in Slots
  BY DEF Waiter
<1> QED BY <1>1, <1>2, LenProperties

\* What the transport starts queues for the documents lock.
LEMMA AcceptLetter ==
    ASSUME ServerType, NEW s \in Slots, NEW m \in Message, Accept(s, m)
    PROVE  /\ docLock'.queue = Append(docLock.queue, [slot |-> s, mode |-> FirstAwait[m.kind][2]])
           /\ tasks[s] = Idle /\ tasks'[s] # Idle /\ tasks'[s].pc \in PcDocs
           /\ Letter(tasks'[s]) = m
           /\ \A r \in Slots \ {s} : tasks'[r] = tasks[r]
<1> DEFINE t == [kind |-> m.kind, uri |-> m.uri, pc |-> FirstAwait[m.kind][1],
                 text |-> m.text, base |-> m.base, version |-> m.version,
                 cancelled |-> FALSE, result |-> "none",
                 overlays |-> NoFiles, loaded |-> NoFiles]
<1>1. /\ m.kind \in MessageKind \union RequestKind /\ m.uri \in Uris /\ m.version \in Version
      /\ m.text \in Texts \union {NoText} /\ m.base \in Texts \union {NoText}
      /\ m = [kind |-> m.kind, uri |-> m.uri, text |-> m.text, base |-> m.base, version |-> m.version]
  BY DEF Message
<1>2. NoFiles \in [Uris -> Texts \union {NoText}]
  BY DEF NoFiles
<1>3. t \in Task
  BY <1>1, <1>2, FirstAwaitType DEF Task, Result
<1>4. t.pc \in PcDocs /\ (t.kind \in MessageKind => t.pc \in First)
  BY <1>1 DEF FirstAwait, MessageKind, RequestKind, PcDocs, First
<1>5. Letter(t) = m
  BY <1>1, <1>4 DEF Letter
<1>6. tasks' = [tasks EXCEPT ![s] = t] /\ tasks[s] = Idle
  BY DEF Accept
<1> HIDE DEF t
<1>7. tasks'[s] = t /\ \A r \in Slots \ {s} : tasks'[r] = tasks[r]
  BY <1>6 DEF ServerType, TasksType
<1>8. docLock'.queue = Append(docLock.queue, [slot |-> s, mode |-> FirstAwait[m.kind][2]])
  BY QueueOps DEF Accept, ServerType
<1> QED BY <1>3, <1>4, <1>5, <1>6, <1>7, <1>8, LspAssumption

\* Dropping a future takes it out of the queue and leaves the others in order.
LEMMA ForgetQueue ==
    ASSUME NEW l \in Lock, NEW s \in Slots
    PROVE  \/ /\ Forget(l, s).queue = l.queue
              /\ \A i \in 1..Len(l.queue) : l.queue[i].slot # s
           \/ \E r \in 1..Len(l.queue) :
                /\ l.queue[r].slot = s
                /\ Forget(l, s).queue = RemoveAt(l.queue, r)
<1>2. CASE \E i \in 1..Len(l.queue) : l.queue[i].slot = s
  <2> DEFINE i == CHOOSE j \in 1..Len(l.queue) : l.queue[j].slot = s
  <2>1. i \in 1..Len(l.queue) /\ l.queue[i].slot = s
    BY <1>2
  <2>2. Forget(l, s) = [Release(l, s) EXCEPT !.queue = RemoveAt(l.queue, i)]
    BY <1>2, ReleaseType DEF Forget
  <2>3. Release(l, s) \in Lock
    BY ReleaseType
  <2> HIDE DEF i
  <2>4. Forget(l, s).queue = RemoveAt(l.queue, i)
    BY <2>2, <2>3 DEF Lock
  <2> QED BY <2>1, <2>4
<1>3. CASE ~ \E i \in 1..Len(l.queue) : l.queue[i].slot = s
  BY <1>3, ReleaseType DEF Forget
<1> QED BY <1>2, <1>3

\* The queue q holds each handler of A once, and no other.
LinesUp(q, A) ==
    /\ \A i \in 1..Len(q) : q[i].slot \in A
    /\ \A r \in A : \E i \in 1..Len(q) : q[i].slot = r
    /\ \A i, j \in 1..Len(q) : q[i].slot = q[j].slot => i = j

\* The handlers suspended at a lock.
AwaitDocs == {s \in Slots : tasks[s] # Idle /\ tasks[s].pc \in PcDocs}
AwaitWs   == {s \in Slots : tasks[s] # Idle /\ tasks[s].pc \in PcWs}

\* Every handler that awaits a lock is in its queue, once, and no other is.
WaitInv == LinesUp(docLock.queue, AwaitDocs) /\ LinesUp(wsLock.queue, AwaitWs)

\* Whoever takes the head leaves the others in line.
LEMMA TailLinesUp ==
    ASSUME NEW q \in Seq(Waiter), NEW A, LinesUp(q, A), q # << >>
    PROVE  LinesUp(Tail(q), A \ {Head(q).slot})
<1> DEFINE T == Tail(q)
           h == Head(q).slot
<1>1. /\ Len(q) \in Nat /\ Len(q) > 0 /\ Len(T) = Len(q) - 1 /\ q[1].slot = h
      /\ \A i \in 1..(Len(q) - 1) : T[i] = q[i + 1]
  BY TailElements
<1>2. /\ \A i \in 1..Len(q) : q[i].slot \in A
      /\ \A r \in A : \E i \in 1..Len(q) : q[i].slot = r
      /\ \A i, j \in 1..Len(q) : q[i].slot = q[j].slot => i = j
  BY DEF LinesUp
<1> HIDE DEF T, h
<1>3. ASSUME NEW i \in 1..Len(T)
      PROVE  i + 1 \in 1..Len(q) /\ T[i] = q[i + 1] /\ T[i].slot \in A /\ T[i].slot # h
  <2>1. i + 1 \in 1..Len(q) /\ 1 \in 1..Len(q) /\ i + 1 # 1 /\ T[i] = q[i + 1]
    BY <1>1
  <2> QED BY <1>1, <1>2, <2>1
<1>4. ASSUME NEW r \in A \ {h} PROVE \E i \in 1..Len(T) : T[i].slot = r
  <2>1. PICK i \in 1..Len(q) : q[i].slot = r
    BY <1>2
  <2>2. i - 1 \in 1..Len(T) /\ T[i - 1] = q[i]
    <3>1. i # 1
      BY <1>1, <2>1
    <3>2. i - 1 \in 1..(Len(q) - 1) /\ (i - 1) + 1 = i
      BY <1>1, <3>1
    <3> QED BY <1>1, <3>2
  <2> QED BY <2>1, <2>2
<1>5. ASSUME NEW i \in 1..Len(T), NEW j \in 1..Len(T), T[i].slot = T[j].slot PROVE i = j
  <2>1. i + 1 = j + 1
    BY <1>2, <1>3, <1>5
  <2> QED BY <1>1, <2>1
<1>6. LinesUp(T, A \ {h})
  BY <1>3, <1>4, <1>5 DEF LinesUp
<1> QED BY <1>6 DEF T, h

\* Whoever was not in line joins at the end.
LEMMA AppendLinesUp ==
    ASSUME NEW q \in Seq(Waiter), NEW A, LinesUp(q, A), NEW s, s \notin A, NEW m
    PROVE  LinesUp(Append(q, [slot |-> s, mode |-> m]), A \union {s})
<1> DEFINE w == Append(q, [slot |-> s, mode |-> m])
<1>1. /\ Len(q) \in Nat /\ Len(w) = Len(q) + 1
      /\ \A i \in 1..Len(q) : w[i] = q[i]
      /\ w[Len(q) + 1].slot = s
  BY AppendElements
<1>2. /\ \A i \in 1..Len(q) : q[i].slot \in A
      /\ \A r \in A : \E i \in 1..Len(q) : q[i].slot = r
      /\ \A i, j \in 1..Len(q) : q[i].slot = q[j].slot => i = j
  BY DEF LinesUp
<1> HIDE DEF w
<1>3. \A i \in 1..Len(w) : i \in 1..Len(q) \/ i = Len(q) + 1
  BY <1>1
<1>4. \A i \in 1..Len(w) : w[i].slot \in A \union {s}
  BY <1>1, <1>2, <1>3
<1>5. \A r \in A \union {s} : \E i \in 1..Len(w) : w[i].slot = r
  <2>1. Len(q) + 1 \in 1..Len(w) /\ \A i \in 1..Len(q) : i \in 1..Len(w)
    BY <1>1
  <2> QED BY <1>1, <1>2, <2>1
<1>6. \A i, j \in 1..Len(w) : w[i].slot = w[j].slot => i = j
  BY <1>1, <1>2, <1>3
<1>7. LinesUp(w, A \union {s})
  BY <1>4, <1>5, <1>6 DEF LinesUp
<1> QED BY <1>7 DEF w

\* A future that is dropped leaves the line, wherever it stands.
LEMMA ForgetLinesUp ==
    ASSUME NEW l \in Lock, NEW A, LinesUp(l.queue, A), NEW s \in Slots
    PROVE  LinesUp(Forget(l, s).queue, A \ {s})
<1> DEFINE q == l.queue
           w == Forget(l, s).queue
<1>0. q \in Seq(Waiter) /\ Len(q) \in Nat
  BY LenProperties DEF Lock
<1>1. /\ \A i \in 1..Len(q) : q[i].slot \in A
      /\ \A r \in A : \E i \in 1..Len(q) : q[i].slot = r
      /\ \A i, j \in 1..Len(q) : q[i].slot = q[j].slot => i = j
  BY DEF LinesUp
<1>2. CASE w = q /\ \A i \in 1..Len(q) : q[i].slot # s
  BY <1>1, <1>2 DEF LinesUp
<1>3. ASSUME NEW k \in 1..Len(q), q[k].slot = s, w = RemoveAt(q, k)
      PROVE  LinesUp(w, A \ {s})
  <2> DEFINE f(i) == IF i < k THEN i ELSE i + 1
             g(i) == IF i < k THEN i ELSE i - 1
  <2>1. Len(w) = Len(q) - 1 /\ \A i \in 1..Len(w) : w[i] = IF i < k THEN q[i] ELSE q[i + 1]
    BY <1>0, <1>3, RemoveAtElements
  <2> HIDE DEF q, w
  <2>2. \A i \in 1..Len(w) : /\ f(i) \in 1..Len(q) /\ f(i) # k /\ w[i] = q[f(i)]
                             /\ \A j \in 1..Len(w) : f(i) = f(j) => i = j
    BY <1>0, <2>1
  <2>3. \A i \in 1..Len(q) : i # k => g(i) \in 1..Len(w) /\ f(g(i)) = i
    BY <1>0, <2>1
  <2> HIDE DEF f, g
  <2>4. \A i \in 1..Len(w) : w[i].slot \in A \ {s}
    BY <1>1, <1>3, <2>2
  <2>5. ASSUME NEW r \in A \ {s} PROVE \E i \in 1..Len(w) : w[i].slot = r
    <3>1. PICK i \in 1..Len(q) : q[i].slot = r
      BY <1>1
    <3>2. g(i) \in 1..Len(w) /\ w[g(i)] = q[i]
      BY <1>3, <2>2, <2>3, <3>1
    <3> QED BY <3>1, <3>2
  <2>6. \A i, j \in 1..Len(w) : w[i].slot = w[j].slot => i = j
    BY <1>1, <2>2
  <2> QED BY <2>4, <2>5, <2>6 DEF LinesUp
<1>4. \/ w = q /\ \A i \in 1..Len(q) : q[i].slot # s
      \/ \E k \in 1..Len(q) : q[k].slot = s /\ w = RemoveAt(q, k)
  BY ForgetQueue
<1> QED BY <1>2, <1>3, <1>4

\* A step of one handler changes who waits by that handler alone.
LEMMA OthersWait ==
    ASSUME NEW s \in Slots, OthersStay(s)
    PROVE  /\ AwaitDocs' \ {s} = AwaitDocs \ {s}
           /\ AwaitWs' \ {s} = AwaitWs \ {s}
  BY DEF OthersStay, AwaitDocs, AwaitWs

\* A handler's step moves it from line to line, never out of the one it is in
\* before its turn.
LEMMA RunWaits ==
    ASSUME ServerType, TextsPresent, WaitInv, NEW s \in Slots, Run(s)
    PROVE  WaitInv'
<1>0. /\ docLock.queue \in Seq(Waiter) /\ wsLock.queue \in Seq(Waiter)
      /\ LinesUp(docLock.queue, AwaitDocs) /\ LinesUp(wsLock.queue, AwaitWs)
  BY DEF ServerType, Lock, WaitInv
<1>1. AwaitDocs' \ {s} = AwaitDocs \ {s} /\ AwaitWs' \ {s} = AwaitWs \ {s}
  BY RunSteps, OthersWait
<1>2. LinesUp(docLock'.queue, AwaitDocs')
  <2>1. CASE QueueKept(s)
    <3>1. docLock'.queue = docLock.queue /\ s \notin AwaitDocs /\ s \notin AwaitDocs'
      BY <2>1 DEF QueueKept, Leaves, AwaitDocs
    <3>2. AwaitDocs' = AwaitDocs
      BY <1>1, <3>1
    <3> QED BY <1>0, <3>1, <3>2
  <2>2. CASE QueueJoins(s)
    <3>1. s \notin AwaitDocs /\ s \in AwaitDocs'
      BY <2>2 DEF QueueJoins, Waits, AwaitDocs
    <3>2. AwaitDocs' = AwaitDocs \union {s}
      BY <1>1, <3>1
    <3> QED BY <1>0, <2>2, <3>1, <3>2, AppendLinesUp DEF QueueJoins
  <2>3. CASE QueueTakes(s)
    <3>1. s \notin AwaitDocs'
      BY <2>3 DEF QueueTakes, Leaves, AwaitDocs
    <3>2. AwaitDocs' = AwaitDocs \ {s}
      BY <1>1, <3>1
    <3> QED BY <1>0, <2>3, <3>2, TailLinesUp DEF QueueTakes, AtHead
  <2>4. CASE QueueTurns(s)
    <3>1. s \in AwaitDocs'
      BY <2>4 DEF QueueTurns, Waits, AwaitDocs
    <3>2. AwaitDocs' = (AwaitDocs \ {s}) \union {s}
      BY <1>1, <3>1
    <3>3. LinesUp(Tail(docLock.queue), AwaitDocs \ {s}) /\ Tail(docLock.queue) \in Seq(Waiter)
      BY <1>0, <2>4, TailLinesUp, TailElements DEF QueueTurns, AtHead
    <3>4. PICK m \in Mode : docLock'.queue = Append(Tail(docLock.queue), [slot |-> s, mode |-> m])
      BY <2>4 DEF QueueTurns
    <3> DEFINE T == Tail(docLock.queue)
               A == AwaitDocs \ {s}
    <3>5. T \in Seq(Waiter) /\ LinesUp(T, A) /\ s \notin A
      BY <3>3
    <3> HIDE DEF T, A
    <3>6. LinesUp(Append(T, [slot |-> s, mode |-> m]), A \union {s})
      BY <3>5, AppendLinesUp
    <3> QED BY <3>2, <3>4, <3>6 DEF T, A
  <2> QED BY <2>1, <2>2, <2>3, <2>4, QueueMoves
<1>3. LinesUp(wsLock'.queue, AwaitWs')
  <2>1. CASE WsKept(s)
    <3>1. wsLock'.queue = wsLock.queue /\ s \notin AwaitWs /\ s \notin AwaitWs'
      BY <2>1 DEF WsKept, WaitsWs, AwaitWs
    <3>2. AwaitWs' = AwaitWs
      BY <1>1, <3>1
    <3> QED BY <1>0, <3>1, <3>2
  <2>2. CASE WsJoins(s)
    <3>1. s \notin AwaitWs /\ s \in AwaitWs'
      BY <2>2 DEF WsJoins, WaitsWs, AwaitWs
    <3>2. AwaitWs' = AwaitWs \union {s}
      BY <1>1, <3>1
    <3> QED BY <1>0, <2>2, <3>1, <3>2, AppendLinesUp DEF WsJoins
  <2>3. CASE WsTakes(s)
    <3>1. s \notin AwaitWs'
      BY <2>3 DEF WsTakes, WaitsWs, AwaitWs
    <3>2. AwaitWs' = AwaitWs \ {s}
      BY <1>1, <3>1
    <3> QED BY <1>0, <2>3, <3>2, TailLinesUp DEF WsTakes
  <2> QED BY <2>1, <2>2, <2>3, WsMoves
<1> QED BY <1>2, <1>3 DEF WaitInv

\* A handler that starts joins the line for the documents.
LEMMA AcceptWaits ==
    ASSUME ServerType, WaitInv, NEW s \in Slots, NEW m \in Message, Accept(s, m)
    PROVE  WaitInv'
<1>1. /\ docLock'.queue = Append(docLock.queue, [slot |-> s, mode |-> FirstAwait[m.kind][2]])
      /\ tasks[s] = Idle /\ tasks'[s] # Idle /\ tasks'[s].pc \in PcDocs
      /\ \A r \in Slots \ {s} : tasks'[r] = tasks[r]
      /\ wsLock' = wsLock
  BY AcceptLetter DEF Accept
<1>2. \A pc \in PcDocs : pc \notin PcWs
  BY DEF PcDocs, PcWs
<1>3. s \notin AwaitDocs /\ AwaitDocs' = AwaitDocs \union {s} /\ AwaitWs' = AwaitWs
  BY <1>1, <1>2 DEF AwaitDocs, AwaitWs
<1> QED BY <1>1, <1>3, AppendLinesUp DEF WaitInv, ServerType, Lock

\* A request that is cancelled leaves both lines.
LEMMA DropWaits ==
    ASSUME ServerType, WaitInv, NEW s \in Slots, CancelRequest(s)
    PROVE  WaitInv'
<1>1. /\ docLock' = Forget(docLock, s) /\ wsLock' = Forget(wsLock, s) /\ tasks'[s] = Idle
      /\ \A r \in Slots \ {s} : tasks'[r] = tasks[r]
  BY DEF CancelRequest, Return, ServerType, TasksType
<1>2. AwaitDocs' = AwaitDocs \ {s} /\ AwaitWs' = AwaitWs \ {s}
  BY <1>1 DEF AwaitDocs, AwaitWs
<1> QED BY <1>1, <1>2, ForgetLinesUp DEF WaitInv, ServerType

LEMMA NextWaits == TypeInv /\ WaitInv /\ [Next]_vars => WaitInv'
<1> SUFFICES ASSUME TypeInv, WaitInv, [Next]_vars PROVE WaitInv'
  OBVIOUS
<1>0. ServerType /\ TextsPresent /\ inbox \in Seq(Message)
  BY TypeSplit DEF TypeInv
<1>1. ASSUME NEW s \in Slots, Deliver(s) PROVE WaitInv'
  <2>1. PICK i \in 1..Len(inbox) : Accept(s, inbox[i])
    BY <1>1 DEF Deliver
  <2>2. inbox[i] \in Message
    BY <1>0, ElementOfSeq
  <2> QED BY <1>0, <2>1, <2>2, AcceptWaits
<1>2. ASSUME NEW s \in Slots, RunHandler(s) PROVE WaitInv'
  BY <1>0, <1>2, RunWaits DEF RunHandler
<1>3. ASSUME NEW s \in Slots, DropRequest(s) PROVE WaitInv'
  BY <1>0, <1>3, DropWaits DEF DropRequest
<1>4. CASE docLock' = docLock /\ wsLock' = wsLock /\ tasks' = tasks
  BY <1>4 DEF WaitInv, AwaitDocs, AwaitWs
<1>5. \/ docLock' = docLock /\ wsLock' = wsLock /\ tasks' = tasks
      \/ \E s \in Slots : Deliver(s) \/ RunHandler(s) \/ DropRequest(s)
  BY DEF Next, vars, serverVars, Rest, ClientOpen, ClientSave, ClientClose, ClientChange, ClientRequest
<1> QED BY <1>1, <1>2, <1>3, <1>4, <1>5

LEMMA InitWaits == Init => WaitInv
<1> SUFFICES ASSUME Init PROVE WaitInv
  OBVIOUS
<1>1. docLock.queue = << >> /\ wsLock.queue = << >> /\ AwaitDocs = {} /\ AwaitWs = {}
  BY DEF Init, Unlocked, AwaitDocs, AwaitWs
<1>2. Len(<< >>) = 0
  OBVIOUS
<1> QED BY <1>1, <1>2 DEF WaitInv, LinesUp

\* So whoever queues for the documents lock awaits it, and queues once.
LEMMA WaitQueue == WaitInv => QueueInv
  BY DEF WaitInv, LinesUp, AwaitDocs, QueueInv

\* What a handler's step does to what the server holds: a notification that fits
\* takes effect, and no step in between changes the text or the version.
LEMMA HeldMoves ==
    ASSUME ServerType, TextsPresent, FreshInv, NEW s \in Slots, Run(s), NEW u \in Uris, NEW W,
           Letter(tasks[s]).uri = u => Fits(Held(u), Letter(tasks[s]), W)
    PROVE  Held(u)' = IF Moves(Letter(tasks[s]), u) THEN After(Letter(tasks[s])) ELSE Held(u)
<1> DEFINE t == tasks[s]
           m == Letter(t)
<1>0. /\ t # Idle /\ t \in Task /\ RunsFrom(s) /\ Serves(t)
      /\ docs \in [Uris -> Document \union {NoDoc}] /\ tasks \in TasksType
  BY RunFrom DEF ServerType, TasksType, FreshInv
<1>m. m.uri = t.uri /\ m.text = t.text /\ m.base = t.base /\ m.version = t.version
  BY DEF Letter
<1>d. /\ docs' [u] = docs[u] => Held(u)' = Held(u)
      /\ \A x \in Texts, v \in Version :
            docs'[u] = NewDocument(x, v) => Held(u)' = [text |-> x, version |-> v]
  <2>1. \A x \in Texts, v \in Version : NewDocument(x, v) # NoDoc
    BY DocumentType, LspAssumption
  <2> QED BY <2>1 DEF Held, IsOpen, NewDocument
<1>e. IsOpen(u) => /\ Held(u).text = docs[u].source /\ Held(u).version = docs[u].version
                   /\ docs[u] \in Document /\ Held(u).text # NoText
  <2>1. \A k \in Document : k.source # NoText
    BY LspAssumption DEF Document
  <2> QED BY <1>0, <2>1 DEF Held, IsOpen
<1>f. ~ IsOpen(u) => Held(u) = Closed /\ Held(u).text = NoText
  BY DEF Held, Closed
<1>1. CASE t.uri # u
  <2>1. docs'[u] = docs[u]
    BY <1>1, OwnDocument
  <2> QED BY <1>1, <1>d, <1>m, <2>1 DEF Moves
<1>2. CASE t.uri = u
  <2>F. Fits(Held(u), m, W)
    BY <1>2, <1>m
  <2>T. t.version \in Version
    BY <1>0 DEF Task
  <2>1. CASE t.pc = "install"
    <3>1. t.kind = "open" /\ m.kind = "open" /\ t.text \in Texts
      BY <1>0, <2>1 DEF Serves, Letter, First, TextsPresent, At
    <3>2. ~ IsOpen(u)
      BY <1>e, <2>F, <3>1 DEF Fits, Closed
    <3>3. InstallNew(s)
      BY <1>0, <1>2, <2>1, <3>2 DEF RunsFrom, InstallNewer, InstallStale
    <3>4. docs'[u] = NewDocument(t.text, t.version)
      BY <1>0, <1>2, <3>3 DEF InstallNew
    <3>5. Moves(m, u) /\ After(m) = [text |-> t.text, version |-> t.version]
      BY <1>2, <1>m, <3>1 DEF Moves, After
    <3> QED BY <1>d, <2>T, <3>1, <3>4, <3>5
  <2>2. CASE t.pc = "apply"
    <3>1. t.kind = "change" /\ m.kind = "change" /\ t.text \in Texts
      BY <1>0, <2>2 DEF Serves, Letter, First, TextsPresent, At
    <3>2. IsOpen(u) /\ t.base \in {docs[u].source, NoText} /\ t.version > docs[u].version
      BY <1>e, <1>f, <1>m, <2>F, <3>1 DEF Fits
    <3>3. ApplyChanges(docs[u].source, t.base, t.text) = {t.text} /\ t.text # NoText
      BY <3>1, <3>2, LspAssumption DEF ApplyChanges
    <3>4. IsNewer(u, t.version)
      BY <1>e, <2>T, <3>2 DEF IsNewer, Document, Version
    <3>5. ApplyChange(s)
      BY <1>0, <1>2, <2>2, <3>2, <3>3, <3>4 DEF RunsFrom, RejectChange
    <3>6. PICK x \in {t.text} : docs' = [docs EXCEPT ![u] = NewDocument(x, t.version)]
      BY <1>2, <3>3, <3>5 DEF ApplyChange
    <3>7. docs'[u] = NewDocument(t.text, t.version)
      BY <1>0, <3>6
    <3>8. Moves(m, u) /\ After(m) = [text |-> t.text, version |-> t.version]
      BY <1>2, <1>m, <3>1 DEF Moves, After
    <3> QED BY <1>d, <2>T, <3>1, <3>7, <3>8
  <2>3. CASE t.pc = "remove"
    <3>1. m.kind = "close" /\ CloseDocument(s)
      BY <1>0, <2>3 DEF Serves, Letter, First, RunsFrom
    <3>2. docs'[u] = NoDoc
      BY <1>0, <1>2, <3>1 DEF CloseDocument
    <3>3. Held(u)' = Closed
      BY <3>2 DEF Held, IsOpen
    <3> QED BY <1>2, <1>m, <3>1, <3>3 DEF Moves, After
  <2>4. CASE t.pc \notin {"install", "apply", "remove"}
    <3>1. ~ Moves(m, u)
      BY <1>0, <2>4 DEF Moves, Letter, First, Serves, RequestKind
    <3>2. docs' = docs \/ CommitReport(s)
      BY <2>4, RunDocs DEF InstallNew, InstallNewer, ApplyChange, CloseDocument, At
    <3>3. CASE CommitReport(s)
      <4>1. docs'[u] = [docs[u] EXCEPT !.report = t.text] /\ IsOpen(u) /\ t.text = docs[u].source
        BY <1>0, <1>2, <3>3 DEF CommitReport, IsGeneration
      <4>2. docs'[u].source = docs[u].source /\ docs'[u].version = docs[u].version /\ docs'[u] \in Document
        BY <1>e, <4>1 DEF Document
      <4>3. Held(u)' = Held(u)
        BY <4>1, <4>2, LspAssumption DEF Held, IsOpen
      <4> QED BY <3>1, <4>3
    <3> QED BY <1>d, <3>1, <3>2, <3>3
  <2> QED BY <2>1, <2>2, <2>3, <2>4
<1> QED BY <1>1, <1>2

\* The line as a function.
LEMMA LineElements ==
    ASSUME docLock.queue \in Seq(Waiter), inbox \in Seq(Message)
    PROVE  /\ Queued \in Nat /\ Len(inbox) \in Nat
           /\ \A i \in 1..Queued : Line[i] = Letter(tasks[docLock.queue[i].slot])
           /\ \A i \in 1..Len(inbox) : Line[Queued + i] = inbox[i]
<1>1. Queued \in Nat /\ Len(inbox) \in Nat
  BY LenProperties DEF Queued
<1>2. ASSUME NEW i \in 1..Queued PROVE Line[i] = Letter(tasks[docLock.queue[i].slot])
  <2>1. i \in 1..(Queued + Len(inbox)) /\ i <= Queued
    BY <1>1
  <2> QED BY <2>1 DEF Line
<1>3. ASSUME NEW i \in 1..Len(inbox) PROVE Line[Queued + i] = inbox[i]
  <2>1. Queued + i \in 1..(Queued + Len(inbox)) /\ ~ (Queued + i <= Queued) /\ (Queued + i) - Queued = i
    BY <1>1
  <2> QED BY <2>1 DEF Line
<1> QED BY <1>1, <1>2, <1>3

\* The line after the step, told in the same way.
LEMMA LineElementsNext ==
    ASSUME docLock'.queue \in Seq(Waiter), inbox' \in Seq(Message)
    PROVE  /\ Queued' = Len(docLock'.queue) /\ Queued' \in Nat /\ Len(inbox') \in Nat
           /\ \A i \in 1..Queued' : Line'[i] = Letter(tasks'[docLock'.queue[i].slot])
           /\ \A i \in 1..Len(inbox') : Line'[Queued' + i] = inbox'[i]
<1>1. Queued' = Len(docLock'.queue) /\ Queued' \in Nat /\ Len(inbox') \in Nat
  BY LenProperties DEF Queued
<1>2. ASSUME NEW i \in 1..Queued' PROVE Line'[i] = Letter(tasks'[docLock'.queue[i].slot])
  <2>1. i \in 1..(Queued' + Len(inbox')) /\ i <= Queued'
    BY <1>1
  <2> QED BY <2>1 DEF Line, Letter
<1>3. ASSUME NEW i \in 1..Len(inbox') PROVE Line'[Queued' + i] = inbox'[i]
  <2>1. Queued' + i \in 1..(Queued' + Len(inbox')) /\ ~ (Queued' + i <= Queued') /\ (Queued' + i) - Queued' = i
    BY <1>1
  <2> QED BY <2>1 DEF Line
<1> QED BY <1>1, <1>2, <1>3

\* A handler's step keeps the line in step with the documents.
LEMMA RunFollows ==
    ASSUME TypeInv, TypeInv', FreshInv, QueueInv, NEW s \in Slots, Run(s), UNCHANGED clientVars,
           NEW u \in Uris, Chain(Line, Queued + Len(inbox), u, Held(u), Kept(u), written[u])
    PROVE  Chain(Line, Queued + Len(inbox), u, Held(u), Kept(u), written[u])'
<1> DEFINE q == docLock.queue
           k == Len(q)
           n == k + Len(inbox)
           W == written[u]
           e == Kept(u)
           d == Held(u)
           m == Letter(tasks[s])
           Q == docLock'.queue
<1>0. ServerType /\ TextsPresent /\ tasks \in TasksType /\ q \in Seq(Waiter) /\ inbox \in Seq(Message)
      /\ Q \in Seq(Waiter)
  BY TypeSplit DEF TypeInv, ServerType, Lock
<1>c. inbox' = inbox /\ Kept(u)' = e /\ written' = written
  BY DEF clientVars, Kept
<1>L. /\ k \in Nat /\ Len(inbox) \in Nat
      /\ \A i \in 1..k : Line[i] = Letter(tasks[q[i].slot])
      /\ \A i \in 1..Len(inbox) : Line[k + i] = inbox[i]
  BY <1>0, LineElements DEF Queued
<1>M. /\ Queued' = Len(Q) /\ Len(Q) \in Nat
      /\ \A i \in 1..Len(Q) : Line'[i] = Letter(tasks'[Q[i].slot])
      /\ \A i \in 1..Len(inbox) : Line'[Len(Q) + i] = inbox[i]
  BY <1>0, <1>c, LineElementsNext
<1>o. \A i \in 1..k : q[i].slot # s => Letter(tasks'[q[i].slot]) = Letter(tasks[q[i].slot])
  BY <1>0, WaitersAreSlots, OthersLetter DEF QueueInv
<1>s. \A i \in 1..k : tasks[q[i].slot].pc \in PcDocs
  BY DEF QueueInv
<1>h. (m.uri = u => Fits(d, m, W)) => Held(u)' = IF Moves(m, u) THEN After(m) ELSE d
  BY <1>0, HeldMoves
<1>q. Chain(Line, n, u, d, e, W)
  BY DEF Queued
<1>g. Chain(Line', Len(Q) + Len(inbox), u, Held(u)', e, W)
        => Chain(Line, Queued + Len(inbox), u, Held(u), Kept(u), written[u])'
  BY <1>c, <1>M DEF Chain, LastMove, StateAt, Moves, Fits, After, Closed
<1>u. tasks[s].pc \notin PcDocs => Held(u)' = d
  <2>1. SUFFICES ASSUME tasks[s].pc \notin PcDocs PROVE Held(u)' = d
    OBVIOUS
  <2>2. tasks[s].pc \notin First
    BY <2>1 DEF First, PcDocs
  <2>3. Quiet(m, u)
    BY <2>2, LetterQuiet
  <2>4. ~ Moves(m, u) /\ (m.uri = u => Fits(d, m, W))
    BY <2>3, QuietFits
  <2> QED BY <1>h, <2>4
<1>w. Waits(s) => Quiet(Letter(tasks'[s]), u)
  <2>1. SUFFICES ASSUME Waits(s) PROVE Quiet(Letter(tasks'[s]), u)
    OBVIOUS
  <2>2. tasks'[s].pc \notin First
    BY <1>0, <2>1, RunMoves DEF Waits, ComesFrom, First
  <2> QED BY <2>2, LetterQuiet
<1> HIDE DEF q, k, n, W, e, d, m, Q
<1>1. CASE QueueKept(s)
  <2>1. Q = q /\ Len(Q) = k /\ tasks[s].pc \notin PcDocs
    BY <1>1 DEF QueueKept, q, Q, k
  <2>2. \A i \in 1..k : q[i].slot # s
    BY <2>1, <1>s
  <2>3. ASSUME NEW i \in 1..n PROVE Line'[i] = Line[i]
    <3>1. CASE i <= k
      BY <1>L, <1>M, <1>o, <2>1, <2>2, <3>1
    <3>2. CASE i > k
      <4>1. i - k \in 1..Len(inbox) /\ k + (i - k) = i
        BY <1>L, <3>2 DEF n
      <4> QED BY <1>L, <1>M, <2>1, <4>1
    <3> QED BY <1>L, <3>1, <3>2 DEF n
  <2>4. n \in Nat
    BY <1>L DEF n
  <2>5. Chain(Line', n, u, d, e, W)
    BY <1>q, <2>3, <2>4, ChainSame
  <2> QED BY <1>g, <1>u, <2>1, <2>5 DEF n
<1>2. CASE QueueJoins(s)
  <2>1. PICK x \in Mode : Q = Append(q, [slot |-> s, mode |-> x])
    BY <1>2 DEF QueueJoins, q, Q
  <2>2. tasks[s].pc \notin PcDocs /\ Waits(s)
    BY <1>2 DEF QueueJoins
  <2>3. Len(Q) = k + 1 /\ (\A i \in 1..k : Q[i] = q[i]) /\ Q[k + 1].slot = s
    BY <1>0, <2>1, AppendElements DEF k
  <2>4. \A i \in 1..k : q[i].slot # s
    BY <2>2, <1>s
  <2>5. ASSUME NEW i \in 1..k PROVE Line'[i] = Line[i]
    BY <1>L, <1>M, <1>o, <2>3, <2>4
  <2>6. ASSUME NEW i \in (k + 1)..n PROVE Line'[i + 1] = Line[i]
    <3> DEFINE j == i - k
    <3>1. j \in 1..Len(inbox)
      BY <1>L DEF n
    <3>2. i = k + j /\ i + 1 = Len(Q) + j
      BY <1>L, <2>3
    <3> HIDE DEF j
    <3>3. Line'[Len(Q) + j] = inbox[j] /\ Line[k + j] = inbox[j]
      BY <1>L, <1>M, <3>1
    <3> QED BY <3>2, <3>3
  <2>7. Quiet(Line'[k + 1], u)
    <3>1. k + 1 \in 1..Len(Q)
      BY <1>L, <2>3
    <3>2. Line'[k + 1] = Letter(tasks'[s])
      BY <1>M, <2>3, <3>1
    <3> QED BY <1>w, <2>2, <3>2
  <2>8. n \in Nat /\ k \in 0..n /\ Len(Q) + Len(inbox) = n + 1
    BY <1>L, <2>3 DEF n
  <2>9. Chain(Line', n + 1, u, d, e, W)
    BY <1>q, <2>5, <2>6, <2>7, <2>8, ChainInsert
  <2> QED BY <1>g, <1>u, <2>2, <2>8, <2>9
<1>3. CASE QueueTakes(s) \/ QueueTurns(s)
  <2>1. q # << >> /\ Head(q).slot = s
    BY <1>3 DEF QueueTakes, QueueTurns, AtHead, q
  <2> DEFINE T == Tail(q)
             c == IF Moves(m, u) THEN After(m) ELSE d
             M == [i \in 1..(n - 1) |-> Line[i + 1]]
  <2>2. /\ T \in Seq(Waiter) /\ k > 0 /\ Len(T) = k - 1 /\ q[1].slot = s
        /\ \A i \in 1..(k - 1) : T[i] = q[i + 1]
    BY <1>0, <2>1, TailElements DEF k
  <2>3. n \in Nat /\ n > 0 /\ 1 \in 1..k
    BY <1>L, <2>2 DEF n
  <2>4. Line[1] = m
    BY <1>L, <2>2, <2>3 DEF m
  <2>5. \A i \in 1..(n - 1) : M[i] = Line[i + 1]
    OBVIOUS
  <2> HIDE DEF T, M
  <2>6. (m.uri = u => Fits(d, m, W)) /\ Chain(M, n - 1, u, c, e, W)
    BY <1>q, <2>3, <2>4, <2>5, ChainTail
  <2>7. Held(u)' = c
    BY <1>h, <2>6
  <2> HIDE DEF c
  <2>8. ASSUME NEW i \in 1..(k - 1)
        PROVE  Letter(tasks'[T[i].slot]) = M[i]
    <3>1. i + 1 \in 1..k /\ i + 1 # 1 /\ 1 \in 1..k /\ i \in 1..(n - 1)
      BY <1>L, <2>3 DEF n
    <3>2. q[i + 1].slot # s
      BY <2>2, <3>1 DEF QueueInv, q, k
    <3> QED BY <1>L, <1>o, <2>2, <2>5, <3>1, <3>2
  <2>9. ASSUME NEW i \in 1..Len(inbox)
        PROVE  M[(k - 1) + i] = inbox[i]
    <3>1. (k - 1) + i \in 1..(n - 1) /\ ((k - 1) + i) + 1 = k + i
      BY <1>L, <2>2 DEF n
    <3> QED BY <1>L, <2>5, <3>1
  <2>10. CASE QueueTakes(s)
    <3>1. Q = T
      BY <2>10 DEF QueueTakes, q, T, Q
    <3>2. ASSUME NEW i \in 1..(n - 1) PROVE Line'[i] = M[i]
      <4>1. CASE i <= k - 1
        <5>1. i \in 1..Len(Q) /\ i \in 1..(k - 1)
          BY <1>L, <2>2, <3>1, <4>1
        <5> QED BY <1>M, <2>8, <3>1, <5>1
      <4>2. CASE i > k - 1
        <5>1. i - (k - 1) \in 1..Len(inbox) /\ (k - 1) + (i - (k - 1)) = i
          BY <1>L, <2>2, <4>2 DEF n
        <5> QED BY <1>M, <2>2, <2>9, <3>1, <5>1
      <4> QED BY <1>L, <4>1, <4>2
    <3>0. Len(Q) = k - 1
      BY <2>2, <3>1
    <3>3. n - 1 \in Nat /\ Len(Q) + Len(inbox) = n - 1
      BY <1>L, <2>3, <3>0 DEF n
    <3>4. Chain(Line', n - 1, u, c, e, W)
      BY <2>6, <3>2, <3>3, ChainSame
    <3> QED BY <1>g, <2>7, <3>3, <3>4
  <2>11. CASE QueueTurns(s)
    <3>1. PICK x \in Mode : Q = Append(T, [slot |-> s, mode |-> x])
      BY <2>11 DEF QueueTurns, q, T, Q
    <3>2. Len(Q) = k /\ (\A i \in 1..(k - 1) : Q[i] = T[i]) /\ Q[k].slot = s
      <4>1. /\ Len(Q) = Len(T) + 1 /\ (\A i \in 1..Len(T) : Q[i] = T[i])
            /\ Q[Len(T) + 1].slot = s
        BY <2>2, <3>1, AppendElements
      <4>2. Len(T) + 1 = k
        BY <1>L, <2>2
      <4> QED BY <2>2, <4>1, <4>2
    <3>3. ASSUME NEW i \in 1..(k - 1) PROVE Line'[i] = M[i]
      <4>1. i \in 1..Len(Q)
        BY <1>L, <3>2
      <4> QED BY <1>M, <2>8, <3>2, <4>1
    <3>4. ASSUME NEW i \in ((k - 1) + 1)..(n - 1) PROVE Line'[i + 1] = M[i]
      <4>1. i - (k - 1) \in 1..Len(inbox) /\ (k - 1) + (i - (k - 1)) = i /\ k + (i - (k - 1)) = i + 1
        BY <1>L, <2>2 DEF n
      <4> QED BY <1>M, <2>9, <3>2, <4>1
    <3>5. Quiet(Line'[(k - 1) + 1], u)
      <4>1. k \in 1..Len(Q) /\ (k - 1) + 1 = k
        BY <1>L, <2>2, <3>2
      <4>2. Line'[k] = Letter(tasks'[s])
        BY <1>M, <3>2, <4>1
      <4>3. Waits(s)
        BY <2>11 DEF QueueTurns
      <4> QED BY <1>w, <4>1, <4>2, <4>3
    <3>6. n - 1 \in Nat /\ k - 1 \in 0..(n - 1) /\ Len(Q) + Len(inbox) = n /\ (n - 1) + 1 = n
      BY <1>L, <2>2, <2>3, <3>2 DEF n
    <3>7. Chain(Line', (n - 1) + 1, u, c, e, W)
      BY <2>6, <3>3, <3>4, <3>5, <3>6, ChainInsert
    <3> QED BY <1>g, <2>7, <3>6, <3>7
  <2> QED BY <1>3, <2>10, <2>11
<1> QED BY <1>0, <1>1, <1>2, <1>3, QueueMoves

\* What the editor sends fits what it has, and follows what is on its way.
LEMMA SendFollows ==
    ASSUME TypeInv, NEW m \in Message, Send(m), docLock' = docLock, tasks' = tasks, docs' = docs,
           NEW u \in Uris, written[u] \subseteq written'[u],
           m.uri = u => Fits(Kept(u), m, written'[u]),
           Kept(u)' = IF Moves(m, u) THEN After(m) ELSE Kept(u),
           Chain(Line, Queued + Len(inbox), u, Held(u), Kept(u), written[u])
    PROVE  Chain(Line, Queued + Len(inbox), u, Held(u), Kept(u), written[u])'
<1> DEFINE q == docLock.queue
           n == Queued + Len(inbox)
           d == Held(u)
           e == Kept(u)
           V == written'[u]
           f == IF Moves(m, u) THEN After(m) ELSE e
           X == inbox'
<1>0. q \in Seq(Waiter) /\ inbox \in Seq(Message) /\ Queued' = Queued /\ Held(u)' = d
  BY TypeSplit DEF TypeInv, ServerType, Lock, Queued, Held, IsOpen
<1>1. X \in Seq(Message) /\ Len(inbox) \in Nat /\ Len(X) = Len(inbox) + 1
      /\ (\A i \in 1..Len(inbox) : X[i] = inbox[i]) /\ X[Len(inbox) + 1] = m
  BY <1>0, AppendProperties, LenProperties DEF Send
<1>L. /\ Queued \in Nat
      /\ \A i \in 1..Queued : Line[i] = Letter(tasks[q[i].slot])
      /\ \A i \in 1..Len(inbox) : Line[Queued + i] = inbox[i]
  BY <1>0, LineElements
<1>M. /\ \A i \in 1..Queued : Line'[i] = Letter(tasks[q[i].slot])
      /\ \A i \in 1..Len(X) : Line'[Queued + i] = X[i]
  BY <1>0, <1>1, LineElementsNext
<1>q. Chain(Line, n, u, d, e, written[u])
  OBVIOUS
<1>g. Chain(Line', Queued + Len(X), u, d, f, V)
        => Chain(Line, Queued + Len(inbox), u, Held(u), Kept(u), written[u])'
  BY <1>0 DEF Chain, LastMove, StateAt, Moves, Fits, After, Closed
<1> HIDE DEF q, d, e, V, f, X
<1>2. ASSUME NEW i \in 1..n PROVE Line'[i] = Line[i]
  <2>1. CASE i <= Queued
    BY <1>L, <1>M, <2>1
  <2>2. CASE i > Queued
    <3> DEFINE j == i - Queued
    <3>1. j \in 1..Len(inbox) /\ i = Queued + j /\ j \in 1..Len(X)
      BY <1>1, <1>L, <2>2
    <3> HIDE DEF j
    <3>2. Line'[Queued + j] = inbox[j] /\ Line[Queued + j] = inbox[j]
      BY <1>1, <1>L, <1>M, <3>1
    <3> QED BY <3>1, <3>2
  <2> QED BY <1>1, <1>L, <2>1, <2>2
<1>3. n \in Nat /\ Queued + Len(X) = n + 1 /\ Line'[n + 1] = m
  <2>1. n \in Nat /\ Queued + Len(X) = n + 1 /\ n + 1 = Queued + (Len(inbox) + 1)
    BY <1>1, <1>L
  <2>2. Len(inbox) + 1 \in 1..Len(X)
    BY <1>1
  <2>3. Line'[Queued + (Len(inbox) + 1)] = m
    BY <1>1, <1>M, <2>2
  <2> QED BY <2>1, <2>3
<1> HIDE DEF n
<1>4. Chain(Line, n, u, d, e, V)
  BY <1>3, <1>q, ChainSame DEF V
<1>5. Chain(Line', n + 1, u, d, f, V)
  BY <1>2, <1>3, <1>4, ChainAppend DEF e, V, f
<1> QED BY <1>3, <1>5, <1>g

\* The transport that starts messages in order moves the first from one queue
\* to the end of the other.
LEMMA DeliverFollows ==
    ASSUME TypeInv, TypeInv', QueueInv, NEW s \in Slots, Window = 1, Deliver(s), NEW u \in Uris,
           Chain(Line, Queued + Len(inbox), u, Held(u), Kept(u), written[u])
    PROVE  Chain(Line, Queued + Len(inbox), u, Held(u), Kept(u), written[u])'
<1> DEFINE q == docLock.queue
           k == Len(q)
           n == k + Len(inbox)
           d == Held(u)
           e == Kept(u)
           W == written[u]
           X == inbox'
           Q == docLock'.queue
<1>0. ServerType /\ q \in Seq(Waiter) /\ inbox \in Seq(Message)
  BY TypeSplit DEF TypeInv, ServerType, Lock
<1>X. X \in Seq(Message) /\ Q \in Seq(Waiter)
  BY TypeSplit DEF TypeInv, ServerType, Lock
<1>1. PICK i \in 1..Len(inbox) :
        /\ i <= Window
        /\ Accept(s, inbox[i])
        /\ inbox' = RemoveAt(inbox, i)
        /\ UNCHANGED <<editor, left, written>>
  BY DEF Deliver
<1>2. i = 1 /\ Len(inbox) \in Nat /\ 1 \in 1..Len(inbox) /\ inbox[1] \in Message
  BY <1>0, <1>1, LenProperties, ElementOfSeq
<1>3. /\ Q = Append(q, [slot |-> s, mode |-> FirstAwait[inbox[1].kind][2]])
      /\ tasks[s] = Idle
      /\ Letter(tasks'[s]) = inbox[1]
      /\ \A r \in Slots \ {s} : tasks'[r] = tasks[r]
  BY <1>0, <1>1, <1>2, AcceptLetter
<1>4. k \in Nat /\ Len(Q) = k + 1 /\ (\A j \in 1..k : Q[j] = q[j]) /\ Q[k + 1].slot = s
  BY <1>0, <1>3, AppendElements
<1>5. Len(X) = Len(inbox) - 1 /\ \A j \in 1..Len(X) : X[j] = inbox[j + 1]
  <2>1. /\ Len(X) = Len(inbox) - 1
        /\ \A j \in 1..Len(X) : X[j] = IF j < 1 THEN inbox[j] ELSE inbox[j + 1]
    BY <1>0, <1>1, <1>2, RemoveAtElements
  <2> QED BY <2>1
<1>6. \A j \in 1..k : q[j].slot \in Slots \ {s}
  BY <1>0, <1>3, WaitersAreSlots DEF QueueInv
<1>c. Kept(u)' = e /\ written' = written /\ Held(u)' = d
  BY <1>1 DEF Kept, Held, IsOpen, Accept
<1>L. /\ \A j \in 1..k : Line[j] = Letter(tasks[q[j].slot])
      /\ \A j \in 1..Len(inbox) : Line[k + j] = inbox[j]
  BY <1>0, LineElements DEF Queued
<1>M. /\ Queued' = Len(Q)
      /\ \A j \in 1..Len(Q) : Line'[j] = Letter(tasks'[Q[j].slot])
      /\ \A j \in 1..Len(X) : Line'[Len(Q) + j] = X[j]
  BY <1>X, LineElementsNext
<1>q. Chain(Line, n, u, d, e, W)
  BY DEF Queued
<1>g. Chain(Line', Len(Q) + Len(X), u, d, e, W)
        => Chain(Line, Queued + Len(inbox), u, Held(u), Kept(u), written[u])'
  BY <1>c, <1>M DEF Chain, LastMove, StateAt, Moves, Fits, After, Closed
<1> HIDE DEF q, k, d, e, W, X, Q
<1>7. ASSUME NEW j \in 1..n PROVE Line'[j] = Line[j]
  <2>1. CASE j <= k
    <3>1. j \in 1..k /\ j \in 1..Len(Q)
      BY <1>2, <1>4, <2>1
    <3> QED BY <1>3, <1>4, <1>6, <1>L, <1>M, <3>1
  <2>2. CASE j = k + 1
    <3>1. j \in 1..Len(Q) /\ 1 \in 1..Len(inbox)
      BY <1>2, <1>4, <2>2
    <3>2. Line'[j] = inbox[1]
      BY <1>3, <1>4, <1>M, <2>2, <3>1
    <3> QED BY <1>L, <2>2, <3>1, <3>2
  <2>3. CASE j > k + 1
    <3> DEFINE h == j - (k + 1)
    <3>1. h \in 1..Len(X) /\ j = Len(Q) + h /\ j = k + (h + 1) /\ h + 1 \in 1..Len(inbox)
      BY <1>2, <1>4, <1>5, <2>3
    <3> HIDE DEF h
    <3>2. Line'[Len(Q) + h] = inbox[h + 1]
      BY <1>5, <1>M, <3>1
    <3>3. Line[k + (h + 1)] = inbox[h + 1]
      BY <1>L, <3>1
    <3> QED BY <3>1, <3>2, <3>3
  <2> QED BY <1>2, <1>4, <2>1, <2>2, <2>3
<1>8. n \in Nat /\ Len(Q) + Len(X) = n
  BY <1>2, <1>4, <1>5
<1> HIDE DEF n
<1>9. Chain(Line', n, u, d, e, W)
  BY <1>7, <1>8, <1>q, ChainSame
<1> QED BY <1>8, <1>9, <1>g

\* A request that is dropped was of no concern to any document.
LEMMA DropFollows ==
    ASSUME TypeInv, TypeInv', QueueInv, NEW s \in Slots, DropRequest(s), NEW u \in Uris,
           Chain(Line, Queued + Len(inbox), u, Held(u), Kept(u), written[u])
    PROVE  Chain(Line, Queued + Len(inbox), u, Held(u), Kept(u), written[u])'
<1> DEFINE q == docLock.queue
           k == Len(q)
           n == k + Len(inbox)
           d == Held(u)
           e == Kept(u)
           W == written[u]
           Q == docLock'.queue
<1>0. ServerType /\ q \in Seq(Waiter) /\ inbox \in Seq(Message)
  BY TypeSplit DEF TypeInv, ServerType, Lock
<1>X. inbox' = inbox /\ Q \in Seq(Waiter) /\ CancelRequest(s)
  BY TypeSplit DEF TypeInv, ServerType, Lock, DropRequest, clientVars
<1>y. inbox' = inbox
  BY <1>X
<1>1. /\ docLock' = Forget(docLock, s) /\ tasks[s].kind \in RequestKind
      /\ \A r \in Slots \ {s} : tasks'[r] = tasks[r]
  BY <1>0, <1>X DEF CancelRequest, Return, ServerType, TasksType
<1>c. Kept(u)' = e /\ written' = written /\ Held(u)' = d
  BY DEF Kept, Held, IsOpen, DropRequest, CancelRequest, clientVars
<1>L. /\ k \in Nat /\ Len(inbox) \in Nat
      /\ \A j \in 1..k : Line[j] = Letter(tasks[q[j].slot])
      /\ \A j \in 1..Len(inbox) : Line[k + j] = inbox[j]
  BY <1>0, LineElements DEF Queued
<1>M. /\ Queued' = Len(Q)
      /\ \A j \in 1..Len(Q) : Line'[j] = Letter(tasks'[Q[j].slot])
      /\ \A j \in 1..Len(inbox) : Line'[Len(Q) + j] = inbox[j]
  BY <1>0, <1>X, LineElementsNext
<1>q. Chain(Line, n, u, d, e, W)
  BY DEF Queued
<1>g. Chain(Line', Len(Q) + Len(inbox), u, d, e, W)
        => Chain(Line, Queued + Len(inbox), u, Held(u), Kept(u), written[u])'
  <2>1. Len(Q) + Len(inbox) = Queued' + Len(inbox')
    BY <1>y, <1>M
  <2>2. Chain(Line', Queued' + Len(inbox'), u, Held(u)', Kept(u)', written'[u])
        => Chain(Line, Queued + Len(inbox), u, Held(u), Kept(u), written[u])'
    BY DEF Chain, LastMove, StateAt, Moves, Fits, After, Closed
  <2> QED BY <1>c, <2>1, <2>2
<1>w. \A j \in 1..k : q[j].slot \in Slots
  BY <1>0, WaitersAreSlots
<1>F. \/ Q = q /\ \A j \in 1..k : q[j].slot # s
      \/ \E r \in 1..k : q[r].slot = s /\ Q = RemoveAt(q, r)
  BY <1>0, <1>1, ForgetQueue DEF ServerType
<1>2. CASE Q = q /\ \A j \in 1..k : q[j].slot # s
  <2> HIDE DEF q, k, d, e, W, Q
  <2>0. Len(Q) = k
    BY <1>2 DEF k
  <2>1. ASSUME NEW j \in 1..n PROVE Line'[j] = Line[j]
    <3>1. CASE j <= k
      BY <1>1, <1>L, <1>M, <1>w, <1>2, <2>0, <3>1
    <3>2. CASE j > k
      <4> DEFINE h == j - k
      <4>1. h \in 1..Len(inbox) /\ j = k + h
        BY <1>L, <3>2
      <4> HIDE DEF h
      <4> QED BY <1>L, <1>M, <2>0, <4>1
    <3> QED BY <1>L, <3>1, <3>2
  <2>2. n \in Nat
    BY <1>L
  <2> HIDE DEF n
  <2>3. Chain(Line', n, u, d, e, W)
    BY <2>1, <2>2, <1>q, ChainSame
  <2> QED BY <1>g, <2>0, <2>3 DEF n
<1>3. ASSUME NEW r \in 1..k, q[r].slot = s, Q = RemoveAt(q, r)
      PROVE  Chain(Line, Queued + Len(inbox), u, Held(u), Kept(u), written[u])'
  <2>1. Len(Q) = k - 1 /\ \A j \in 1..Len(Q) : Q[j] = IF j < r THEN q[j] ELSE q[j + 1]
    BY <1>0, <1>3, RemoveAtElements
  <2>2. \A j \in 1..k : j # r => q[j].slot \in Slots \ {s}
    BY <1>3, <1>w DEF QueueInv
  <2>3. Quiet(Line[r], u)
    <3>1. Letter(tasks[s]).kind \in RequestKind
      BY <1>1 DEF Letter
    <3> QED BY <1>L, <1>3, <3>1 DEF Quiet
  <2> HIDE DEF q, k, d, e, W, Q
  <2>4. ASSUME NEW j \in 1..(r - 1) PROVE Line'[j] = Line[j]
    <3>1. j \in 1..Len(Q) /\ j \in 1..k /\ j < r /\ j # r
      BY <1>L, <2>1
    <3> QED BY <1>1, <1>L, <1>M, <2>1, <2>2, <3>1
  <2>5. ASSUME NEW j \in r..(n - 1) PROVE Line'[j] = Line[j + 1]
    <3>1. CASE j < k
      <4>1. j \in 1..Len(Q) /\ j + 1 \in 1..k /\ ~ (j < r) /\ j + 1 # r
        BY <1>L, <2>1, <3>1
      <4> QED BY <1>1, <1>L, <1>M, <2>1, <2>2, <4>1
    <3>2. CASE ~ (j < k)
      <4> DEFINE h == j - Len(Q)
      <4>1. h \in 1..Len(inbox) /\ j = Len(Q) + h /\ j + 1 = k + h
        BY <1>L, <2>1, <3>2
      <4> HIDE DEF h
      <4>2. Line'[Len(Q) + h] = inbox[h] /\ Line[k + h] = inbox[h]
        BY <1>L, <1>M, <4>1
      <4> QED BY <4>1, <4>2
    <3> QED BY <3>1, <3>2
  <2>6. n \in Nat /\ r \in 1..n /\ Len(Q) + Len(inbox) = n - 1
    BY <1>L, <2>1
  <2> HIDE DEF n
  <2>7. Chain(Line', n - 1, u, d, e, W)
    BY <2>3, <2>4, <2>5, <2>6, <1>q, ChainRemove
  <2> QED BY <1>g, <2>6, <2>7
<1> QED BY <1>F, <1>2, <1>3

\* What the editor says of another document leaves this one alone.
LEMMA OtherSend ==
    ASSUME TypeInv, NEW m \in Message, Send(m), docLock' = docLock, tasks' = tasks, docs' = docs,
           NEW u \in Uris, m.uri # u, editor'[u] = editor[u], written[u] \subseteq written'[u],
           Chain(Line, Queued + Len(inbox), u, Held(u), Kept(u), written[u])
    PROVE  Chain(Line, Queued + Len(inbox), u, Held(u), Kept(u), written[u])'
<1>1. Kept(u)' = IF Moves(m, u) THEN After(m) ELSE Kept(u)
  BY DEF Kept, Moves
<1> QED BY <1>1, SendFollows

LEMMA NextFollow ==
    Window = 1 /\ TypeInv /\ TypeInv' /\ FreshInv /\ QueueInv /\ FollowInv /\ [Next]_vars => FollowInv'
<1> DEFINE Fine(u) == Chain(Line, Queued + Len(inbox), u, Held(u), Kept(u), written[u])
<1> SUFFICES ASSUME Window = 1, TypeInv, TypeInv', FreshInv, QueueInv, FollowInv, [Next]_vars,
                    NEW u \in Uris, Fine(u)
             PROVE  Fine(u)'
  BY DEF FollowInv
<1>0. /\ editor \in [Uris -> Buffer] /\ written \in [Uris -> SUBSET Texts] /\ disk \in [Uris -> Texts]
      /\ EditorTexts
  BY TypeSplit DEF TypeInv, ServerType
<1>1. MessageKind \subseteq MessageKind \union RequestKind /\ 0 \in Version
      /\ \A b \in Buffer : b.version < MaxVersion => b.version + 1 \in Version /\ b.version + 1 > b.version
  BY LspAssumption DEF Version, Buffer
<1>k. {"open", "change", "save", "close"} = MessageKind
  BY DEF MessageKind
<1> HIDE DEF Fine
<1>ClientOpen. ASSUME NEW v \in Uris, ClientOpen(v) PROVE Fine(u)'
  <2>1. PICK n \in {1, editor[v].version + 1} \intersect Version :
          /\ editor' = [editor EXCEPT ![v] = [open |-> TRUE, text |-> disk[v], version |-> n]]
          /\ Send(Msg("open", v, disk[v], NoText, n))
    BY <1>ClientOpen DEF ClientOpen
  <2> DEFINE m == Msg("open", v, disk[v], NoText, n)
  <2>2. /\ m \in Message /\ m.kind = "open" /\ m.uri = v /\ m.text = disk[v] /\ m.version = n
    BY <1>0, <1>1, <1>k, <2>1 DEF Msg, Message
  <2>3. docLock' = docLock /\ tasks' = tasks /\ docs' = docs /\ written' = written /\ ~ editor[v].open
    BY <1>ClientOpen DEF ClientOpen, serverVars
  <2>4. Send(m)
    BY <2>1
  <2> HIDE DEF m
  <2>5. CASE u # v
    BY <1>0, <2>1, <2>2, <2>3, <2>4, <2>5, OtherSend DEF Fine
  <2>6. CASE u = v
    <3>1. Kept(u) = Closed /\ Fits(Kept(u), m, written'[u]) /\ Moves(m, u)
      BY <2>2, <2>3, <2>6 DEF Kept, Fits, Moves
    <3>2. editor'[u] = [open |-> TRUE, text |-> disk[v], version |-> n]
      BY <1>0, <2>1, <2>6
    <3>3. Kept(u)' = After(m)
      BY <2>2, <3>2 DEF Kept, After
    <3> QED BY <2>2, <2>3, <2>4, <3>1, <3>3, SendFollows DEF Fine
  <2> QED BY <2>5, <2>6
<1>ClientChange. ASSUME NEW v \in Uris, NEW x \in Texts, ClientChange(v, x) PROVE Fine(u)'
  <2>1. PICK b \in {editor[v].text} \union (IF Window = 1 THEN {} ELSE {NoText}) :
          Send(Msg("change", v, x, b, editor[v].version + 1))
    BY <1>ClientChange DEF ClientChange
  <2> DEFINE m == Msg("change", v, x, b, editor[v].version + 1)
  <2>0. b = editor[v].text /\ b \in Texts /\ editor[v].open
        /\ editor[v].version + 1 \in Version /\ editor[v].version + 1 > editor[v].version
    BY <1>0, <1>1, <2>1, <1>ClientChange DEF ClientChange, EditorTexts
  <2>2. /\ m \in Message /\ m.kind = "change" /\ m.uri = v /\ m.text = x /\ m.base = b
        /\ m.version = editor[v].version + 1
    BY <1>1, <1>k, <2>0 DEF Msg, Message
  <2>3. docLock' = docLock /\ tasks' = tasks /\ docs' = docs /\ written' = written
        /\ editor' = [editor EXCEPT ![v] = [editor[v] EXCEPT !.text = x, !.version = editor[v].version + 1]]
    BY <1>0, <1>ClientChange DEF ClientChange, serverVars
  <2>4. Send(m)
    BY <2>1
  <2> HIDE DEF m
  <2>5. CASE u # v
    BY <1>0, <2>2, <2>3, <2>4, <2>5, OtherSend DEF Fine
  <2>6. CASE u = v
    <3>1. Kept(u) = [text |-> b, version |-> editor[v].version]
      BY <2>0, <2>6 DEF Kept
    <3>2. Fits(Kept(u), m, written'[u]) /\ Moves(m, u)
      <4>1. Kept(u).text = b /\ Kept(u).version = editor[v].version /\ b # NoText
        BY <2>0, <3>1, LspAssumption
      <4> QED BY <2>0, <2>2, <2>6, <4>1 DEF Fits, Moves
    <3>3. editor'[u].open /\ editor'[u].text = x /\ editor'[u].version = editor[v].version + 1
      BY <1>0, <2>0, <2>3, <2>6 DEF Buffer
    <3>4. Kept(u)' = After(m)
      BY <2>2, <3>3 DEF Kept, After
    <3> QED BY <2>2, <2>3, <2>4, <3>2, <3>4, SendFollows DEF Fine
  <2> QED BY <2>5, <2>6
<1>ClientSave. ASSUME NEW v \in Uris, ClientSave(v) PROVE Fine(u)'
  <2> DEFINE m == Msg("save", v, NoText, NoText, 0)
  <2>2. m \in Message /\ m.kind = "save" /\ m.uri = v /\ Send(m)
    BY <1>1, <1>k, <1>ClientSave DEF Msg, Message, ClientSave
  <2>3. /\ docLock' = docLock /\ tasks' = tasks /\ docs' = docs /\ editor' = editor /\ editor[v].open
        /\ written' = [written EXCEPT ![v] = written[v] \union {editor[v].text}]
    BY <1>ClientSave DEF ClientSave
  <2> HIDE DEF m
  <2>4. written[u] \subseteq written'[u]
    BY <1>0, <2>3
  <2>5. CASE u # v
    BY <2>2, <2>3, <2>4, <2>5, OtherSend DEF Fine
  <2>6. CASE u = v
    <3>1. Kept(u).text = editor[u].text /\ Kept(u)' = Kept(u) /\ editor[u].text \in written'[u]
      BY <1>0, <2>3, <2>6 DEF Kept
    <3>2. Fits(Kept(u), m, written'[u]) /\ ~ Moves(m, u)
      BY <2>2, <3>1 DEF Fits, Moves
    <3> QED BY <2>2, <2>3, <2>4, <3>1, <3>2, SendFollows DEF Fine
  <2> QED BY <2>5, <2>6
<1>ClientClose. ASSUME NEW v \in Uris, ClientClose(v) PROVE Fine(u)'
  <2> DEFINE m == Msg("close", v, NoText, NoText, 0)
  <2>2. m \in Message /\ m.kind = "close" /\ m.uri = v /\ Send(m)
    BY <1>1, <1>k, <1>ClientClose DEF Msg, Message, ClientClose
  <2>3. /\ docLock' = docLock /\ tasks' = tasks /\ docs' = docs /\ editor[v].open /\ written' = written
        /\ editor' = [editor EXCEPT ![v] = [editor[v] EXCEPT !.open = FALSE, !.text = NoText]]
    BY <1>0, <1>ClientClose DEF ClientClose, serverVars
  <2> HIDE DEF m
  <2>5. CASE u # v
    BY <1>0, <2>2, <2>3, <2>5, OtherSend DEF Fine
  <2>6. CASE u = v
    <3>1. Kept(u).text = editor[u].text /\ editor[u].text # NoText
      BY <1>0, <2>3, <2>6, LspAssumption DEF Kept, EditorTexts
    <3>2. Fits(Kept(u), m, written'[u]) /\ Moves(m, u)
      BY <2>2, <2>6, <3>1 DEF Fits, Moves
    <3>3. ~ editor'[u].open
      BY <1>0, <2>3, <2>6 DEF Buffer
    <3>4. Kept(u)' = After(m)
      BY <2>2, <3>3 DEF Kept, After
    <3> QED BY <2>2, <2>3, <3>2, <3>4, SendFollows DEF Fine
  <2> QED BY <2>5, <2>6
<1>ClientRequest. ASSUME NEW v \in Uris, NEW r \in Requests, ClientRequest(v, r) PROVE Fine(u)'
  <2> DEFINE m == Msg(r, v, NoText, NoText, 0)
  <2>1. r \in RequestKind
    BY SessionAssumption
  <2>2. m \in Message /\ m.kind = r /\ m.uri = v /\ Send(m)
    BY <1>1, <2>1, <1>ClientRequest DEF Msg, Message, ClientRequest
  <2>3. docLock' = docLock /\ tasks' = tasks /\ docs' = docs /\ editor' = editor /\ written' = written
    BY <1>ClientRequest DEF ClientRequest, serverVars
  <2> HIDE DEF m
  <2>4. ~ Moves(m, u) /\ Fits(Kept(u), m, written'[u])
    BY <2>1, <2>2 DEF Moves, Fits, RequestKind
  <2>5. Kept(u)' = Kept(u)
    BY <2>3 DEF Kept
  <2> QED BY <2>2, <2>3, <2>4, <2>5, SendFollows DEF Fine
<1>Deliver. ASSUME NEW s \in Slots, Deliver(s) PROVE Fine(u)'
  BY <1>Deliver, DeliverFollows DEF Fine
<1>RunHandler. ASSUME NEW s \in Slots, RunHandler(s) PROVE Fine(u)'
  BY <1>RunHandler, RunFollows DEF Fine, RunHandler
<1>DropRequest. ASSUME NEW s \in Slots, DropRequest(s) PROVE Fine(u)'
  BY <1>DropRequest, DropFollows DEF Fine
<1>stutter. CASE UNCHANGED vars
  <2>1. Fine(u)' = Fine(u)
    BY <1>stutter DEF Fine, vars, Line, Queued, Letter, Held, Kept, IsOpen
  <2> QED BY <2>1
<1> QED
  BY <1>ClientOpen, <1>ClientChange, <1>ClientSave, <1>ClientClose, <1>ClientRequest,
     <1>Deliver, <1>RunHandler, <1>DropRequest, <1>stutter DEF Next, Rest

\* A session starts with nothing on its way and every document closed.
LEMMA InitFollow == Init => FreshInv /\ FollowInv
<1> SUFFICES ASSUME Init PROVE FreshInv /\ FollowInv
  OBVIOUS
<1>1. FreshInv /\ docLock.queue = << >> /\ inbox = << >>
  BY DEF Init, FreshInv, Unlocked
<1>2. Len(docLock.queue) = 0 /\ Len(inbox) = 0 /\ Queued = 0
  BY <1>1 DEF Queued
<1>3. \A u \in Uris : Held(u) = Closed /\ Kept(u) = Closed
  BY DEF Init, Held, Kept, IsOpen
<1>4. ASSUME NEW u \in Uris, NEW j \in 1..1, NEW i \in 0..(j - 1), NEW L
      PROVE  j = 1 /\ StateAt(L, Closed, i) = Closed
  BY DEF StateAt
<1>5. ASSUME NEW u \in Uris
      PROVE  Chain(Line, 0, u, Closed, Closed, written[u])
  BY <1>4 DEF Chain
<1>6. FollowInv
  BY <1>2, <1>3, <1>5 DEF FollowInv
<1> QED BY <1>1, <1>6

\* When nothing of a document is on its way, the two ends of the chain meet.
LEMMA SettledFollows ==
    ASSUME TypeInv, QueueInv, FollowInv, NEW u \in Uris, Settled(u)
    PROVE  Held(u) = Kept(u)
<1> DEFINE q == docLock.queue
           n == Queued + Len(inbox)
<1>0. q \in Seq(Waiter) /\ inbox \in Seq(Message)
  BY TypeSplit DEF TypeInv, ServerType, Lock
<1>1. /\ Queued \in Nat /\ Len(inbox) \in Nat
      /\ \A i \in 1..Queued : Line[i] = Letter(tasks[q[i].slot])
      /\ \A i \in 1..Len(inbox) : Line[Queued + i] = inbox[i]
  BY <1>0, LineElements
<1>2. \A i \in 1..Queued : tasks[q[i].slot].uri # u
  BY <1>0, WaitersAreSlots DEF QueueInv, Queued, Settled
<1>3. \A i \in 1..Queued : Line[i].uri # u
  <2>1. \A t : Letter(t).uri = t.uri
    BY DEF Letter
  <2> QED BY <1>1, <1>2, <2>1
<1>4. \A i \in 1..Len(inbox) : inbox[i].uri # u
  BY DEF Settled
<1>5. ASSUME NEW j \in 1..n PROVE ~ Moves(Line[j], u)
  <2>1. CASE j <= Queued
    BY <1>1, <1>3, <2>1 DEF Moves
  <2>2. CASE j > Queued
    <3> DEFINE h == j - Queued
    <3>1. h \in 1..Len(inbox) /\ j = Queued + h
      BY <1>1, <2>2
    <3> HIDE DEF h
    <3> QED BY <1>1, <1>4, <3>1 DEF Moves
  <2> QED BY <1>1, <2>1, <2>2
<1>6. n \in Nat
  BY <1>1
<1>7. Chain(Line, n, u, Held(u), Kept(u), written[u])
  BY DEF FollowInv
<1> HIDE DEF n
<1>8. n + 1 \in 1..(n + 1) /\ 0 \in 0..((n + 1) - 1) /\ (0 + 1)..((n + 1) - 1) = 1..n
  BY <1>6
<1>9. LastMove(Line, u, 0, n + 1)
  BY <1>5, <1>8 DEF LastMove
<1> QED BY <1>7, <1>8, <1>9 DEF Chain, StateAt

\* When the transport starts handlers in the order of the messages, incremental
\* synchronisation never drifts: once the notifications of a document are
\* handled, did_open, did_change and did_close have left the server with the
\* text and the version the editor has, however their handlers interleave.
THEOREM EditorIsFollowed ==
    ASSUME Window = 1
    PROVE  Spec => []ServerFollowsEditor
<1>1. TypeInv /\ QueueInv /\ FollowInv => ServerFollowsEditor
  <2> SUFFICES ASSUME TypeInv, QueueInv, FollowInv, NEW u \in Uris, Settled(u)
               PROVE  IF editor[u].open
                      THEN IsGeneration(u, editor[u].text, editor[u].version)
                      ELSE ~ IsOpen(u)
    BY DEF ServerFollowsEditor
  <2>1. Held(u) = Kept(u)
    BY SettledFollows
  <2>2. /\ editor[u].open => editor[u].text # NoText
        /\ IsOpen(u) => docs[u].source # NoText
    BY TypeSplit, LspAssumption DEF TypeInv, ServerType, EditorTexts, Document, IsOpen
  <2>3. CASE editor[u].open
    <3>1. Held(u).text = editor[u].text /\ Held(u).version = editor[u].version
      BY <2>1, <2>3 DEF Kept
    <3>2. IsOpen(u)
      BY <2>2, <2>3, <3>1 DEF Held, Closed
    <3> QED BY <2>3, <3>1, <3>2 DEF Held, IsGeneration
  <2>4. CASE ~ editor[u].open
    <3>1. Held(u).text = NoText
      BY <2>1, <2>4 DEF Kept, Closed
    <3> QED BY <2>2, <2>4, <3>1 DEF Held
  <2> QED BY <2>3, <2>4
<1>2. TypeInv /\ TypeInv' /\ FreshInv /\ QueueInv /\ FollowInv /\ [Next]_vars => FollowInv'
  BY NextFollow
<1> QED
  BY <1>1, <1>2, InitTypes, InitFollow, InitWaits, NextTypes, NextFresh, NextWaits, WaitQueue, PTL DEF Spec
-----------------------------------------------------------------------------
(* What is indexed was saved *)

\* From the capture on, did_save works on a text the file has had.
Saving == {"saveFlush", "savePool", "indexCheck", "index"}

SavedInv ==
    /\ \A r \in Slots : tasks[r] # Idle /\ tasks[r].pc \in Saving =>
          tasks[r].text \in written[tasks[r].uri]
    /\ IndexedTextsWereSaved

\* What did_save captures, the editor has saved: between the two no other
\* notification of the document reached the server.
LEMMA CaptureSaved ==
    ASSUME TypeInv, FreshInv, QueueInv, FollowInv, NEW s \in Slots, Capture(s)
    PROVE  docs[tasks[s].uri].source \in written[tasks[s].uri]
<1> DEFINE t == tasks[s]
           u == t.uri
           q == docLock.queue
           n == Queued + Len(inbox)
<1>0. ServerType /\ q \in Seq(Waiter) /\ inbox \in Seq(Message) /\ t \in Task /\ u \in Uris
      /\ t.kind = "save" /\ t.pc = "capture" /\ IsOpen(u) /\ Granted(docLock, s, "read")
  BY TypeSplit DEF TypeInv, ServerType, Lock, TasksType, Task, Capture, At, FreshInv, Serves
<1>1. q # << >> /\ Head(q).slot = s
  BY <1>0, QueueOps DEF ServerType
<1>2. Len(q) > 0 /\ q[1].slot = s /\ Len(q) \in Nat
  BY <1>0, <1>1, TailElements
<1>3. /\ Queued \in Nat /\ Len(inbox) \in Nat
      /\ \A i \in 1..Queued : Line[i] = Letter(tasks[q[i].slot])
  BY <1>0, LineElements
<1>4. n \in Nat /\ n > 0 /\ Line[1] = Letter(t)
  BY <1>2, <1>3 DEF Queued
<1>5. Chain(Line, n, u, Held(u), Kept(u), written[u])
  BY <1>0 DEF FollowInv
<1> DEFINE M == [i \in 1..(n - 1) |-> Line[i + 1]]
<1>6. \A i \in 1..(n - 1) : M[i] = Line[i + 1]
  OBVIOUS
<1> HIDE DEF n, M
<1>7. Line[1].uri = u => Fits(Held(u), Line[1], written[u])
  BY <1>4, <1>5, <1>6, ChainTail
<1>8. Line[1].uri = u /\ Line[1].kind = "save"
  BY <1>0, <1>4 DEF Letter, First
<1>9. Held(u).text = docs[u].source
  BY <1>0 DEF Held
<1> QED BY <1>7, <1>8, <1>9 DEF Fits

\* A handler that saves keeps the text it captured.
LEMMA SavingMoves ==
    ASSUME TypeInv, FreshInv, QueueInv, FollowInv, SavedInv, NEW s \in Slots, Run(s),
           tasks'[s] # Idle, tasks'[s].pc \in Saving
    PROVE  tasks'[s].text \in written[tasks'[s].uri]
<1> DEFINE t == tasks[s]
<1>0. ServerType /\ tasks \in TasksType
  BY TypeSplit DEF TypeInv, ServerType
<1>1. t \in Task /\ ComesFrom(s) /\ tasks'[s].uri = t.uri /\ t # Idle
  BY <1>0, RunMoves, RunFrom
<1>s. t.pc \in Saving => t.text \in written[t.uri]
  BY <1>1 DEF SavedInv
<1>2. Capture(s) \/ SaveFlushed(s) \/ SaveAnalyzed(s) \/ IndexCheck(s)
  BY <1>1 DEF ComesFrom, Saving
<1>3. CASE Capture(s)
  <2> DEFINE d == docs[t.uri]
             pc == IF d.report # NoText THEN "saveFlush" ELSE "savePool"
  <2>1. tasks'[s] = [t EXCEPT !.pc = pc, !.text = d.source, !.version = d.version]
    BY <1>0, <1>3 DEF Capture, TasksType
  <2>2. d.source \in written[t.uri]
    BY <1>3, CaptureSaved
  <2> HIDE DEF d, pc
  <2>3. tasks'[s].text = d.source
    BY <1>1, <2>1 DEF Task
  <2> QED BY <1>1, <2>2, <2>3
<1>4. CASE SaveFlushed(s)
  <2>1. tasks'[s] = [t EXCEPT !.pc = "savePool"] /\ t.pc = "saveFlush"
    BY <1>0, <1>4 DEF SaveFlushed, Goto, TasksType, At
  <2> QED BY <1>1, <1>s, <2>1 DEF Task, Saving
<1>5. CASE SaveAnalyzed(s)
  <2>0. t.pc = "savePool"
    BY <1>5 DEF SaveAnalyzed, At
  <2>1. tasks'[s] = [t EXCEPT !.pc = "indexCheck", !.result = Outcome(t.text)]
    BY <1>0, <1>1, <1>5 DEF SaveAnalyzed, Return, TasksType
  <2>2. tasks'[s].text = t.text
    BY <1>1, <2>1 DEF Task
  <2> QED BY <1>1, <1>s, <2>0, <2>2 DEF Saving
<1>6. CASE IndexCheck(s)
  <2>0. t.pc = "indexCheck"
    BY <1>6 DEF IndexCheck, At
  <2>1. tasks'[s] = [t EXCEPT !.pc = "index"]
    BY <1>0, <1>1, <1>6 DEF IndexCheck, Return, Goto, TasksType
  <2>2. tasks'[s].text = t.text
    BY <1>1, <2>1 DEF Task
  <2> QED BY <1>1, <1>s, <2>0, <2>2 DEF Saving
<1> QED BY <1>2, <1>3, <1>4, <1>5, <1>6

\* The editor only adds to the texts a file has had.
LEMMA WrittenGrows ==
    ASSUME TypeInv, [Next]_vars
    PROVE  /\ \A u \in Uris : written[u] \subseteq written'[u]
           /\ (\E s \in Slots : Run(s)) \/ index' = index
<1>0. written \in [Uris -> SUBSET Texts]
  BY TypeSplit DEF TypeInv
<1>1. written' = written \/ \E v \in Uris : ClientSave(v)
  BY DEF Next, vars, clientVars, Rest, ClientOpen, ClientClose, ClientChange, ClientRequest,
         Deliver, RunHandler, DropRequest
<1>2. ASSUME NEW v \in Uris, ClientSave(v), NEW u \in Uris PROVE written[u] \subseteq written'[u]
  BY <1>0, <1>2 DEF ClientSave
<1>3. (\E s \in Slots : Run(s)) \/ index' = index
  BY SessionStep
<1> QED BY <1>1, <1>2, <1>3

LEMMA NextSaved ==
    TypeInv /\ FreshInv /\ QueueInv /\ FollowInv /\ SavedInv /\ [Next]_vars => SavedInv'
<1> SUFFICES ASSUME TypeInv, FreshInv, QueueInv, FollowInv, SavedInv, [Next]_vars PROVE SavedInv'
  OBVIOUS
<1>0. ServerType /\ tasks \in TasksType /\ index \in [Uris -> Texts \union {NoText}]
  BY TypeSplit DEF TypeInv, ServerType
<1>w. \A u \in Uris : written[u] \subseteq written'[u]
  BY WrittenGrows
<1>t. ASSUME NEW r \in Slots, tasks'[r] # Idle, tasks'[r].pc \in Saving
      PROVE  tasks'[r].text \in written'[tasks'[r].uri]
  <2>1. ASSUME tasks'[r] = tasks[r] PROVE tasks'[r].text \in written'[tasks'[r].uri]
    <3>1. tasks[r] \in Task /\ tasks[r].uri \in Uris
      BY <1>0, <1>t, <2>1 DEF TasksType, Task
    <3> QED BY <1>t, <1>w, <2>1, <3>1 DEF SavedInv
  <2>2. ASSUME NEW s \in Slots, Run(s) PROVE tasks'[r].text \in written'[tasks'[r].uri]
    <3>1. CASE r = s
      <4>1. tasks'[r].text \in written[tasks'[r].uri]
        BY <1>t, <2>2, <3>1, SavingMoves
      <4>2. tasks[r] \in Task /\ tasks'[r].uri = tasks[r].uri
        BY <1>0, <1>t, <2>2, <3>1, RunMoves
      <4>3. tasks'[r].uri \in Uris
        BY <4>2 DEF Task
      <4> QED BY <1>w, <4>1, <4>3
    <3>2. CASE r # s
      <4>1. tasks'[r] = tasks[r] \/ tasks'[r] = CancelAnalyses(tasks[s].uri, tasks)[r]
        BY <1>0, <2>2, <3>2, OthersKept
      <4>2. tasks'[r] = tasks[r] \/ (tasks[r] \in Task /\ tasks[r].pc = "analyze"
                                     /\ tasks'[r] = [tasks[r] EXCEPT !.cancelled = TRUE])
        BY <1>0, <4>1 DEF CancelAnalyses, TasksType
      <4>3. tasks'[r] = tasks[r]
        BY <1>t, <4>2 DEF Saving, Task
      <4> QED BY <2>1, <4>3
    <3> QED BY <3>1, <3>2
  <2>3. ASSUME NEW s \in Slots, Starts(s) \/ Drops(s), \A q \in Slots \ {s} : tasks'[q] = tasks[q]
        PROVE  tasks'[r].text \in written'[tasks'[r].uri]
    <3>1. r # s
      BY <1>t, <2>3 DEF Starts, Drops, Saving
    <3> QED BY <2>1, <2>3, <3>1
  <2> QED BY <2>1, <2>2, <2>3, SessionStep
<1>i. ASSUME NEW u \in Uris, index'[u] # NoText PROVE index'[u] \in written'[u]
  <2>1. CASE index'[u] = index[u]
    BY <1>i, <1>w, <2>1 DEF SavedInv, IndexedTextsWereSaved
  <2>2. CASE index'[u] # index[u]
    <3>1. PICK s \in Slots : Run(s)
      BY <2>2, WrittenGrows
    <3>2. UpdateIndex(s)
      BY <2>2, <3>1, RunIndex
    <3>3. /\ index' = IF tasks[s].uri \in Workspace
                      THEN [index EXCEPT ![tasks[s].uri] =
                              IF tasks[s].result = "report" THEN tasks[s].text ELSE NoText]
                      ELSE index
          /\ tasks[s] # Idle /\ tasks[s].pc \in Saving
      BY <3>2 DEF UpdateIndex, At, Saving
    <3>4. u = tasks[s].uri /\ index'[u] = tasks[s].text
      BY <1>0, <1>i, <2>2, <3>3
    <3> QED BY <1>w, <3>3, <3>4 DEF SavedInv
  <2> QED BY <2>1, <2>2
<1> QED BY <1>t, <1>i DEF SavedInv, IndexedTextsWereSaved

\* When the transport starts handlers in the order of the messages, the symbol
\* index never advertises a text the file has not had: did_save indexes the
\* text that was saved, though it looks at the buffer only when it gets the
\* lock, and analyses and awaits the index after that.
THEOREM IndexedWasSaved ==
    ASSUME Window = 1
    PROVE  Spec => []IndexedTextsWereSaved
<1>1. SavedInv => IndexedTextsWereSaved
  BY DEF SavedInv
<1>2. Init => SavedInv
  <2> SUFFICES ASSUME Init PROVE SavedInv
    OBVIOUS
  <2>1. \A u \in Uris : index[u] \in {disk[u], NoText} /\ disk[u] \in written[u]
    BY DEF Init, Rescan
  <2> QED BY <2>1 DEF Init, SavedInv, IndexedTextsWereSaved
<1>3. TypeInv /\ TypeInv' /\ FreshInv /\ QueueInv /\ FollowInv /\ [Next]_vars => FollowInv'
  BY NextFollow
<1> QED
  BY <1>1, <1>2, <1>3, InitTypes, InitFollow, InitWaits, NextTypes, NextFresh, NextWaits, WaitQueue,
     NextSaved, PTL DEF Spec
-----------------------------------------------------------------------------
(* Some handler can always move *)

\* The head of a line nobody blocks has its turn.
LEMMA HeadIsGranted ==
    ASSUME NEW l \in Lock, NEW A, LinesUp(l.queue, A), A # {}, l.writers = {}, l.readers = {}
    PROVE  \E s \in A : \E m \in Mode : Granted(l, s, m)
<1> DEFINE q == l.queue
<1>1. PICK r \in A : \E i \in 1..Len(q) : q[i].slot = r
  BY DEF LinesUp
<1>2. q \in Seq(Waiter) /\ q # << >>
  BY <1>1 DEF Lock
<1>3. Len(q) > 0 /\ Len(q) \in Nat /\ Head(q) = q[1]
  BY <1>2, TailElements
<1>4. q[1] \in Waiter /\ q[1].slot \in A
  BY <1>2, <1>3, ElementOfSeq DEF LinesUp
<1>5. q[1].mode \in Mode /\ q[1] = [slot |-> q[1].slot, mode |-> q[1].mode]
  BY <1>4 DEF Waiter
<1> QED BY <1>2, <1>3, <1>4, <1>5 DEF Granted

\* With no handler free to move, the workspace lock is free; so whoever is first
\* for it, or else first for the documents, has its turn.
LEMMA SomeoneMoves ==
    ASSUME TypeInv, GuardsMatchHandlers, WaitInv
    PROVE  SomeHandlerMoves
<1> SUFFICES ASSUME NEW b \in Slots, tasks[b] # Idle, \A s \in Slots : ~ CanRun(s)
             PROVE  FALSE
  BY DEF SomeHandlerMoves
<1>0. docLock \in Lock /\ wsLock \in Lock
  BY TypeSplit DEF TypeInv, ServerType
<1>1. \A s \in Slots : tasks[s] # Idle => tasks[s].pc \in PcDocs \union PcWs
  BY DEF CanRun
<1>2. \A pc \in PcDocs : pc \notin PcWs
  BY DEF PcDocs, PcWs
<1>3. AwaitWs = {}
  <2>1. ASSUME AwaitWs # {} PROVE FALSE
    <3>1. PICK s \in AwaitWs : \E m \in Mode : Granted(wsLock, s, m)
      BY <1>0, <2>1, HeadIsGranted DEF WaitInv, GuardsMatchHandlers
    <3> QED BY <1>2, <3>1 DEF AwaitWs, CanRun
  <2> QED BY <2>1
<1>4. AwaitDocs # {}
  BY <1>1, <1>3 DEF AwaitDocs, AwaitWs
<1>5. docLock.writers = {} /\ docLock.readers = {}
  <2>1. \A s \in Slots : tasks[s] # Idle => tasks[s].pc \in PcDocs
    BY <1>1, <1>3 DEF AwaitWs
  <2>2. \A pc \in {"flush", "saveFlush", "index", "symbolWs", "fallbackWs"} : pc \notin PcDocs
    BY DEF PcDocs
  <2> QED BY <2>1, <2>2 DEF GuardsMatchHandlers, At
<1>6. PICK s \in AwaitDocs : \E m \in Mode : Granted(docLock, s, m)
  BY <1>0, <1>4, <1>5, HeadIsGranted DEF WaitInv
<1> QED BY <1>2, <1>6 DEF AwaitDocs, CanRun

\* Handlers that take the documents lock, the workspace lock, or one after the
\* other never all wait: while there is a handler, one is not waiting, or is at
\* the head of its queue with the lock free for it.
THEOREM HandlersNeverAllWait == Spec => []SomeHandlerMoves
<1>1. Init => TypeInv /\ GuardsMatchHandlers /\ WaitInv
  BY InitTypes, InitGuards, InitWaits
<1>2. TypeInv /\ GuardsMatchHandlers /\ WaitInv /\ [Next]_vars => (TypeInv /\ GuardsMatchHandlers /\ WaitInv)'
  BY NextTypes, NextGuards, NextWaits
<1>3. TypeInv /\ GuardsMatchHandlers /\ WaitInv => SomeHandlerMoves
  BY SomeoneMoves
<1> QED BY <1>1, <1>2, <1>3, PTL DEF Spec
=============================================================================
