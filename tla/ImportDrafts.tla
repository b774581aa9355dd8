---------------------------- MODULE ImportDrafts ----------------------------
(***************************************************************************)
(* Saved import documents of one reporting month and the wizard tabs that  *)
(* upload, validate and finalize them (persistence/import_drafts.py,       *)
(* import_draft_bridge.py, ui/monthly_finalization_state.py and the draft  *)
(* parts of render_monthly_import_wizard in ui/dashboard.py).              *)
(*                                                                         *)
(* A tab's script runs top to bottom after each click; between any two of  *)
(* its queries the other tabs may commit.  A transaction of the repository *)
(* is one action: upload holds the draft's row lock from its first query.  *)
(***************************************************************************)
EXTENDS Integers, Sequences

CONSTANTS
  Tabs,         \* browser tabs on the wizard, each with its session state
  Finalizers,   \* the tabs whose operators do more than upload documents
  Roles,        \* the document roles of a month
  Required,     \* roles without which Validate is disabled
  Documents,    \* Documents[t][r]: the files the operator of t has for role r, by digest
  NoDocument,   \* no document
  MaxRevision,  \* bound on the uploads into one draft
  MaxDrafts     \* bound on the drafts of the month

ASSUME DraftBounds == MaxRevision \in Nat /\ MaxDrafts \in Nat

ASSUME RoleAssumption == Required \subseteq Roles /\ Required # {}

ASSUME DocumentAssumption == \A t \in Tabs, r \in Roles : NoDocument \notin Documents[t][r]

ASSUME TabAssumption == Finalizers \subseteq Tabs

VARIABLES
  drafts,   \* every draft of the month, the active one, if any, last
  tabs      \* widgets, session state and script locals of each tab

vars == << drafts, tabs >>

AnyDocument ==
  {NoDocument} \cup UNION {UNION {Documents[t][r] : r \in Roles} : t \in Tabs}

Stored == [Roles -> AnyDocument]
Nothing == [r \in Roles |-> NoDocument]

DraftRecords == [active : BOOLEAN, revision : 0..MaxRevision, documents : Stored]

Pcs == {"idle", "open", "restore", "save", "reread", "signature", "check", "approve", "execute"}
Clicks == {"other", "validate", "finalize", "exception"}

TabRecords ==
  [pc : Pcs, click : Clicks, draft : 0..MaxDrafts, todo : SUBSET Roles, inputs : Stored,
   saving : SUBSET Roles, widget : Stored, met : Stored, replace : SUBSET Roles,
   validated : Stored, revision : -1..MaxRevision, origin : 0..MaxDrafts,
   offered : BOOLEAN, reviewed : Stored]

\* A new tab: no file chosen, nothing validated, no blocked attempt kept.  met
\* is the saved document an upload collided with when the replacement box was
\* last drawn; origin, the draft whose revision was recorded by Validate; both
\* are history, the code keeps neither.
NewTab ==
  [pc |-> "idle", click |-> "other", draft |-> 0, todo |-> {}, inputs |-> Nothing,
   saving |-> {}, widget |-> Nothing, met |-> Nothing, replace |-> {},
   validated |-> Nothing, revision |-> -1, origin |-> 0,
   offered |-> FALSE, reviewed |-> Nothing]

TypeOK ==
  /\ drafts \in Seq(DraftRecords) /\ Len(drafts) <= MaxDrafts
  /\ tabs \in [Tabs -> TabRecords]

Init == drafts = << >> /\ tabs = [t \in Tabs |-> NewTab]

-----------------------------------------------------------------------------
\* Mutation of Active: the status of the draft is not looked at.
IsDraft(d) == d \in 1..Len(drafts)

Active(d) == d \in 1..Len(drafts) /\ drafts[d].active

At(t, pc) == tabs[t].pc = pc

Become(t, tab) == tabs' = [tabs EXCEPT ![t] = tab]

\* What the session keeps when a script run ends; its locals are gone.
Rested(tab) == [tab EXCEPT !.pc = "idle", !.click = "other", !.draft = 0,
                           !.todo = {}, !.saving = {}, !.inputs = Nothing]

EndRun(t) == Become(t, Rested(tabs[t]))

-----------------------------------------------------------------------------
\* The operator at the browser, between two script runs.
ChooseFile(t, r, doc) ==
  /\ At(t, "idle")
  /\ Become(t, [tabs[t] EXCEPT !.widget[r] = doc])
  /\ UNCHANGED drafts

\* The checkbox is there only after a run that met a different document.
ConfirmReplacement(t, r) ==
  /\ At(t, "idle") /\ tabs[t].met[r] # NoDocument
  /\ Become(t, [tabs[t] EXCEPT !.replace = @ \cup {r}])
  /\ UNCHANGED drafts

CloseTab(t) ==
  /\ Become(t, NewTab)
  /\ UNCHANGED drafts

Abandon ==
  /\ \E d \in 1..Len(drafts) :
       Active(d) /\ drafts' = [drafts EXCEPT ![d].active = FALSE]
  /\ UNCHANGED tabs

-----------------------------------------------------------------------------
\* create_or_resume: one statement, one active draft per month.
BeginRun(t, click) ==
  LET resumes == Active(Len(drafts))
      d == IF resumes THEN Len(drafts) ELSE Len(drafts) + 1
  IN /\ At(t, "idle") /\ d <= MaxDrafts
     /\ click # "other" => t \in Finalizers
     /\ click \in {"finalize", "exception"} => tabs[t].offered
     /\ click = "exception" => tabs[t].reviewed # Nothing
     /\ drafts' = IF resumes THEN drafts
                  ELSE Append(drafts, [active |-> TRUE, revision |-> 0, documents |-> Nothing])
     /\ Become(t, [tabs[t] EXCEPT !.pc = "open", !.click = click, !.draft = d,
                                  !.offered = FALSE])

\* restore_uploads: the draft must still be active, then one query per role, in
\* no particular order; a role without a document is no error.
OpenDraft(t) ==
  /\ At(t, "open")
  /\ IF Active(tabs[t].draft)
     THEN Become(t, [tabs[t] EXCEPT !.pc = "restore", !.todo = Roles])
     ELSE EndRun(t)
  /\ UNCHANGED drafts

\* The roles whose widget holds a file are saved one after the other; a role
\* without one keeps what was restored.  After the last the inputs are signed.
Saving(tab, rest) ==
  [tab EXCEPT !.todo = rest, !.saving = {}, !.pc = IF rest = {} THEN "signature" ELSE "save"]

RoleDone(tab, r) == Saving(tab, tab.todo \ {r})

Document(d, r) == IF Active(d) THEN drafts[d].documents[r] ELSE NoDocument

RestoreRole(t, r) ==
  LET tab == tabs[t]
      read == [tab EXCEPT !.inputs = [tab.inputs EXCEPT ![r] = Document(tab.draft, r)]]
      chosen == {role \in Roles : tab.widget[role] # NoDocument}
  IN /\ At(t, "restore") /\ r \in tab.todo
     /\ Become(t, IF tab.todo = {r} THEN Saving(read, chosen)
                  ELSE [read EXCEPT !.todo = @ \ {r}])
     /\ UNCHANGED drafts

-----------------------------------------------------------------------------
\* ImportDraftRepository.upload of the file in the widget.  The replacement box
\* keeps its state only while it is drawn, so one confirmation serves once.
UploadConflict(t, r) ==
  LET tab == tabs[t]
      held == Document(tab.draft, r)
  IN /\ At(t, "save") /\ r \in tab.todo
     /\ Active(tab.draft) /\ held \notin {tab.widget[r], NoDocument} /\ r \notin tab.replace
     /\ Become(t, RoleDone([tab EXCEPT !.met[r] = held], r))
     /\ UNCHANGED drafts

Received(draft, r, file) ==
  [draft EXCEPT !.documents = [draft.documents EXCEPT ![r] = file],
                !.revision = draft.revision + 1]

Upload(t, r) ==
  LET tab == tabs[t]
      d == tab.draft
      file == tab.widget[r]
      held == Document(d, r)
  IN /\ At(t, "save") /\ r \in tab.todo
     /\ Active(d) /\ (held \in {file, NoDocument} \/ r \in tab.replace)
     /\ IF held = file THEN UNCHANGED drafts
        ELSE /\ drafts[d].revision < MaxRevision
             /\ drafts' = [drafts EXCEPT ![d] = Received(drafts[d], r, file)]
     /\ Become(t, [tab EXCEPT !.pc = "reread", !.saving = {r},
                              !.met[r] = NoDocument, !.replace = @ \ {r}])

UploadRefused(t) ==
  /\ At(t, "save") /\ ~Active(tabs[t].draft)
  /\ EndRun(t)
  /\ UNCHANGED drafts

\* The saved document is read back; the input is what the draft holds now.  A
\* draft abandoned meanwhile ends the run, or, if only just, reads as nothing.
Reread(t, r) ==
  LET tab == tabs[t]
      read == [tab EXCEPT !.inputs = [tab.inputs EXCEPT ![r] = Document(tab.draft, r)]]
  IN /\ At(t, "reread") /\ r \in tab.saving
     /\ \/ Become(t, RoleDone(read, r))
        \/ ~Active(tab.draft) /\ EndRun(t)
     /\ UNCHANGED drafts

-----------------------------------------------------------------------------
Supplied(inputs) == \A r \in Required : inputs[r] # NoDocument

\* The Validate button records the signature first and the revision after it;
\* a draft abandoned meanwhile leaves the new signature with the old revision.
Validate(t) ==
  LET tab == tabs[t] IN
  /\ At(t, "signature") /\ tab.click = "validate" /\ Supplied(tab.inputs)
  /\ Become(t, IF Active(tab.draft)
               THEN [Rested(tab) EXCEPT !.validated = tab.inputs, !.origin = tab.draft,
                       !.revision = drafts[tab.draft].revision,
                       !.reviewed = Nothing, !.offered = TRUE]
               ELSE [Rested(tab) EXCEPT !.validated = tab.inputs])
  /\ UNCHANGED drafts

CompareSignature(t) ==
  LET tab == tabs[t] IN
  /\ At(t, "signature") /\ ~(tab.click = "validate" /\ Supplied(tab.inputs))
  /\ IF Supplied(tab.inputs) /\ tab.inputs = tab.validated
     THEN Become(t, [tab EXCEPT !.pc = "check"])
     ELSE EndRun(t)
  /\ UNCHANGED drafts

\* Mutation of RevisionUnchanged: the revision itself is not compared.
DraftUnchanged(tab) == Active(tab.draft)

RevisionUnchanged(tab) == Active(tab.draft) /\ drafts[tab.draft].revision = tab.revision

\* assert_revision_unchanged, then run_or_resume_finalization: a kept blocked
\* attempt is dropped when it was made from other documents, and by a new one.
CheckRevision(t) ==
  LET tab == tabs[t]
      kept == IF tab.click # "finalize" /\ tab.reviewed = tab.inputs THEN tab.reviewed ELSE Nothing
      next == IF tab.click = "finalize" THEN "execute"
              ELSE IF tab.click = "exception" /\ kept # Nothing THEN "approve" ELSE "idle"
      passed == [tab EXCEPT !.pc = next, !.offered = TRUE, !.reviewed = kept]
  IN /\ At(t, "check")
     /\ Become(t, IF RevisionUnchanged(tab) THEN IF next = "idle" THEN Rested(passed) ELSE passed
                  ELSE Rested(tab))
     /\ UNCHANGED drafts

\* The reviewed exception is approved; the revision is checked once more.
Approve(t) ==
  /\ At(t, "approve")
  /\ Become(t, IF RevisionUnchanged(tabs[t]) THEN [tabs[t] EXCEPT !.pc = "execute"]
               ELSE Rested(tabs[t]))
  /\ UNCHANGED drafts

\* The attempt publishes or is blocked; an ordinary blocked one is kept.
Execute(t) ==
  LET tab == tabs[t]
      blocked == IF tab.click = "finalize" THEN tab.inputs ELSE tab.reviewed
  IN /\ At(t, "execute")
     /\ \E reviewed \in {Nothing, blocked} : Become(t, [Rested(tab) EXCEPT !.reviewed = reviewed])
     /\ UNCHANGED drafts

\* An exception, a preflight that is not ready, a blocked backfill, or a click
\* that stops the running script.
Interrupt(t) ==
  /\ ~At(t, "idle")
  /\ EndRun(t)
  /\ UNCHANGED drafts

Browse(t) ==
  \/ \E r \in Roles : \E doc \in Documents[t][r] \cup {NoDocument} : ChooseFile(t, r, doc)
  \/ \E r \in Roles : ConfirmReplacement(t, r)
  \/ \E click \in Clicks : BeginRun(t, click)
  \/ CloseTab(t)

Script(t) ==
  \/ OpenDraft(t) \/ UploadRefused(t) \/ Validate(t) \/ CompareSignature(t)
  \/ CheckRevision(t) \/ Approve(t) \/ Execute(t) \/ Interrupt(t)
  \/ \E r \in Roles :
       RestoreRole(t, r) \/ UploadConflict(t, r) \/ Upload(t, r) \/ Reread(t, r)

Next == Abandon \/ \E t \in Tabs : Browse(t) \/ Script(t)

Spec == Init /\ [][Next]_vars

-----------------------------------------------------------------------------
(***************************************************************************)
(* Properties                                                              *)
(***************************************************************************)

\* "Fail closed when uploaded documents have changed since validation": when a
\* finalization passes its revision check, the documents it carries in memory,
\* read query by query, are exactly the draft's documents at that moment, as
\* long as the draft is the one that was validated.
ExecutesStoredDocuments ==
  [][\A t \in Tabs :
       LET tab == tabs[t] IN
       tab.pc # "execute" /\ tabs'[t].pc = "execute" /\ tab.origin = tab.draft =>
         tab.inputs = drafts[tab.draft].documents]_vars

\* An abandoned draft takes no more documents, also from a run that had it open.
AbandonedKept ==
  [][\A d \in 1..Len(drafts) : ~drafts[d].active => drafts'[d] = drafts[d]]_vars

=============================================================================
