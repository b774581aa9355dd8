----------------------------- MODULE DraftProofs ----------------------------
(***************************************************************************)
(* A finalization carries the documents the draft holds: proofs about      *)
(* ImportDrafts for any number of tabs, roles, documents and drafts.       *)
(***************************************************************************)
EXTENDS ImportDrafts, TLAPS

\* The roles whose document the running script has read.
Loaded(tab) ==
  CASE tab.pc \in {"idle", "open"} -> {}
    [] tab.pc = "restore" -> Roles \ tab.todo
    [] OTHER -> Roles

\* The recorded revision is one the draft has had; while it still is the
\* draft's revision, everything this run has read is what the draft holds.
TabOK(tab) ==
  /\ tab.pc # "idle" => tab.draft \in 1..Len(drafts)
  /\ tab.origin # 0 =>
       tab.origin \in 1..Len(drafts) /\ tab.revision <= drafts[tab.origin].revision
  /\ tab.origin = tab.draft /\ Active(tab.draft)
       /\ drafts[tab.draft].revision = tab.revision =>
         \A r \in Loaded(tab) : tab.inputs[r] = drafts[tab.draft].documents[r]

DraftInv == TypeOK /\ \A t \in Tabs : TabOK(tabs[t])

\* What every step does to the drafts that exist: their revisions never fall,
\* one revision never names two document sets, none is reactivated.
DraftsGrow ==
  /\ Len(drafts) <= Len(drafts')
  /\ \A d \in 1..Len(drafts) :
       /\ drafts[d].revision <= drafts'[d].revision
       /\ drafts[d].revision = drafts'[d].revision => drafts'[d].documents = drafts[d].documents
       /\ drafts'[d].active => drafts[d].active
       /\ ~drafts[d].active => drafts'[d] = drafts[d]

LEMMA DraftTypes ==
  ASSUME TypeOK
  PROVE  /\ Len(drafts) \in 0..MaxDrafts
         /\ \A d \in 1..Len(drafts) :
              /\ drafts[d] \in DraftRecords
              /\ drafts[d].revision \in 0..MaxRevision
              /\ drafts[d].documents \in Stored
              /\ drafts[d].active \in BOOLEAN
         /\ \A t \in Tabs : tabs[t] \in TabRecords
<1>1. drafts \in Seq(DraftRecords) /\ Len(drafts) <= MaxDrafts
      /\ \A t \in Tabs : tabs[t] \in TabRecords
  BY DEF TypeOK
<1>2. Len(drafts) \in 0..MaxDrafts /\ \A d \in 1..Len(drafts) : drafts[d] \in DraftRecords
  BY <1>1, DraftBounds
<1>3. \A draft \in DraftRecords : /\ draft.revision \in 0..MaxRevision
                                 /\ draft.documents \in Stored /\ draft.active \in BOOLEAN
  BY DEF DraftRecords
<1> QED BY <1>1, <1>2, <1>3

LEMMA NothingStored == Nothing \in Stored
<1>1. NoDocument \in AnyDocument
  BY DEF AnyDocument
<1> QED BY <1>1 DEF Nothing, Stored

LEMMA SameDraftsGrow ==
  ASSUME TypeOK, drafts' = drafts
  PROVE  DraftsGrow
BY DraftTypes, DraftBounds DEF DraftsGrow

\* A tab that does not move keeps its part of the invariant.
LEMMA TabKept ==
  ASSUME TypeOK, TypeOK', DraftsGrow, NEW tab \in TabRecords, TabOK(tab)
  PROVE  TabOK(tab)'
<1>0. /\ Len(drafts) \in Nat /\ Len(drafts') \in Nat
      /\ \A d \in 1..Len(drafts) : drafts[d].revision \in Int /\ drafts'[d].revision \in Int
      /\ \A d \in 1..Len(drafts) : d \in 1..Len(drafts')
      /\ tab.revision \in Int /\ tab.origin \in Nat /\ tab.draft \in Nat
  <2>1. Len(drafts) \in Nat /\ Len(drafts') \in Nat
    BY DEF TypeOK
  <2>2. \A d \in 1..Len(drafts) : d \in 1..Len(drafts')
    BY <2>1 DEF DraftsGrow
  <2>3. /\ \A d \in 1..Len(drafts) : drafts[d].revision \in Int
        /\ \A d \in 1..Len(drafts') : drafts'[d].revision \in Int
    <3>1. \A draft \in DraftRecords : draft.revision \in Int
      BY DraftBounds DEF DraftRecords
    <3>2. drafts \in Seq(DraftRecords) /\ drafts' \in Seq(DraftRecords)
      BY DEF TypeOK
    <3> QED BY <3>1, <3>2
  <2>4. tab.revision \in Int /\ tab.origin \in Nat /\ tab.draft \in Nat
    BY DraftBounds DEF TabRecords
  <2> QED BY <2>1, <2>2, <2>3, <2>4
<1>1. tab.pc # "idle" => tab.draft \in 1..Len(drafts')
  BY <1>0 DEF TabOK
<1>2. tab.origin # 0 =>
        tab.origin \in 1..Len(drafts') /\ tab.revision <= drafts'[tab.origin].revision
  BY <1>0 DEF TabOK, DraftsGrow
<1>3. ASSUME tab.origin = tab.draft, tab.draft \in 1..Len(drafts'), drafts'[tab.draft].active,
             drafts'[tab.draft].revision = tab.revision, NEW r \in Loaded(tab)
      PROVE  tab.inputs[r] = drafts'[tab.draft].documents[r]
  <2>1. tab.draft \in 1..Len(drafts) /\ tab.revision <= drafts[tab.draft].revision
    BY <1>0, <1>3 DEF TabOK
  <2>2. drafts[tab.draft].revision = tab.revision /\ drafts[tab.draft].active
        /\ drafts'[tab.draft].documents = drafts[tab.draft].documents
    BY <1>0, <1>3, <2>1, SMTT(40) DEF DraftsGrow
  <2> QED BY <1>3, <2>1, <2>2 DEF TabOK, Active
<1> QED BY <1>1, <1>2, <1>3 DEF TabOK, Active, Loaded

\* A step of one tab preserves the invariant if the tab's new state satisfies it.
LEMMA OneTab ==
  ASSUME DraftInv, DraftsGrow, drafts' \in Seq(DraftRecords), Len(drafts') <= MaxDrafts,
         NEW t \in Tabs, NEW tab \in TabRecords, Become(t, tab), TabOK(tab)'
  PROVE  DraftsGrow /\ DraftInv'
<1>1. /\ tabs' \in [Tabs -> TabRecords] /\ tabs'[t] = tab
      /\ \A u \in Tabs \ {t} : tabs'[u] = tabs[u]
  BY DEF Become, DraftInv, TypeOK
<1>2. TypeOK'
  BY <1>1 DEF TypeOK
<1>3. ASSUME NEW u \in Tabs PROVE TabOK(tabs[u])'
  <2>1. CASE u = t
    BY <1>1, <2>1 DEF TabOK, Loaded
  <2>2. CASE u # t
    <3> PICK kept \in TabRecords : kept = tabs[u]
      BY DraftTypes DEF DraftInv
    <3>1. TabOK(kept)
      BY DEF DraftInv
    <3>2. TabOK(kept)'
      BY <1>2, <3>1, TabKept DEF DraftInv
    <3>3. tabs'[u] = kept
      BY <1>1, <2>2
    <3> QED BY <3>2, <3>3 DEF TabOK, Loaded
  <2> QED BY <2>1, <2>2
<1> QED BY <1>2, <1>3 DEF DraftInv

LEMMA OneTabThen ==
  ASSUME DraftInv, DraftsGrow, drafts' \in Seq(DraftRecords), Len(drafts') <= MaxDrafts,
         NEW t \in Tabs, NEW tab \in TabRecords, Become(t, tab), TabOK(tab)
  PROVE  DraftsGrow /\ DraftInv'
<1>1. TypeOK'
  BY DEF Become, DraftInv, TypeOK
<1>2. TabOK(tab)'
  BY <1>1, TabKept DEF DraftInv
<1> QED BY <1>2, OneTab

LEMMA SameDrafts ==
  ASSUME DraftInv, drafts' = drafts,
         NEW t \in Tabs, NEW tab \in TabRecords, Become(t, tab), TabOK(tab)
  PROVE  DraftsGrow /\ DraftInv'
<1>1. DraftsGrow
  BY SameDraftsGrow DEF DraftInv
<1>2. drafts' \in Seq(DraftRecords) /\ Len(drafts') <= MaxDrafts
  BY DEF DraftInv, TypeOK
<1> QED BY <1>1, <1>2, OneTabThen

\* A tab that reads no more and stays with its draft, or has left it.
LEMMA SameReads ==
  ASSUME NEW tab \in TabRecords, NEW n \in TabRecords, TabOK(tab),
         n.draft = tab.draft, n.origin = tab.origin, n.revision = tab.revision,
         n.inputs = tab.inputs, Loaded(n) \subseteq Loaded(tab),
         n.pc # "idle" => tab.pc # "idle"
  PROVE  TabOK(n)
BY DEF TabOK

LEMMA AtRest ==
  ASSUME NEW tab \in TabRecords, NEW n \in TabRecords, TabOK(tab),
         n.pc = "idle", n.draft = 0, n.origin = tab.origin, n.revision = tab.revision
  PROVE  TabOK(n)
BY DEF TabOK, Active

LEMMA RestedFields ==
  ASSUME NEW tab \in TabRecords
  PROVE  /\ Rested(tab) \in TabRecords
         /\ Rested(tab).pc = "idle" /\ Rested(tab).draft = 0
         /\ Rested(tab).origin = tab.origin /\ Rested(tab).revision = tab.revision
<1>1. Nothing \in Stored /\ 0 \in 0..MaxDrafts
  BY NothingStored, DraftBounds
<1> QED BY <1>1 DEF Rested, TabRecords, Pcs, Clicks

LEMMA EndRunOK ==
  ASSUME DraftInv, NEW t \in Tabs, EndRun(t), drafts' = drafts
  PROVE  DraftsGrow /\ DraftInv'
<1>1. tabs[t] \in TabRecords /\ TabOK(tabs[t])
  BY DraftTypes DEF DraftInv
<1>2. Rested(tabs[t]) \in TabRecords /\ TabOK(Rested(tabs[t]))
  BY <1>1, RestedFields, AtRest
<1> QED BY <1>2, SameDrafts DEF EndRun

LEMMA InitDraftInv == Init => DraftInv
<1> SUFFICES ASSUME Init PROVE DraftInv
  OBVIOUS
<1>1. NewTab \in TabRecords
  <2>1. Nothing \in Stored /\ 0 \in 0..MaxDrafts /\ -1 \in -1..MaxRevision
    BY NothingStored, DraftBounds
  <2> QED BY <2>1 DEF NewTab, TabRecords, Pcs, Clicks
<1>2. TypeOK
  BY <1>1, DraftBounds DEF Init, TypeOK
<1>3. TabOK(NewTab)
  BY DEF NewTab, TabOK, Loaded, Active
<1> QED BY <1>2, <1>3 DEF DraftInv, Init

-----------------------------------------------------------------------------
\* The operator between two runs.
LEMMA BrowseOK ==
  ASSUME DraftInv, NEW t \in Tabs, Browse(t)
  PROVE  DraftsGrow /\ DraftInv'
<1> DEFINE tab == tabs[t]
<1>0. /\ tab \in TabRecords /\ TabOK(tab) /\ Len(drafts) \in Nat
      /\ drafts \in Seq(DraftRecords) /\ Len(drafts) <= MaxDrafts
  BY DraftTypes, DraftBounds DEF DraftInv, TypeOK
<1>1. ASSUME NEW r \in Roles, NEW doc \in Documents[t][r] \cup {NoDocument}, ChooseFile(t, r, doc)
      PROVE  DraftsGrow /\ DraftInv'
  <2> DEFINE n == [tab EXCEPT !.widget[r] = doc]
  <2>1. doc \in AnyDocument
    BY DEF AnyDocument
  <2>2. /\ n \in TabRecords /\ n.draft = tab.draft /\ n.origin = tab.origin
        /\ n.revision = tab.revision /\ n.inputs = tab.inputs /\ n.pc = tab.pc /\ n.todo = tab.todo
    BY <1>0, <2>1 DEF TabRecords, Stored
  <2>3. Become(t, n) /\ drafts' = drafts
    BY <1>1 DEF ChooseFile
  <2>4. TabOK(n)
    <3> HIDE DEF n
    <3> QED BY <1>0, <2>2, SameReads DEF Loaded
  <2> QED BY <2>2, <2>3, <2>4, SameDrafts
<1>2. ASSUME NEW r \in Roles, ConfirmReplacement(t, r) PROVE DraftsGrow /\ DraftInv'
  <2> DEFINE n == [tab EXCEPT !.replace = @ \cup {r}]
  <2>1. /\ n \in TabRecords /\ n.draft = tab.draft /\ n.origin = tab.origin
        /\ n.revision = tab.revision /\ n.inputs = tab.inputs /\ n.pc = tab.pc /\ n.todo = tab.todo
    BY <1>0 DEF TabRecords
  <2>2. Become(t, n) /\ drafts' = drafts
    BY <1>2 DEF ConfirmReplacement
  <2>3. TabOK(n)
    <3> HIDE DEF n
    <3> QED BY <1>0, <2>1, SameReads DEF Loaded
  <2> QED BY <2>1, <2>2, <2>3, SameDrafts
<1>3. ASSUME CloseTab(t) PROVE DraftsGrow /\ DraftInv'
  <2>1. NewTab \in TabRecords
    <3>1. Nothing \in Stored /\ 0 \in 0..MaxDrafts /\ -1 \in -1..MaxRevision
      BY NothingStored, DraftBounds
    <3> QED BY <3>1 DEF NewTab, TabRecords, Pcs, Clicks
  <2>2. TabOK(NewTab)
    BY DEF NewTab, TabOK, Loaded, Active
  <2> QED BY <1>3, <2>1, <2>2, SameDrafts DEF CloseTab
<1>4. ASSUME NEW click \in Clicks, BeginRun(t, click) PROVE DraftsGrow /\ DraftInv'
  <2> DEFINE resumes == Active(Len(drafts))
             d == IF resumes THEN Len(drafts) ELSE Len(drafts) + 1
             fresh == [active |-> TRUE, revision |-> 0, documents |-> Nothing]
             n == [tab EXCEPT !.pc = "open", !.click = click, !.draft = d, !.offered = FALSE]
  <2>1. /\ Become(t, n) /\ d <= MaxDrafts
        /\ drafts' = IF resumes THEN drafts ELSE Append(drafts, fresh)
    BY <1>4 DEF BeginRun
  <2>2. d \in 0..MaxDrafts
    BY <1>0, <2>1, DraftBounds
  <2>3. /\ n \in TabRecords /\ n.draft = d /\ n.origin = tab.origin
        /\ n.revision = tab.revision /\ n.pc = "open"
    <3> HIDE DEF d
    <3> QED BY <1>0, <2>2 DEF TabRecords, Pcs
  <2>4. fresh \in DraftRecords
    BY NothingStored, DraftBounds DEF DraftRecords
  <2>5. /\ drafts' \in Seq(DraftRecords) /\ Len(drafts') <= MaxDrafts
        /\ d \in 1..Len(drafts') /\ Len(drafts) <= Len(drafts')
        /\ \A e \in 1..Len(drafts) : e \in 1..Len(drafts') /\ drafts'[e] = drafts[e]
    <3>1. CASE resumes
      BY <1>0, <2>1, <3>1 DEF Active
    <3>2. CASE ~resumes
      <4> HIDE DEF fresh, resumes
      <4>1. drafts' = Append(drafts, fresh) /\ Len(drafts) + 1 <= MaxDrafts
        BY <2>1, <3>2
      <4> QED BY <1>0, <2>4, <3>2, <4>1
    <3> QED BY <3>1, <3>2
  <2>6. DraftsGrow
    BY <2>5, DraftTypes, DraftBounds DEF DraftsGrow, DraftInv
  <2> PICK started \in TabRecords : started = n
    BY <2>3
  <2>7. TabOK(started)'
    <3>1. /\ started.pc = "open" /\ started.draft \in 1..Len(drafts')
          /\ started.origin = tab.origin /\ started.revision = tab.revision
      BY <2>3, <2>5
    <3>2. started.origin # 0 =>
            started.origin \in 1..Len(drafts) /\ started.revision <= drafts[started.origin].revision
      BY <1>0, <3>1 DEF TabOK
    <3>3. started.origin # 0 =>
            started.origin \in 1..Len(drafts') /\ started.revision <= drafts'[started.origin].revision
      BY <2>5, <3>2
    <3> QED BY <3>1, <3>3 DEF TabOK, Loaded
  <2>8. Become(t, started)
    BY <2>1
  <2> QED BY <2>5, <2>6, <2>7, <2>8, OneTab
<1> QED BY <1>1, <1>2, <1>3, <1>4 DEF Browse

LEMMA AbandonOK ==
  ASSUME DraftInv, Abandon
  PROVE  DraftsGrow /\ DraftInv'
<1>1. PICK d \in 1..Len(drafts) :
        Active(d) /\ drafts' = [drafts EXCEPT ![d].active = FALSE]
  BY DEF Abandon
<1>2. drafts \in Seq(DraftRecords) /\ Len(drafts) <= MaxDrafts /\ tabs' = tabs
  BY DEF DraftInv, TypeOK, Abandon
<1>3. /\ drafts' \in Seq(DraftRecords) /\ Len(drafts') = Len(drafts)
      /\ drafts'[d].active = FALSE /\ drafts'[d].revision = drafts[d].revision
      /\ drafts'[d].documents = drafts[d].documents
      /\ \A e \in 1..Len(drafts) : e # d => drafts'[e] = drafts[e]
  <2> DEFINE closed == [drafts[d] EXCEPT !.active = FALSE]
  <2>1. drafts' = [drafts EXCEPT ![d] = closed]
    BY <1>1
  <2>2. /\ closed \in DraftRecords /\ closed.active = FALSE
        /\ closed.revision = drafts[d].revision /\ closed.documents = drafts[d].documents
    <3>1. drafts[d] \in DraftRecords
      BY <1>2
    <3> QED BY <3>1 DEF DraftRecords
  <2> HIDE DEF closed
  <2> QED BY <1>2, <2>1, <2>2
<1>4. \A e \in 1..Len(drafts) : drafts[e].revision \in Int /\ drafts[e].active \in BOOLEAN
  BY DraftTypes, DraftBounds DEF DraftInv
<1>5. DraftsGrow
  BY <1>1, <1>2, <1>3, <1>4 DEF DraftsGrow, Active
<1>6. TypeOK'
  BY <1>2, <1>3 DEF TypeOK, DraftInv
<1>7. ASSUME NEW t \in Tabs PROVE TabOK(tabs[t])'
  <2> PICK tab \in TabRecords : tab = tabs[t]
    BY DraftTypes DEF DraftInv
  <2>1. TabOK(tab)
    BY DEF DraftInv
  <2>2. TabOK(tab)'
    BY <1>5, <1>6, <2>1, TabKept DEF DraftInv
  <2> QED BY <1>2, <2>2 DEF TabOK, Loaded
<1> QED BY <1>5, <1>6, <1>7 DEF DraftInv

-----------------------------------------------------------------------------
\* The running script.
LEMMA SavingFields ==
  ASSUME NEW tab \in TabRecords, NEW rest \in SUBSET Roles
  PROVE  LET n == Saving(tab, rest) IN
         /\ n \in TabRecords /\ n.pc \in {"signature", "save"}
         /\ n.draft = tab.draft /\ n.origin = tab.origin
         /\ n.revision = tab.revision /\ n.inputs = tab.inputs
BY DEF Saving, TabRecords, Pcs

\* Reading one more role of an active draft, or finding none of a closed one.
LEMMA ReadOneMore ==
  ASSUME TypeOK, NEW tab \in TabRecords, TabOK(tab), tab.draft \in 1..Len(drafts),
         NEW r \in Roles, NEW n \in TabRecords, n.pc # "idle",
         n.draft = tab.draft, n.origin = tab.origin, n.revision = tab.revision,
         n.inputs = [tab.inputs EXCEPT ![r] = Document(tab.draft, r)],
         Loaded(n) \subseteq Loaded(tab) \cup {r}
  PROVE  TabOK(n)
<1>1. /\ n.inputs[r] = Document(tab.draft, r)
      /\ \A q \in Roles \ {r} : n.inputs[q] = tab.inputs[q]
  BY DEF TabRecords, Stored
<1>2. Loaded(n) \subseteq Roles
  BY DEF Loaded, TabRecords
<1> QED BY <1>1, <1>2 DEF TabOK, Document

LEMMA DocumentStored ==
  ASSUME TypeOK, NEW d \in Nat, NEW r \in Roles
  PROVE  Document(d, r) \in AnyDocument
<1>1. NoDocument \in AnyDocument
  BY DEF AnyDocument
<1> QED BY <1>1, DraftTypes DEF Document, Active, Stored

LEMMA ReadingOK ==
  ASSUME DraftInv, NEW t \in Tabs,
         OpenDraft(t) \/ (\E r \in Roles : RestoreRole(t, r) \/ Reread(t, r))
  PROVE  DraftsGrow /\ DraftInv'
<1> DEFINE tab == tabs[t]
<1>0. /\ tab \in TabRecords /\ TabOK(tab) /\ TypeOK /\ tab.draft \in Nat
      /\ tab.pc # "idle" => tab.draft \in 1..Len(drafts)
  <2>1. tab \in TabRecords /\ TabOK(tab) /\ TypeOK
    BY DraftTypes DEF DraftInv
  <2> QED BY <2>1, DraftBounds DEF TabOK, TabRecords
<1>1. ASSUME OpenDraft(t), Active(tab.draft) PROVE DraftsGrow /\ DraftInv'
  <2> DEFINE n == [tab EXCEPT !.pc = "restore", !.todo = Roles]
  <2>1. /\ n \in TabRecords /\ n.pc = "restore" /\ n.todo = Roles
        /\ n.draft = tab.draft /\ n.origin = tab.origin
        /\ n.revision = tab.revision /\ n.inputs = tab.inputs
    BY <1>0 DEF TabRecords, Pcs
  <2>2. Become(t, n) /\ drafts' = drafts /\ tab.pc = "open"
    BY <1>1 DEF OpenDraft, At
  <2>3. TabOK(n)
    <3> HIDE DEF n
    <3>1. Loaded(n) = {}
      BY <2>1 DEF Loaded
    <3> QED BY <1>0, <2>1, <2>2, <3>1, SameReads
  <2> QED BY <2>1, <2>2, <2>3, SameDrafts
<1>2. ASSUME OpenDraft(t), ~Active(tab.draft) PROVE DraftsGrow /\ DraftInv'
  BY <1>2, EndRunOK DEF OpenDraft
<1>3. ASSUME NEW r \in Roles, RestoreRole(t, r) PROVE DraftsGrow /\ DraftInv'
  <2> DEFINE read == [tab EXCEPT !.inputs = [tab.inputs EXCEPT ![r] = Document(tab.draft, r)]]
             chosen == {role \in Roles : tab.widget[role] # NoDocument}
  <2>1. /\ read \in TabRecords /\ read.pc = tab.pc /\ read.todo = tab.todo
        /\ read.draft = tab.draft /\ read.origin = tab.origin /\ read.revision = tab.revision
        /\ read.inputs = [tab.inputs EXCEPT ![r] = Document(tab.draft, r)]
    BY <1>0, DocumentStored DEF TabRecords, Stored
  <2>2. tab.pc = "restore" /\ r \in tab.todo /\ drafts' = drafts /\ tab.todo \subseteq Roles
    BY <1>0, <1>3 DEF RestoreRole, At, TabRecords
  <2>3. CASE tab.todo = {r}
    <3>1. Become(t, Saving(read, chosen)) /\ chosen \in SUBSET Roles
      BY <1>3, <2>3 DEF RestoreRole
    <3>2. PICK n \in TabRecords : n = Saving(read, chosen)
      BY <2>1, <3>1, SavingFields
    <3>3. /\ n.pc # "idle" /\ n.draft = tab.draft /\ n.origin = tab.origin
          /\ n.revision = tab.revision
          /\ n.inputs = [tab.inputs EXCEPT ![r] = Document(tab.draft, r)]
      <4> HIDE DEF read, chosen
      <4> QED BY <2>1, <3>1, <3>2, SavingFields
    <3>4. Loaded(n) \subseteq Loaded(tab) \cup {r}
      BY <2>2, <2>3 DEF Loaded
    <3>5. TabOK(n)
      BY <1>0, <2>2, <3>3, <3>4, ReadOneMore
    <3> QED BY <2>2, <3>1, <3>2, <3>5, SameDrafts
  <2>4. CASE tab.todo # {r}
    <3>0. PICK so \in TabRecords :
            /\ so.pc = "restore" /\ so.todo = tab.todo /\ so.draft = tab.draft
            /\ so.origin = tab.origin /\ so.revision = tab.revision
            /\ so.inputs = read.inputs /\ so = read
      <4> HIDE DEF read
      <4> QED BY <2>1, <2>2
    <3> DEFINE n == [so EXCEPT !.todo = tab.todo \ {r}]
    <3>1. /\ n \in TabRecords /\ n.pc = "restore" /\ n.todo = tab.todo \ {r}
          /\ n.draft = tab.draft /\ n.origin = tab.origin /\ n.revision = tab.revision
          /\ n.inputs = [tab.inputs EXCEPT ![r] = Document(tab.draft, r)]
      <4>1. n \in TabRecords
        BY <2>2 DEF TabRecords
      <4>2. /\ n.pc = so.pc /\ n.todo = tab.todo \ {r} /\ n.draft = so.draft
            /\ n.origin = so.origin /\ n.revision = so.revision /\ n.inputs = so.inputs
        BY DEF TabRecords
      <4> HIDE DEF n
      <4> QED BY <2>1, <3>0, <4>1, <4>2
    <3>2. Become(t, n)
      BY <1>3, <2>1, <2>4, <3>0 DEF RestoreRole
    <3> HIDE DEF n
    <3>3. Loaded(n) \subseteq Loaded(tab) \cup {r}
      BY <2>2, <3>1 DEF Loaded
    <3>4. TabOK(n)
      BY <1>0, <2>2, <3>1, <3>3, ReadOneMore
    <3> QED BY <2>2, <3>1, <3>2, <3>4, SameDrafts
  <2> QED BY <2>3, <2>4
<1>4. ASSUME NEW r \in Roles, Reread(t, r), ~EndRun(t) PROVE DraftsGrow /\ DraftInv'
  <2> DEFINE read == [tab EXCEPT !.inputs = [tab.inputs EXCEPT ![r] = Document(tab.draft, r)]]
  <2>1. /\ read \in TabRecords /\ read.todo = tab.todo
        /\ read.draft = tab.draft /\ read.origin = tab.origin /\ read.revision = tab.revision
        /\ read.inputs = [tab.inputs EXCEPT ![r] = Document(tab.draft, r)]
    BY <1>0, DocumentStored DEF TabRecords, Stored
  <2>2. tab.pc = "reread" /\ drafts' = drafts /\ tab.todo \ {r} \in SUBSET Roles
    BY <1>0, <1>4 DEF Reread, At, TabRecords
  <2>3. Become(t, Saving(read, tab.todo \ {r}))
    BY <1>4, <2>1 DEF Reread, RoleDone
  <2>4. PICK n \in TabRecords : n = Saving(read, tab.todo \ {r})
    BY <2>1, <2>2, SavingFields
  <2>5. /\ n.pc \in {"signature", "save"} /\ n.draft = tab.draft /\ n.origin = tab.origin
        /\ n.revision = tab.revision
        /\ n.inputs = [tab.inputs EXCEPT ![r] = Document(tab.draft, r)]
    <3> HIDE DEF read
    <3> QED BY <2>1, <2>2, <2>4, SavingFields
  <2>6. Loaded(n) \subseteq Loaded(tab) \cup {r}
    BY <2>2, <2>5 DEF Loaded
  <2>7. TabOK(n)
    BY <1>0, <2>2, <2>5, <2>6, ReadOneMore
  <2> QED BY <2>2, <2>3, <2>4, <2>7, SameDrafts
<1>5. ASSUME NEW r \in Roles, Reread(t, r), EndRun(t) PROVE DraftsGrow /\ DraftInv'
  BY <1>5, EndRunOK DEF Reread
<1> QED BY <1>1, <1>2, <1>3, <1>4, <1>5

LEMMA SavingOK ==
  ASSUME DraftInv, NEW t \in Tabs,
         UploadRefused(t) \/ (\E r \in Roles : UploadConflict(t, r) \/ Upload(t, r))
  PROVE  DraftsGrow /\ DraftInv'
<1> DEFINE tab == tabs[t]
<1>0. /\ tab \in TabRecords /\ TabOK(tab) /\ TypeOK
      /\ drafts \in Seq(DraftRecords) /\ Len(drafts) <= MaxDrafts
      /\ NoDocument \in AnyDocument
  BY DraftTypes DEF DraftInv, TypeOK, AnyDocument
<1>1. ASSUME UploadRefused(t) PROVE DraftsGrow /\ DraftInv'
  BY <1>1, EndRunOK DEF UploadRefused
<1>2. ASSUME NEW r \in Roles, UploadConflict(t, r) PROVE DraftsGrow /\ DraftInv'
  <2> DEFINE held == Document(tab.draft, r)
             told == [tab EXCEPT !.met[r] = held]
  <2>1. tab.pc = "save" /\ drafts' = drafts /\ tab.todo \ {r} \in SUBSET Roles
    BY <1>0, <1>2 DEF UploadConflict, At, TabRecords
  <2>2. held \in AnyDocument
    <3>1. tab.draft \in Nat
      BY <1>0, DraftBounds DEF TabRecords
    <3> QED BY <1>0, <3>1, DocumentStored
  <2>3. /\ told \in TabRecords /\ told.todo = tab.todo /\ told.draft = tab.draft
        /\ told.origin = tab.origin /\ told.revision = tab.revision /\ told.inputs = tab.inputs
    <3> HIDE DEF held
    <3> QED BY <1>0, <2>2 DEF TabRecords, Stored
  <2>4. Become(t, Saving(told, tab.todo \ {r}))
    BY <1>2, <2>3 DEF UploadConflict, RoleDone
  <2>5. PICK n \in TabRecords : n = Saving(told, tab.todo \ {r})
    BY <2>1, <2>3, SavingFields
  <2>6. /\ n.pc \in {"signature", "save"} /\ n.draft = tab.draft /\ n.origin = tab.origin
        /\ n.revision = tab.revision /\ n.inputs = tab.inputs
    <3> HIDE DEF told
    <3> QED BY <2>1, <2>3, <2>5, SavingFields
  <2>7. TabOK(n)
    <3>1. Loaded(n) \subseteq Loaded(tab)
      BY <2>1, <2>6 DEF Loaded
    <3> QED BY <1>0, <2>1, <2>6, <3>1, SameReads
  <2> QED BY <2>1, <2>4, <2>5, <2>7, SameDrafts
<1>3. ASSUME NEW r \in Roles, Upload(t, r) PROVE DraftsGrow /\ DraftInv'
  <2> DEFINE d == tab.draft
             file == tab.widget[r]
             held == Document(d, r)
             n == [tab EXCEPT !.pc = "reread", !.saving = {r},
                              !.met[r] = NoDocument, !.replace = @ \ {r}]
  <2>1. /\ tab.pc = "save" /\ Active(d) /\ Become(t, n)
        /\ held = file => drafts' = drafts
        /\ held # file => /\ drafts[d].revision < MaxRevision
                          /\ drafts' = [drafts EXCEPT ![d] = Received(drafts[d], r, file)]
    BY <1>3 DEF Upload, At
  <2>2. /\ n \in TabRecords /\ n.pc = "reread" /\ n.draft = tab.draft /\ n.origin = tab.origin
        /\ n.revision = tab.revision /\ n.inputs = tab.inputs
    BY <1>0 DEF TabRecords, Stored, Pcs
  <2>3. TabOK(n)
    <3> HIDE DEF n
    <3>1. Loaded(n) \subseteq Loaded(tab)
      BY <2>1, <2>2 DEF Loaded
    <3> QED BY <1>0, <2>1, <2>2, <3>1, SameReads
  <2>4. CASE held = file
    BY <2>1, <2>2, <2>3, <2>4, SameDrafts
  <2>5. CASE held # file
    <3> HIDE DEF n, held
    <3>1. /\ d \in 1..Len(drafts) /\ drafts[d] \in DraftRecords /\ file \in AnyDocument
          /\ drafts[d].revision \in 0..MaxRevision /\ drafts[d].documents \in Stored
      BY <1>0, <2>1, DraftTypes DEF Active, TabRecords, Stored
    <3>2. PICK got \in DraftRecords :
            /\ drafts' = [drafts EXCEPT ![d] = got]
            /\ got.revision = drafts[d].revision + 1 /\ got.active = drafts[d].active
      <4> DEFINE more == [drafts[d].documents EXCEPT ![r] = file]
                 next == drafts[d].revision + 1
                 got == Received(drafts[d], r, file)
      <4>1. more \in Stored /\ next \in 0..MaxRevision
        BY <2>1, <2>5, <3>1, DraftBounds DEF Stored
      <4>2. got = [drafts[d] EXCEPT !.documents = more, !.revision = next]
        BY DEF Received
      <4>3. got \in DraftRecords /\ got.revision = next /\ got.active = drafts[d].active
        <5> HIDE DEF more, next, got
        <5> QED BY <3>1, <4>1, <4>2 DEF DraftRecords
      <4>4. drafts' = [drafts EXCEPT ![d] = got]
        BY <2>1, <2>5
      <4> HIDE DEF got
      <4> QED BY <4>3, <4>4
    <3>3. /\ drafts' \in Seq(DraftRecords) /\ Len(drafts') = Len(drafts) /\ drafts'[d] = got
          /\ \A e \in 1..Len(drafts) : e # d => drafts'[e] = drafts[e]
      BY <1>0, <3>1, <3>2
    <3>4. \A e \in 1..Len(drafts) : drafts[e].revision \in Int
      BY <1>0, DraftTypes, DraftBounds
    <3>5. DraftsGrow
      BY <1>0, <2>1, <3>1, <3>2, <3>3, <3>4 DEF DraftsGrow, Active
    <3> QED BY <1>0, <2>1, <2>2, <2>3, <3>3, <3>5, OneTabThen
  <2> QED BY <2>4, <2>5
<1> QED BY <1>1, <1>2, <1>3

\* Validate and what follows the comparison of the signatures.
LEMMA DecidingOK ==
  ASSUME DraftInv, NEW t \in Tabs,
         Validate(t) \/ CompareSignature(t) \/ CheckRevision(t)
           \/ Approve(t) \/ Execute(t) \/ Interrupt(t)
  PROVE  DraftsGrow /\ DraftInv'
<1> DEFINE tab == tabs[t]
           rest == Rested(tab)
<1>0. /\ tab \in TabRecords /\ TabOK(tab) /\ TypeOK /\ Nothing \in Stored
      /\ rest \in TabRecords /\ rest.pc = "idle" /\ rest.draft = 0
      /\ rest.origin = tab.origin /\ rest.revision = tab.revision
  <2>1. tab \in TabRecords /\ TabOK(tab) /\ TypeOK
    BY DraftTypes DEF DraftInv
  <2> QED BY <2>1, RestedFields, NothingStored
<1>1. tab.inputs \in Stored /\ tab.reviewed \in Stored
  BY <1>0 DEF TabRecords
<1>2. ASSUME Validate(t), Active(tab.draft) PROVE DraftsGrow /\ DraftInv'
  <2> DEFINE current == drafts[tab.draft].revision
             n == [rest EXCEPT !.validated = tab.inputs, !.origin = tab.draft,
                               !.revision = current, !.reviewed = Nothing, !.offered = TRUE]
  <2>1. Become(t, n) /\ drafts' = drafts
    BY <1>2 DEF Validate
  <2>2. /\ tab.draft \in 1..Len(drafts) /\ tab.draft \in 0..MaxDrafts
        /\ current \in -1..MaxRevision /\ current \in Int
    BY <1>0, <1>2, DraftTypes, DraftBounds DEF Active, TabRecords
  <2>3. /\ n \in TabRecords /\ n.pc = "idle" /\ n.draft = 0
        /\ n.origin = tab.draft /\ n.revision = current
    <3> HIDE DEF rest, current
    <3> QED BY <1>0, <1>1, <2>2 DEF TabRecords
  <2>4. TabOK(n)
    <3> HIDE DEF n
    <3> QED BY <2>2, <2>3 DEF TabOK, Active
  <2> QED BY <2>1, <2>3, <2>4, SameDrafts
<1>3. ASSUME Validate(t), ~Active(tab.draft) PROVE DraftsGrow /\ DraftInv'
  <2> DEFINE n == [rest EXCEPT !.validated = tab.inputs]
  <2>1. Become(t, n) /\ drafts' = drafts
    BY <1>3 DEF Validate
  <2>2. /\ n \in TabRecords /\ n.pc = "idle" /\ n.draft = 0
        /\ n.origin = tab.origin /\ n.revision = tab.revision
    <3> HIDE DEF rest
    <3> QED BY <1>0, <1>1 DEF TabRecords
  <2>3. TabOK(n)
    <3> HIDE DEF n
    <3> QED BY <1>0, <2>2, AtRest
  <2> QED BY <2>1, <2>2, <2>3, SameDrafts
<1>4. ASSUME NEW n \in TabRecords, Become(t, n), drafts' = drafts, tab.pc # "idle",
             Loaded(tab) = Roles, n.draft = tab.draft, n.origin = tab.origin,
             n.revision = tab.revision, n.inputs = tab.inputs
      PROVE  DraftsGrow /\ DraftInv'
  <2>1. Loaded(n) \subseteq Loaded(tab)
    BY <1>4 DEF Loaded, TabRecords
  <2>2. TabOK(n)
    BY <1>0, <1>4, <2>1, SameReads
  <2> QED BY <1>4, <2>2, SameDrafts
<1>5. ASSUME NEW n \in TabRecords, Become(t, n), drafts' = drafts, n.pc = "idle",
             n.draft = 0, n.origin = tab.origin, n.revision = tab.revision
      PROVE  DraftsGrow /\ DraftInv'
  <2>1. TabOK(n)
    BY <1>0, <1>5, AtRest
  <2> QED BY <1>5, <2>1, SameDrafts
<1>6. ASSUME CompareSignature(t) PROVE DraftsGrow /\ DraftInv'
  <2> DEFINE n == [tab EXCEPT !.pc = "check"]
  <2>1. tab.pc = "signature" /\ drafts' = drafts /\ (Become(t, n) \/ EndRun(t))
    BY <1>6 DEF CompareSignature, At
  <2>2. CASE Become(t, n)
    <3>1. /\ n \in TabRecords /\ n.draft = tab.draft /\ n.origin = tab.origin
          /\ n.revision = tab.revision /\ n.inputs = tab.inputs
      BY <1>0 DEF TabRecords, Pcs
    <3>2. Loaded(tab) = Roles
      BY <2>1 DEF Loaded
    <3> HIDE DEF n
    <3> QED BY <1>4, <2>1, <2>2, <3>1, <3>2
  <2>3. CASE EndRun(t)
    BY <2>1, <2>3, EndRunOK
  <2> QED BY <2>1, <2>2, <2>3
<1>7. ASSUME CheckRevision(t) PROVE DraftsGrow /\ DraftInv'
  <2>1. tab.pc = "check" /\ drafts' = drafts /\ Loaded(tab) = Roles
    BY <1>7 DEF CheckRevision, At, Loaded
  <2> PICK kept \in Stored, next \in {"execute", "approve", "idle"} :
        LET passed == [tab EXCEPT !.pc = next, !.offered = TRUE, !.reviewed = kept]
        IN  Become(t, passed) \/ Become(t, Rested(passed)) \/ Become(t, rest)
    <3> DEFINE kept == IF tab.click # "finalize" /\ tab.reviewed = tab.inputs
                       THEN tab.reviewed ELSE Nothing
               next == IF tab.click = "finalize" THEN "execute"
                       ELSE IF tab.click = "exception" /\ kept # Nothing THEN "approve" ELSE "idle"
    <3>1. kept \in Stored /\ next \in {"execute", "approve", "idle"}
      BY <1>0, <1>1
    <3> QED BY <1>7, <3>1 DEF CheckRevision
  <2> DEFINE passed == [tab EXCEPT !.pc = next, !.offered = TRUE, !.reviewed = kept]
  <2>2. /\ passed \in TabRecords /\ passed.pc = next /\ passed.draft = tab.draft
        /\ passed.origin = tab.origin /\ passed.revision = tab.revision
        /\ passed.inputs = tab.inputs
    BY <1>0, ZenonT(60) DEF TabRecords, Pcs
  <2>3. Become(t, passed) \/ Become(t, Rested(passed)) \/ Become(t, rest)
    OBVIOUS
  <2> HIDE DEF passed, rest
  <2>4. CASE Become(t, passed)
    BY <1>4, <2>1, <2>2, <2>4
  <2>5. CASE Become(t, Rested(passed))
    <3>1. /\ Rested(passed) \in TabRecords /\ Rested(passed).pc = "idle"
          /\ Rested(passed).draft = 0 /\ Rested(passed).origin = tab.origin
          /\ Rested(passed).revision = tab.revision
      BY <2>2, RestedFields
    <3> QED BY <1>5, <2>1, <2>5, <3>1
  <2>6. CASE Become(t, rest)
    BY <1>0, <1>5, <2>1, <2>6
  <2> QED BY <2>3, <2>4, <2>5, <2>6
<1>8. ASSUME Approve(t) PROVE DraftsGrow /\ DraftInv'
  <2> DEFINE n == [tab EXCEPT !.pc = "execute"]
  <2>1. tab.pc = "approve" /\ drafts' = drafts /\ (Become(t, n) \/ Become(t, rest))
    BY <1>8 DEF Approve, At
  <2>2. CASE Become(t, n)
    <3>1. /\ n \in TabRecords /\ n.draft = tab.draft /\ n.origin = tab.origin
          /\ n.revision = tab.revision /\ n.inputs = tab.inputs
      BY <1>0 DEF TabRecords, Pcs
    <3>2. Loaded(tab) = Roles
      BY <2>1 DEF Loaded
    <3> HIDE DEF n
    <3> QED BY <1>4, <2>1, <2>2, <3>1, <3>2
  <2>3. CASE Become(t, rest)
    <3> HIDE DEF rest
    <3> QED BY <1>0, <1>5, <2>1, <2>3
  <2> QED BY <2>1, <2>2, <2>3
<1>9. ASSUME Execute(t) PROVE DraftsGrow /\ DraftInv'
  <2> PICK reviewed \in Stored : Become(t, [rest EXCEPT !.reviewed = reviewed])
    BY <1>0, <1>1, <1>9 DEF Execute
  <2> DEFINE n == [rest EXCEPT !.reviewed = reviewed]
  <2>1. drafts' = drafts /\ Become(t, n)
    BY <1>9 DEF Execute
  <2>2. /\ n \in TabRecords /\ n.pc = "idle" /\ n.draft = 0
        /\ n.origin = tab.origin /\ n.revision = tab.revision
    <3> HIDE DEF rest
    <3> QED BY <1>0 DEF TabRecords
  <2> HIDE DEF n
  <2> QED BY <1>5, <2>1, <2>2
<1>10. ASSUME Interrupt(t) PROVE DraftsGrow /\ DraftInv'
  BY <1>10, EndRunOK DEF Interrupt
<1> QED BY <1>2, <1>3, <1>6, <1>7, <1>8, <1>9, <1>10

LEMMA NextDraftInv ==
  ASSUME DraftInv, [Next]_vars
  PROVE  DraftsGrow /\ DraftInv'
<1>1. CASE Abandon
  BY <1>1, AbandonOK
<1>2. ASSUME NEW t \in Tabs, Browse(t) PROVE DraftsGrow /\ DraftInv'
  BY <1>2, BrowseOK
<1>3. ASSUME NEW t \in Tabs, Script(t) PROVE DraftsGrow /\ DraftInv'
  BY <1>3, ReadingOK, SavingOK, DecidingOK DEF Script
<1>4. CASE UNCHANGED vars
  <2>1. drafts' = drafts /\ tabs' = tabs
    BY <1>4 DEF vars
  <2>2. DraftsGrow
    BY <2>1, SameDraftsGrow DEF DraftInv
  <2> QED BY <2>1, <2>2 DEF DraftInv, TypeOK, TabOK, Loaded, Active
<1> QED BY <1>1, <1>2, <1>3, <1>4 DEF Next

\* Only the two revision checks let a run go on to the finalization.
LEMMA EntersExecution ==
  ASSUME DraftInv, [Next]_vars, NEW t \in Tabs,
         tabs[t].pc # "execute", tabs'[t].pc = "execute"
  PROVE  /\ RevisionUnchanged(tabs[t]) /\ tabs[t].pc \in {"check", "approve"}
         /\ drafts' = drafts
<1> DEFINE tab == tabs[t]
<1>0. tabs \in [Tabs -> TabRecords] /\ tab \in TabRecords
  BY DEF DraftInv, TypeOK
<1>1. ~Abandon /\ ~UNCHANGED vars
  BY DEF Abandon, vars
<1>2. PICK u \in Tabs : Browse(u) \/ Script(u)
  BY <1>1 DEF Next
<1>3. ASSUME NEW n, Become(u, n) PROVE u = t /\ n.pc = "execute"
  <2>1. tabs'[t] = IF t = u THEN n ELSE tabs[t]
    BY <1>0, <1>3 DEF Become
  <2> QED BY <2>1
<1>4. PICK own \in TabRecords : own = tabs[u]
  BY <1>0
<1>5. ~EndRun(u) /\ ~Become(u, Rested(own))
  <2>1. Rested(own).pc = "idle"
    BY RestedFields
  <2>2. ~Become(u, Rested(own))
    BY <1>3, <2>1
  <2> QED BY <1>4, <2>2 DEF EndRun
<1>6. ~Browse(u)
  <2>1. ASSUME NEW r \in Roles, NEW doc, ChooseFile(u, r, doc) PROVE FALSE
    <3>1. Become(u, [own EXCEPT !.widget[r] = doc]) /\ own.pc = "idle"
      BY <1>4, <2>1 DEF ChooseFile, At
    <3> QED BY <1>3, <3>1 DEF TabRecords
  <2>2. ASSUME NEW r \in Roles, ConfirmReplacement(u, r) PROVE FALSE
    <3>1. Become(u, [own EXCEPT !.replace = @ \cup {r}]) /\ own.pc = "idle"
      BY <1>4, <2>2 DEF ConfirmReplacement, At
    <3> QED BY <1>3, <3>1 DEF TabRecords
  <2>3. ASSUME CloseTab(u) PROVE FALSE
    BY <1>3, <2>3 DEF CloseTab, NewTab
  <2>4. ASSUME NEW click, BeginRun(u, click) PROVE FALSE
    <3> DEFINE d == IF Active(Len(drafts)) THEN Len(drafts) ELSE Len(drafts) + 1
               n == [own EXCEPT !.pc = "open", !.click = click, !.draft = d, !.offered = FALSE]
    <3>1. Become(u, n)
      BY <1>4, <2>4 DEF BeginRun
    <3>2. n.pc = "open"
      BY DEF TabRecords
    <3> HIDE DEF n
    <3> QED BY <1>3, <3>1, <3>2
  <2> QED BY <2>1, <2>2, <2>3, <2>4 DEF Browse
<1>7. ASSUME NEW tb \in TabRecords, NEW rest PROVE ~Become(u, Saving(tb, rest))
  <2>1. Saving(tb, rest).pc # "execute"
    BY DEF Saving, TabRecords
  <2> QED BY <1>3, <2>1
<1>8. ASSUME OpenDraft(u) PROVE FALSE
  <2> DEFINE n == [own EXCEPT !.pc = "restore", !.todo = Roles]
  <2>1. Become(u, n)
    BY <1>4, <1>5, <1>8 DEF OpenDraft
  <2>2. n.pc = "restore"
    BY DEF TabRecords
  <2> HIDE DEF n
  <2> QED BY <1>3, <2>1, <2>2
<1>9. ~UploadRefused(u) /\ ~Interrupt(u)
  BY <1>5 DEF UploadRefused, Interrupt
<1>10. ASSUME CompareSignature(u) PROVE FALSE
  <2>1. Become(u, [own EXCEPT !.pc = "check"])
    BY <1>4, <1>5, <1>10 DEF CompareSignature
  <2> QED BY <1>3, <2>1 DEF TabRecords
<1>11. ASSUME NEW r \in Roles, RestoreRole(u, r) \/ UploadConflict(u, r) \/ Upload(u, r) \/ Reread(u, r)
       PROVE  FALSE
  <2>1. \A d : Document(d, r) \in AnyDocument
    <3>1. NoDocument \in AnyDocument
      BY DEF AnyDocument
    <3> QED BY <3>1, DraftTypes DEF Document, Active, Stored, DraftInv
  <2>2. ASSUME NEW doc \in AnyDocument
        PROVE  /\ [own EXCEPT !.inputs = [own.inputs EXCEPT ![r] = doc]] \in TabRecords
               /\ [own EXCEPT !.met[r] = doc] \in TabRecords
    BY DEF TabRecords, Stored
  <2>3. CASE RestoreRole(u, r)
    <3> DEFINE read == [own EXCEPT !.inputs = [own.inputs EXCEPT ![r] = Document(own.draft, r)]]
    <3>1. PICK chosen : Become(u, IF own.todo = {r} THEN Saving(read, chosen)
                                  ELSE [read EXCEPT !.todo = @ \ {r}])
      BY <1>4, <2>3 DEF RestoreRole
    <3>2. own.pc = "restore" /\ read \in TabRecords /\ read.pc = own.pc
      BY <1>4, <2>1, <2>2, <2>3, ZenonT(60) DEF RestoreRole, At, TabRecords
    <3>3. ~Become(u, Saving(read, chosen))
      BY <1>7, <3>2
    <3>4. ~Become(u, [read EXCEPT !.todo = @ \ {r}])
      <4> HIDE DEF read
      <4> QED BY <1>3, <3>2 DEF TabRecords
    <3> HIDE DEF read
    <3> QED BY <3>1, <3>3, <3>4
  <2>4. CASE UploadConflict(u, r)
    <3> DEFINE told == [own EXCEPT !.met[r] = Document(own.draft, r)]
    <3>1. Become(u, Saving(told, told.todo \ {r}))
      BY <1>4, <2>4 DEF UploadConflict, RoleDone
    <3>2. told \in TabRecords
      BY <2>1, <2>2
    <3> HIDE DEF told
    <3> QED BY <1>7, <3>1, <3>2
  <2>5. CASE Upload(u, r)
    <3> DEFINE n == [own EXCEPT !.pc = "reread", !.saving = {r},
                                !.met[r] = NoDocument, !.replace = @ \ {r}]
    <3>1. Become(u, n)
      BY <1>4, <2>5 DEF Upload
    <3>2. n.pc = "reread"
      BY DEF TabRecords
    <3> HIDE DEF n
    <3> QED BY <1>3, <3>1, <3>2
  <2>6. CASE Reread(u, r)
    <3> DEFINE read == [own EXCEPT !.inputs = [own.inputs EXCEPT ![r] = Document(own.draft, r)]]
    <3>1. Become(u, Saving(read, read.todo \ {r}))
      BY <1>4, <1>5, <2>6 DEF Reread, RoleDone
    <3>2. read \in TabRecords
      BY <2>1, <2>2
    <3> HIDE DEF read
    <3> QED BY <1>7, <3>1, <3>2
  <2> QED BY <1>11, <2>3, <2>4, <2>5, <2>6
<1>12. ASSUME Validate(u) \/ Execute(u) PROVE FALSE
  <2> PICK rest \in TabRecords : rest = Rested(own) /\ rest.pc = "idle"
    BY RestedFields
  <2> DEFINE revision == drafts[own.draft].revision
             valid == [rest EXCEPT !.validated = own.inputs, !.origin = own.draft,
                         !.revision = revision, !.reviewed = Nothing, !.offered = TRUE]
             stale == [rest EXCEPT !.validated = own.inputs]
  <2>1. valid.pc = "idle" /\ stale.pc = "idle"
    BY DEF TabRecords
  <2>2. \A v : [rest EXCEPT !.reviewed = v].pc = "idle"
    BY DEF TabRecords
  <2>4. ASSUME NEW n, n.pc = "idle" PROVE ~Become(u, n)
    BY <1>3, <2>4
  <2> HIDE DEF Become
  <2>5. ~Validate(u)
    <3>1. Validate(u) => Become(u, valid) \/ Become(u, stale)
      BY <1>4 DEF Validate
    <3> HIDE DEF valid, stale
    <3> QED BY <2>1, <2>4, <3>1
  <2>6. ~Execute(u)
    BY <1>4, <2>2, <2>4 DEF Execute
  <2> QED BY <1>12, <2>5, <2>6
<1>13. CheckRevision(u) \/ Approve(u)
  BY <1>2, <1>6, <1>8, <1>9, <1>10, <1>11, <1>12 DEF Script
<1>14. u = t
  BY <1>3, <1>13 DEF CheckRevision, Approve
<1>15. own.pc \in {"check", "approve"} /\ drafts' = drafts
  BY <1>4, <1>13 DEF CheckRevision, Approve, At
<1>16. ASSUME CheckRevision(u), ~RevisionUnchanged(own) PROVE FALSE
  BY <1>4, <1>5, <1>16 DEF CheckRevision
<1>17. ASSUME Approve(u), ~RevisionUnchanged(own) PROVE FALSE
  BY <1>4, <1>5, <1>17 DEF Approve
<1> QED BY <1>4, <1>13, <1>14, <1>15, <1>16, <1>17

LEMMA DraftInvariant == Spec => []DraftInv
<1>1. DraftInv /\ [Next]_vars => DraftInv'
  BY NextDraftInv
<1> QED BY <1>1, InitDraftInv, PTL DEF Spec

-----------------------------------------------------------------------------
\* Every reachable state is well typed, whatever the tabs, roles and documents.
THEOREM DraftsTypeCorrect == Spec => []TypeOK
<1>1. DraftInv => TypeOK
  BY DEF DraftInv
<1> QED BY <1>1, DraftInvariant, PTL

\* A finalization that passes assert_revision_unchanged carries in memory the
\* documents its draft holds at that moment, although they were read one query
\* at a time while other tabs were uploading: an upload the run did not see
\* would have raised the revision.
THEOREM FinalizationCarriesStoredDocuments == Spec => ExecutesStoredDocuments
<1> DEFINE Carried ==
      \A t \in Tabs :
        LET tab == tabs[t] IN
        tab.pc # "execute" /\ tabs'[t].pc = "execute" /\ tab.origin = tab.draft =>
          tab.inputs = drafts[tab.draft].documents
<1>1. ASSUME DraftInv, [Next]_vars PROVE Carried
  <2> SUFFICES ASSUME NEW t \in Tabs, tabs[t].pc # "execute", tabs'[t].pc = "execute",
                      tabs[t].origin = tabs[t].draft
               PROVE  tabs[t].inputs = drafts[tabs[t].draft].documents
    OBVIOUS
  <2> PICK tab \in TabRecords : tab = tabs[t] /\ TabOK(tab)
    BY <1>1, DraftTypes DEF DraftInv
  <2>1. RevisionUnchanged(tab) /\ Loaded(tab) = Roles
    BY <1>1, EntersExecution DEF Loaded
  <2>2. \A r \in Roles : tab.inputs[r] = drafts[tab.draft].documents[r]
    BY <2>1 DEF TabOK, RevisionUnchanged
  <2>3. tab.inputs \in Stored /\ drafts[tab.draft].documents \in Stored
    BY <1>1, <2>1, DraftTypes DEF DraftInv, TabRecords, RevisionUnchanged, Active
  <2> QED BY <2>2, <2>3 DEF Stored
<1> QED BY <1>1, DraftInvariant, PTL DEF Spec, ExecutesStoredDocuments

\* An abandoned draft stays as it was: no run that still has it open stores a
\* document into it, and nothing makes it the month's draft again.
THEOREM AbandonedDraftsKept == Spec => AbandonedKept
<1> DEFINE Kept == \A d \in 1..Len(drafts) : ~drafts[d].active => drafts'[d] = drafts[d]
<1>1. ASSUME DraftInv, [Next]_vars PROVE Kept
  BY <1>1, NextDraftInv DEF DraftsGrow
<1> QED BY <1>1, DraftInvariant, PTL DEF Spec, AbandonedKept
=============================================================================
