--------------------------- MODULE BackfillProofs ---------------------------
(* Theorems about the transfer of drafts, the rehearsed publication and the    *)
(* preparation of a year.                                                      *)
EXTENDS LocalBackfill, TLAPS

-----------------------------------------------------------------------------
(* The transfer of drafts *)

(***************************************************************************)
(* Two facts keep the wizard's changes: at the commit of an import the     *)
(* drafts it adds are missing, and at the commit of an undo the drafts it  *)
(* removes are as exported, since both were compared with the committed    *)
(* rows under the locks.                                                   *)
(***************************************************************************)
AddedAreMissing ==
  operator.step = "inserted" => \A d \in operator.added : drafts[d] = Missing
RemovedWereExported ==
  operator.step \in {"checked", "deleted"} =>
    \A d \in operator.removed : operator.snapshot[d] = SourceRow(d)
RemovedAreExported ==
  operator.step = "deleted" => \A d \in operator.removed : drafts[d] = SourceRow(d)
UndoHasReceipt ==
  operator.step = "undoing" => receipts[operator.attempt] \in Receipts

TransferInv ==
  /\ TransferTypeOK /\ EditsSurvive
  /\ UndoHasReceipt /\ AddedAreMissing /\ RemovedWereExported /\ RemovedAreExported

LEMMA SourceRows ==
  \A d \in SourceDrafts : SourceRow(d) \in Row /\ SourceRow(d).version = 0
                          /\ SourceRow(d) # Missing /\ d \in AllDrafts
BY TransferAssumption DEF SourceRow, Row, Missing, AllDrafts

LEMMA MissingIsNoRow == Missing \notin Row
BY DEF Missing, Row

LEMMA InitTransferInv == TransferInit => TransferInv
<1> SUFFICES ASSUME TransferInit PROVE TransferInv
  OBVIOUS
<1>1. OperatorOK /\ operator.step = "idle"
  BY DEF TransferInit, OperatorOK, Idle
<1>2. TransferTypeOK
  BY <1>1, TransferAssumption DEF TransferInit, TransferTypeOK, Tables
<1>3. EditsSurvive
  BY DEF TransferInit, EditsSurvive
<1> QED
  BY <1>1, <1>2, <1>3 DEF TransferInv, UndoHasReceipt, AddedAreMissing, RemovedWereExported, RemovedAreExported

LEMMA ChangeInv ==
  ASSUME TransferInv, NEW d \in AllDrafts, NEW row \in [state : {"draft", "abandoned"},
                                                         month : Months, version : {edits + 1}],
         Change(d, row)
  PROVE  TransferInv'
<1>1. /\ drafts \in Tables /\ edits \in Nat /\ edits < MaxEdits
      /\ latest \in [AllDrafts -> 0..MaxEdits] /\ MaxEdits \in Nat /\ OperatorOK
  BY TransferAssumption DEF TransferInv, TransferTypeOK, Change
<1>2. /\ edits + 1 \in 1..MaxEdits /\ row \in Row /\ row # Missing /\ row.version = edits + 1
  BY <1>1 DEF Row, Missing
<1>3. /\ drafts' = [drafts EXCEPT ![d] = row] /\ edits' = edits + 1
      /\ latest' = [latest EXCEPT ![d] = edits + 1]
      /\ UNCHANGED << imported, backups, receipts, operator >>
  BY DEF Change, files
<1>4. drafts' \in Tables /\ edits' \in 0..MaxEdits /\ latest' \in [AllDrafts -> 0..MaxEdits]
  BY <1>1, <1>2, <1>3 DEF Tables
<1>5. OperatorOK'
  BY <1>1, <1>3 DEF OperatorOK, Tables, Row, AllDrafts
<1>6. TransferTypeOK'
  BY <1>3, <1>4, <1>5 DEF TransferInv, TransferTypeOK
<1>7. EditsSurvive'
  <2> SUFFICES ASSUME NEW e \in AllDrafts, latest'[e] # 0
               PROVE  drafts'[e] # Missing /\ drafts'[e].version = latest'[e]
    BY DEF EditsSurvive
  <2>1. CASE e = d
    BY <2>1, <1>1, <1>2, <1>3 DEF Tables
  <2>2. CASE e # d
    BY <2>2, <1>1, <1>3 DEF Tables, TransferInv, EditsSurvive
  <2> QED BY <2>1, <2>2
<1>8. operator.step \notin {"inserted", "checked", "deleted"}
  BY DEF Change, Locked
<1> QED
  BY <1>3, <1>6, <1>7, <1>8
  DEF TransferInv, UndoHasReceipt, AddedAreMissing, RemovedWereExported, RemovedAreExported

LEMMA WizardInv == ASSUME TransferInv, WizardStep PROVE TransferInv'
<1>0. /\ drafts \in Tables /\ edits \in Nat
      /\ LocalDrafts \subseteq AllDrafts
  BY TransferAssumption DEF TransferInv, TransferTypeOK, AllDrafts
<1>1. ASSUME NEW d \in LocalDrafts, NEW m \in Months, CreateDraft(d, m) PROVE TransferInv'
  BY <1>0, <1>1, ChangeInv DEF CreateDraft
<1>2. ASSUME NEW d \in AllDrafts, drafts[d].state = "draft" PROVE drafts[d].month \in Months
  BY <1>0, <1>2 DEF Tables, Row, Missing
<1>3. ASSUME NEW d \in AllDrafts, UploadDocument(d) PROVE TransferInv'
  BY <1>0, <1>2, <1>3, ChangeInv DEF UploadDocument
<1>4. ASSUME NEW d \in AllDrafts, AbandonDraft(d) PROVE TransferInv'
  BY <1>0, <1>2, <1>4, ChangeInv DEF AbandonDraft
<1> QED BY <1>1, <1>3, <1>4 DEF WizardStep

\* A step that leaves the table alone needs to be looked at for the operator.
LEMMA TableKept ==
  ASSUME TransferInv, UNCHANGED database, OperatorOK',
         DOMAIN backups' = Attempts, receipts' \in [Attempts -> Receipts \cup {NoFile, Torn}],
         UndoHasReceipt', AddedAreMissing', RemovedWereExported', RemovedAreExported'
  PROVE  TransferInv'
BY DEF TransferInv, TransferTypeOK, EditsSurvive, database

LEMMA RefuseInv == ASSUME TransferInv, UNCHANGED database, operator' = Idle,
         DOMAIN backups' = Attempts, receipts' \in [Attempts -> Receipts \cup {NoFile, Torn}]
  PROVE  TransferInv'
<1>1. OperatorOK' /\ operator'.step = "idle"
  BY DEF OperatorOK, Idle
<1> QED BY <1>1, TableKept DEF UndoHasReceipt, AddedAreMissing, RemovedWereExported, RemovedAreExported

LEMMA OperatorInv == ASSUME TransferInv, OperatorStep PROVE TransferInv'
<1>0. /\ drafts \in Tables /\ edits \in 0..MaxEdits /\ OperatorOK
      /\ DOMAIN backups = Attempts /\ receipts \in [Attempts -> Receipts \cup {NoFile, Torn}]
  BY DEF TransferInv, TransferTypeOK
<1>1. ASSUME Refuse PROVE TransferInv'
  BY <1>0, <1>1, RefuseInv DEF Refuse, Goto, files
<1>2. ASSUME NEW a \in Attempts, BeginImport(a) PROVE TransferInv'
  <2>1. OperatorOK' /\ operator'.step = "importing"
    BY <1>0, <1>2 DEF BeginImport, Goto, OperatorOK, database, Tables
  <2> QED
    BY <2>1, <1>0, <1>2, TableKept
    DEF BeginImport, Goto, files, UndoHasReceipt, AddedAreMissing, RemovedWereExported, RemovedAreExported
<1>3. ASSUME NEW a \in Attempts, BeginUndo(a) PROVE TransferInv'
  <2>1. /\ OperatorOK' /\ operator'.step = "undoing" /\ operator'.attempt = a
        /\ UNCHANGED files
    BY <1>0, <1>3 DEF BeginUndo, Goto, OperatorOK, database, Tables
  <2>2. receipts[a] \in Receipts
    BY <1>0, <1>3 DEF BeginUndo, NoFile, Torn
  <2> QED
    BY <2>1, <2>2, <1>0, <1>3, TableKept
    DEF BeginUndo, Goto, files, UndoHasReceipt, AddedAreMissing, RemovedWereExported, RemovedAreExported
<1>4. CASE PlanImport
  <2>1. CASE Refuse
    BY <2>1, <1>1
  <2>2. CASE ~Refuse
    <3>1. operator \in [step : {"importing"}, attempt : Attempts, snapshot : Tables, at : 0..MaxEdits]
      BY <1>0, <1>4 DEF PlanImport, OperatorOK, Idle
    <3>2. /\ operator' = [step |-> "planned", attempt |-> operator.attempt,
                          snapshot |-> operator.snapshot, at |-> operator.at,
                          added |-> Additions(operator.snapshot)]
          /\ UNCHANGED << database, files >>
      BY <1>4, <2>2 DEF PlanImport, Goto
    <3>3. Additions(operator.snapshot) \in SUBSET SourceDrafts
      BY DEF Additions
    <3>4. OperatorOK' /\ operator'.step = "planned"
      BY <3>1, <3>2, <3>3 DEF OperatorOK, database, Tables
    <3> QED
      BY <3>2, <3>4, <1>0, TableKept
      DEF files, UndoHasReceipt, AddedAreMissing, RemovedWereExported, RemovedAreExported
  <2> QED BY <2>1, <2>2
<1> DEFINE Import == [step : {"planned", "backed_up", "receipted", "inserted"}, attempt : Attempts,
                      snapshot : Tables, at : 0..MaxEdits, added : SUBSET SourceDrafts]
           Undo == [step : {"checked", "deleted"}, attempt : Attempts,
                    snapshot : Tables, removed : SUBSET SourceDrafts]
<1>5. ASSUME operator.step \in {"planned", "backed_up", "receipted", "inserted"}
      PROVE  operator \in Import
  BY <1>0, <1>5 DEF OperatorOK, Idle
<1>6. ASSUME operator.step \in {"checked", "deleted"} PROVE operator \in Undo
  BY <1>0, <1>6 DEF OperatorOK, Idle
\* The next point of an import that has not inserted its rows yet
<1>7. ASSUME NEW next \in {"backed_up", "receipted"},
             operator \in Import, operator' = [operator EXCEPT !.step = next],
             UNCHANGED database, DOMAIN backups' = Attempts,
             receipts' \in [Attempts -> Receipts \cup {NoFile, Torn}]
      PROVE  TransferInv'
  <2>1. operator' \in Import /\ operator'.step = next
    BY <1>7
  <2>2. OperatorOK'
    BY <1>7, <2>1 DEF OperatorOK, database, Tables
  <2> QED
    BY <2>1, <2>2, <1>7, TableKept
    DEF UndoHasReceipt, AddedAreMissing, RemovedWereExported, RemovedAreExported
<1>8. CASE SaveBackup
  <2>1. CASE Refuse
    BY <2>1, <1>1
  <2>2. CASE ~Refuse
    BY <1>0, <1>5, <1>7, <1>8, <2>2 DEF SaveBackup
  <2> QED BY <2>1, <2>2
<1>9. CASE SaveReceipt
  <2>1. CASE Refuse
    BY <2>1, <1>1
  <2>2. CASE ~Refuse
    <3>1. operator \in Import
      BY <1>5, <1>9 DEF SaveReceipt
    <3>2. receipts' \in [Attempts -> Receipts \cup {NoFile, Torn}]
      BY <1>0, <1>9, <2>2, <3>1 DEF SaveReceipt, Receipts
    <3> QED BY <1>0, <1>7, <1>9, <2>2, <3>1, <3>2 DEF SaveReceipt
  <2> QED BY <2>1, <2>2
<1>10. CASE InsertRows
  <2>1. CASE Refuse
    BY <2>1, <1>1
  <2>2. CASE ~Refuse
    <3>1. operator \in Import
      BY <1>5, <1>10 DEF InsertRows
    <3>2. /\ operator' = [operator EXCEPT !.step = "inserted"] /\ UNCHANGED << database, files >>
          /\ \A d \in operator.added : drafts[d] = Missing
      BY <1>10, <2>2 DEF InsertRows, Goto
    <3>3. operator' \in Import /\ operator'.step = "inserted" /\ operator'.added = operator.added
      BY <3>1, <3>2
    <3>4. OperatorOK'
      BY <3>2, <3>3 DEF OperatorOK, database, Tables
    <3>5. AddedAreMissing'
      BY <3>2, <3>3 DEF AddedAreMissing, database
    <3> QED
      BY <3>2, <3>3, <3>4, <3>5, <1>0, TableKept
      DEF files, UndoHasReceipt, RemovedWereExported, RemovedAreExported
  <2> QED BY <2>1, <2>2
<1>11. CASE CommitImport
  <2>1. operator \in Import /\ \A d \in operator.added : drafts[d] = Missing
    BY <1>5, <1>11 DEF CommitImport, TransferInv, AddedAreMissing
  <2>2. /\ drafts' = Inserted /\ imported' = imported \cup operator.added /\ operator' = Idle
        /\ UNCHANGED << edits, latest, backups, receipts >>
    BY <1>11 DEF CommitImport, files
  <2>3. drafts' \in Tables
    BY <1>0, <2>1, <2>2, SourceRows DEF Inserted, Tables
  <2>4. OperatorOK' /\ operator'.step = "idle"
    BY <2>2 DEF OperatorOK, Idle
  <2>5. TransferTypeOK'
    BY <2>1, <2>2, <2>3, <2>4 DEF TransferInv, TransferTypeOK
  <2>6. EditsSurvive'
    BY <2>1, <2>2, <1>0 DEF Inserted, EditsSurvive, TransferInv, Tables
  <2> QED
    BY <2>4, <2>5, <2>6
    DEF TransferInv, UndoHasReceipt, AddedAreMissing, RemovedWereExported, RemovedAreExported
<1>12. CASE PlanUndo
  <2>1. CASE Refuse
    BY <2>1, <1>1
  <2>2. CASE ~Refuse
    <3>1. operator \in [step : {"undoing"}, attempt : Attempts, snapshot : Tables]
      BY <1>0, <1>12 DEF PlanUndo, OperatorOK, Idle
    <3> DEFINE listed == receipts[operator.attempt].added
               removed == { d \in listed : operator.snapshot[d] # Missing }
    <3>2. /\ operator' = [step |-> "checked", attempt |-> operator.attempt,
                          snapshot |-> operator.snapshot, removed |-> removed]
          /\ UNCHANGED << database, files >>
          /\ \A d \in listed : ~Changed(operator.snapshot, d)
      BY <1>12, <2>2 DEF PlanUndo, Goto
    <3> HIDE DEF listed
    <3>3. \A d \in removed : operator.snapshot[d] = SourceRow(d)
      BY <3>2 DEF Changed
    <3>4. removed \in SUBSET SourceDrafts
      <4>1. listed \in SUBSET SourceDrafts
        BY <1>12 DEF PlanUndo, TransferInv, UndoHasReceipt, Receipts, listed
      <4> QED BY <4>1
    <3> HIDE DEF removed
    <3>5. OperatorOK' /\ operator'.step = "checked"
      BY <3>1, <3>2, <3>4 DEF OperatorOK, database, Tables
    <3>6. RemovedWereExported'
      BY <3>2, <3>3 DEF RemovedWereExported
    <3> QED
      BY <3>2, <3>5, <3>6, <1>0, TableKept
      DEF files, UndoHasReceipt, AddedAreMissing, RemovedAreExported
  <2> QED BY <2>1, <2>2
<1>13. CASE DeleteRows
  <2>1. CASE Refuse
    BY <2>1, <1>1
  <2>2. CASE ~Refuse
    <3>1. operator \in Undo /\ operator.step = "checked"
      BY <1>6, <1>13 DEF DeleteRows
    <3>2. /\ operator' = [operator EXCEPT !.step = "deleted"] /\ UNCHANGED << database, files >>
          /\ \A d \in operator.removed : drafts[d] = operator.snapshot[d]
      BY <1>13, <2>2 DEF DeleteRows, Goto
    <3>3. /\ operator' \in Undo /\ operator'.step = "deleted"
          /\ operator'.removed = operator.removed /\ operator'.snapshot = operator.snapshot
      BY <3>1, <3>2
    <3>4. OperatorOK'
      BY <3>2, <3>3 DEF OperatorOK, database, Tables
    <3>5. RemovedWereExported' /\ RemovedAreExported'
      BY <3>1, <3>2, <3>3 DEF TransferInv, RemovedWereExported, RemovedAreExported, database, SourceRow
    <3> QED
      BY <3>2, <3>3, <3>4, <3>5, <1>0, TableKept DEF files, UndoHasReceipt, AddedAreMissing
  <2> QED BY <2>1, <2>2
<1>14. CASE CommitUndo
  <2>1. operator \in Undo /\ \A d \in operator.removed : drafts[d] = SourceRow(d)
    BY <1>6, <1>14 DEF CommitUndo, TransferInv, RemovedAreExported
  <2>2. /\ drafts' = [d \in AllDrafts |-> IF d \in operator.removed THEN Missing ELSE drafts[d]]
        /\ imported' = imported \ operator.removed /\ operator' = Idle
        /\ UNCHANGED << edits, latest, backups, receipts >>
    BY <1>14 DEF CommitUndo, files
  <2>3. drafts' \in Tables
    BY <1>0, <2>2 DEF Tables
  <2>4. OperatorOK' /\ operator'.step = "idle"
    BY <2>2 DEF OperatorOK, Idle
  <2>5. TransferTypeOK'
    BY <2>2, <2>3, <2>4 DEF TransferInv, TransferTypeOK
  <2>6. \A d \in operator.removed : latest[d] = 0
    <3> TAKE d \in operator.removed
    <3>1. d \in SourceDrafts /\ drafts[d].version = 0 /\ d \in AllDrafts
      BY <2>1, SourceRows
    <3> QED BY <3>1 DEF TransferInv, EditsSurvive
  <2>7. EditsSurvive'
    BY <2>2, <2>6 DEF EditsSurvive, TransferInv
  <2> QED
    BY <2>4, <2>5, <2>7
    DEF TransferInv, UndoHasReceipt, AddedAreMissing, RemovedWereExported, RemovedAreExported
<1>15. CASE Fail
  BY <1>1, <1>15 DEF Fail
<1>16. CASE DieInBackup
  BY <1>0, <1>16, RefuseInv DEF DieInBackup
<1>17. CASE DieInReceipt
  <2>1. receipts' \in [Attempts -> Receipts \cup {NoFile, Torn}]
    BY <1>0, <1>17 DEF DieInReceipt
  <2> QED BY <1>0, <1>17, <2>1, RefuseInv DEF DieInReceipt
<1> QED
  BY <1>2, <1>3, <1>4, <1>8, <1>9, <1>10, <1>11, <1>12, <1>13, <1>14, <1>15, <1>16, <1>17
  DEF OperatorStep

LEMMA TransferIsInductive == TransferSpec => []TransferInv
<1>1. TransferInv /\ [TransferNext]_transferVars => TransferInv'
  <2> SUFFICES ASSUME TransferInv, [TransferNext]_transferVars PROVE TransferInv'
    OBVIOUS
  <2>1. CASE WizardStep
    BY <2>1, WizardInv
  <2>2. CASE OperatorStep
    BY <2>2, OperatorInv
  <2>3. CASE UNCHANGED transferVars
    <3>1. UNCHANGED << drafts, edits, latest, imported, backups, receipts, operator >>
      BY <2>3 DEF transferVars, database, files
    <3>2. OperatorOK'
      BY <3>1 DEF TransferInv, TransferTypeOK, OperatorOK, Tables
    <3> QED
      BY <3>1, <3>2, TableKept
      DEF database, TransferInv, TransferTypeOK, UndoHasReceipt, AddedAreMissing,
          RemovedWereExported, RemovedAreExported, SourceRow
  <2> QED BY <2>1, <2>2, <2>3 DEF TransferNext
<1> QED BY <1>1, InitTransferInv, PTL DEF TransferSpec

\* What the transfer keeps it also keeps next to the other command.
LEMMA BackfillTransfers == BackfillSpec => TransferSpec
<1>1. BackfillInit => TransferInit
  BY DEF BackfillInit
<1>2. [BackfillNext]_backfillVars => [TransferNext]_transferVars
  BY DEF BackfillNext, OnDevelopment, Offline, OnRestored, backfillVars
<1> QED BY <1>1, <1>2, PTL DEF BackfillSpec, TransferSpec

(***************************************************************************)
(* Rows, files and the locals of a command are well typed, for any bundle, *)
(* any number of commands and wherever they fail.                          *)
(***************************************************************************)
THEOREM TransferTypeCorrect == BackfillSpec => []TransferTypeOK
<1>1. TransferInv => TransferTypeOK
  BY DEF TransferInv
<1> QED BY <1>1, TransferIsInductive, BackfillTransfers, PTL

(***************************************************************************)
(* Whatever the wizard committed last in a draft stays, however imports    *)
(* and undos that read the tables before interleave with it.               *)
(***************************************************************************)
THEOREM WizardEditsSurvive == BackfillSpec => []EditsSurvive
<1>1. TransferInv => EditsSurvive
  BY DEF TransferInv
<1> QED BY <1>1, TransferIsInductive, BackfillTransfers, PTL

(***************************************************************************)
(* The files of an attempt, as far as its import has come.  Since a file   *)
(* is only created, an attempt that supports a committed import keeps both.*)
(***************************************************************************)
Importing == operator.step \in {"planned", "backed_up", "receipted", "inserted"}
AddedNotInSnapshot ==
  Importing => \A d \in operator.added : operator.snapshot[d] = Missing
BackedUp ==
  operator.step \in {"backed_up", "receipted", "inserted"} =>
    /\ backups[operator.attempt].file = "backup"
    /\ \A d \in operator.added : d \notin DOMAIN backups[operator.attempt].rows
Receipted ==
  operator.step \in {"receipted", "inserted"} =>
    /\ receipts[operator.attempt].file = "receipt"
    /\ receipts[operator.attempt].added = operator.added

ReceiptInv == ImportsHaveReceipts /\ AddedNotInSnapshot /\ BackedUp /\ Receipted

\* A step that changes no file and adds no draft
LEMMA FilesKept ==
  ASSUME ImportsHaveReceipts, UNCHANGED files, imported' \subseteq imported
  PROVE  ImportsHaveReceipts'
BY DEF ImportsHaveReceipts, files

LEMMA ReceiptStep ==
  ASSUME TransferInv, ReceiptInv, OperatorStep
  PROVE  ReceiptInv'
<1>0. /\ OperatorOK /\ DOMAIN backups = Attempts /\ receipts \in [Attempts -> Receipts \cup {NoFile, Torn}]
  BY DEF TransferInv, TransferTypeOK
<1> DEFINE Import == [step : {"planned", "backed_up", "receipted", "inserted"}, attempt : Attempts,
                      snapshot : Tables, at : 0..MaxEdits, added : SUBSET SourceDrafts]
<1>1. ASSUME Importing PROVE operator \in Import
  BY <1>0, <1>1 DEF OperatorOK, Idle, Importing
\* Steps outside an import, and those that end one
<1>2. ASSUME ~Importing', operator'.step \notin {"backed_up", "receipted", "inserted"},
             UNCHANGED files, imported' \subseteq imported
      PROVE  ReceiptInv'
  BY <1>2, FilesKept DEF ReceiptInv, AddedNotInSnapshot, BackedUp, Receipted, Importing
<1>3. ASSUME Refuse PROVE ReceiptInv'
  <2>1. operator'.step = "idle" /\ UNCHANGED << imported, files >>
    BY <1>3 DEF Refuse, Goto, Idle, database
  <2> QED BY <2>1, <1>2 DEF Importing
<1>4. ASSUME NEW a \in Attempts, BeginImport(a) PROVE ReceiptInv'
  <2>1. operator'.step = "importing" /\ UNCHANGED << imported, files >>
    BY <1>4 DEF BeginImport, Goto, database
  <2> QED BY <2>1, <1>2 DEF Importing
<1>5. ASSUME NEW a \in Attempts, BeginUndo(a) PROVE ReceiptInv'
  <2>1. operator'.step = "undoing" /\ UNCHANGED << imported, files >>
    BY <1>5 DEF BeginUndo, Goto, database
  <2> QED BY <2>1, <1>2 DEF Importing
<1>6. CASE PlanImport
  <2>1. CASE Refuse
    BY <2>1, <1>3
  <2>2. CASE ~Refuse
    <3>1. /\ operator' = [step |-> "planned", attempt |-> operator.attempt,
                          snapshot |-> operator.snapshot, at |-> operator.at,
                          added |-> Additions(operator.snapshot)]
          /\ UNCHANGED << database, files >>
          /\ Taken(operator.snapshot) = {}
      BY <1>6, <2>2 DEF PlanImport, Goto
    <3>2. \A d \in Additions(operator.snapshot) : operator.snapshot[d] = Missing
      BY <3>1 DEF Taken
    <3>3. AddedNotInSnapshot'
      BY <3>1, <3>2 DEF AddedNotInSnapshot
    <3>4. ImportsHaveReceipts'
      BY <3>1, FilesKept DEF ReceiptInv, database
    <3> QED BY <3>1, <3>3, <3>4 DEF ReceiptInv, BackedUp, Receipted
  <2> QED BY <2>1, <2>2
<1>7. CASE SaveBackup
  <2>1. CASE Refuse
    BY <2>1, <1>3
  <2>2. CASE ~Refuse
    <3> DEFINE file == [file |-> "backup", rows |-> ReadRows(operator.snapshot), at |-> operator.at]
    <3>1. /\ operator \in Import /\ operator.step = "planned"
      BY <1>1, <1>7 DEF SaveBackup, Importing
    <3>2. /\ operator' = [operator EXCEPT !.step = "backed_up"] /\ UNCHANGED << imported, receipts >>
          /\ backups[operator.attempt] = NoFile
          /\ backups' = [backups EXCEPT ![operator.attempt] = file]
      BY <1>7, <2>2 DEF SaveBackup, database
    <3>3. file.file = "backup" /\ DOMAIN file.rows = { e \in Active(operator.snapshot) :
                                    operator.snapshot[e].month \in Exported }
      BY DEF ReadRows
    <3>4. \A d \in operator.added : d \notin DOMAIN file.rows
      <4> SUFFICES ASSUME NEW d \in operator.added PROVE d \notin Active(operator.snapshot)
        BY <3>3
      <4>1. operator.snapshot[d] = Missing
        BY <3>1 DEF ReceiptInv, AddedNotInSnapshot, Importing
      <4> QED BY <4>1 DEF Active, Missing
    <3> HIDE DEF file
    <3>5. /\ operator'.step = "backed_up" /\ operator'.added = operator.added
          /\ operator'.snapshot = operator.snapshot /\ operator'.attempt = operator.attempt
          /\ operator.attempt \in Attempts
      BY <3>1, <3>2
    <3>6. AddedNotInSnapshot'
      BY <3>1, <3>5 DEF ReceiptInv, AddedNotInSnapshot, Importing
    <3>7. BackedUp'
      BY <3>2, <3>3, <3>4, <3>5, <1>0 DEF BackedUp
    <3>8. ImportsHaveReceipts'
      <4> SUFFICES ASSUME NEW d \in imported
                   PROVE  \E a \in Attempts :
                            /\ receipts[a].file = "receipt" /\ d \in receipts[a].added
                            /\ backups'[a].file = "backup" /\ d \notin DOMAIN backups'[a].rows
        BY <3>2 DEF ImportsHaveReceipts
      <4>1. PICK a \in Attempts :
              /\ receipts[a].file = "receipt" /\ d \in receipts[a].added
              /\ backups[a].file = "backup" /\ d \notin DOMAIN backups[a].rows
        BY DEF ReceiptInv, ImportsHaveReceipts
      <4>2. a # operator.attempt
        BY <3>2, <4>1 DEF NoFile
      <4>3. backups'[a] = backups[a]
        BY <3>2, <4>2, <1>0
      <4> QED BY <4>1, <4>3
    <3> QED BY <3>5, <3>6, <3>7, <3>8 DEF ReceiptInv, Receipted
  <2> QED BY <2>1, <2>2
<1>8. CASE SaveReceipt
  <2>1. CASE Refuse
    BY <2>1, <1>3
  <2>2. CASE ~Refuse
    <3> DEFINE file == [file |-> "receipt", added |-> operator.added]
    <3>1. operator \in Import /\ operator.step = "backed_up"
      BY <1>1, <1>8 DEF SaveReceipt, Importing
    <3>2. /\ operator' = [operator EXCEPT !.step = "receipted"] /\ UNCHANGED << imported, backups >>
          /\ receipts[operator.attempt] = NoFile
          /\ receipts' = [receipts EXCEPT ![operator.attempt] = file]
      BY <1>8, <2>2 DEF SaveReceipt, database
    <3>3. file.file = "receipt" /\ file.added = operator.added
      OBVIOUS
    <3> HIDE DEF file
    <3>4. /\ operator'.step = "receipted" /\ operator'.added = operator.added
          /\ operator'.snapshot = operator.snapshot /\ operator'.attempt = operator.attempt
          /\ operator.attempt \in Attempts
      BY <3>1, <3>2
    <3>5. AddedNotInSnapshot' /\ BackedUp'
      BY <3>1, <3>2, <3>4 DEF ReceiptInv, AddedNotInSnapshot, BackedUp, Importing
    <3>6. Receipted'
      BY <3>2, <3>3, <3>4, <1>0 DEF Receipted
    <3>7. ImportsHaveReceipts'
      <4> SUFFICES ASSUME NEW d \in imported
                   PROVE  \E a \in Attempts :
                            /\ receipts'[a].file = "receipt" /\ d \in receipts'[a].added
                            /\ backups[a].file = "backup" /\ d \notin DOMAIN backups[a].rows
        BY <3>2 DEF ImportsHaveReceipts
      <4>1. PICK a \in Attempts :
              /\ receipts[a].file = "receipt" /\ d \in receipts[a].added
              /\ backups[a].file = "backup" /\ d \notin DOMAIN backups[a].rows
        BY DEF ReceiptInv, ImportsHaveReceipts
      <4>2. a # operator.attempt
        BY <3>2, <4>1 DEF NoFile
      <4>3. receipts'[a] = receipts[a]
        BY <3>2, <4>2, <1>0
      <4> QED BY <4>1, <4>3
    <3> QED BY <3>5, <3>6, <3>7 DEF ReceiptInv
  <2> QED BY <2>1, <2>2
<1>9. CASE InsertRows
  <2>1. CASE Refuse
    BY <2>1, <1>3
  <2>2. CASE ~Refuse
    <3>1. operator \in Import /\ operator.step = "receipted"
      BY <1>1, <1>9 DEF InsertRows, Importing
    <3>2. operator' = [operator EXCEPT !.step = "inserted"] /\ UNCHANGED << imported, files, backups, receipts >>
      BY <1>9, <2>2 DEF InsertRows, Goto, database, files
    <3>3. /\ operator'.step = "inserted" /\ operator'.added = operator.added
          /\ operator'.snapshot = operator.snapshot /\ operator'.attempt = operator.attempt
      BY <3>1, <3>2
    <3>4. AddedNotInSnapshot' /\ BackedUp' /\ Receipted'
      BY <3>1, <3>2, <3>3 DEF ReceiptInv, AddedNotInSnapshot, BackedUp, Receipted, Importing
    <3>5. ImportsHaveReceipts'
      BY <3>2, FilesKept DEF ReceiptInv
    <3> QED BY <3>4, <3>5 DEF ReceiptInv
  <2> QED BY <2>1, <2>2
<1>10. CASE CommitImport
  <2>1. operator \in Import /\ operator.step = "inserted"
    BY <1>1, <1>10 DEF CommitImport, Importing
  <2>2. /\ operator'.step = "idle" /\ UNCHANGED << backups, receipts >>
        /\ imported' = imported \cup operator.added
    BY <1>10 DEF CommitImport, files, Idle
  <2>3. ImportsHaveReceipts'
    <3> SUFFICES ASSUME NEW d \in imported'
                 PROVE  \E a \in Attempts :
                          /\ receipts[a].file = "receipt" /\ d \in receipts[a].added
                          /\ backups[a].file = "backup" /\ d \notin DOMAIN backups[a].rows
      BY <2>2 DEF ImportsHaveReceipts
    <3>1. CASE d \in imported
      BY <3>1 DEF ReceiptInv, ImportsHaveReceipts
    <3>2. CASE d \in operator.added
      <4>1. operator.attempt \in Attempts
        BY <2>1
      <4> QED BY <2>1, <3>2, <4>1 DEF ReceiptInv, BackedUp, Receipted
    <3> QED BY <2>2, <3>1, <3>2
  <2> QED
    BY <2>2, <2>3 DEF ReceiptInv, AddedNotInSnapshot, BackedUp, Receipted, Importing
<1>11. CASE PlanUndo
  <2>1. CASE Refuse
    BY <2>1, <1>3
  <2>2. CASE ~Refuse
    <3>1. operator'.step = "checked" /\ UNCHANGED << imported, files >>
      BY <1>11, <2>2 DEF PlanUndo, Goto, database
    <3> QED BY <3>1, <1>2 DEF Importing
  <2> QED BY <2>1, <2>2
<1>12. CASE DeleteRows
  <2>1. CASE Refuse
    BY <2>1, <1>3
  <2>2. CASE ~Refuse
    <3>1. operator \in [step : {"checked", "deleted"}, attempt : Attempts,
                        snapshot : Tables, removed : SUBSET SourceDrafts]
      BY <1>0, <1>12 DEF DeleteRows, OperatorOK, Idle
    <3>2. operator' = [operator EXCEPT !.step = "deleted"] /\ UNCHANGED << imported, files >>
      BY <1>12, <2>2 DEF DeleteRows, Goto, database
    <3>3. operator'.step = "deleted"
      BY <3>1, <3>2
    <3> QED BY <3>2, <3>3, <1>2 DEF Importing
  <2> QED BY <2>1, <2>2
<1>13. CASE CommitUndo
  <2>1. operator'.step = "idle" /\ imported' \subseteq imported /\ UNCHANGED files
    BY <1>13 DEF CommitUndo, Idle
  <2> QED BY <2>1, <1>2 DEF Importing
<1>14. CASE Fail
  BY <1>3, <1>14 DEF Fail
<1>15. CASE DieInBackup
  <2>1. /\ operator \in Import /\ operator'.step = "idle" /\ UNCHANGED << imported, receipts >>
        /\ backups[operator.attempt] = NoFile
        /\ backups' = [backups EXCEPT ![operator.attempt] = Torn]
    BY <1>1, <1>15 DEF DieInBackup, Idle, database, Importing
  <2>2. \A a \in Attempts : backups[a].file = "backup" => backups'[a] = backups[a]
    BY <2>1, <1>0 DEF NoFile
  <2>3. ImportsHaveReceipts'
    BY <2>1, <2>2 DEF ReceiptInv, ImportsHaveReceipts
  <2> QED
    BY <2>1, <2>3 DEF ReceiptInv, AddedNotInSnapshot, BackedUp, Receipted, Importing
<1>16. CASE DieInReceipt
  <2>1. /\ operator \in Import /\ operator'.step = "idle" /\ UNCHANGED << imported, backups >>
        /\ receipts[operator.attempt] = NoFile
        /\ receipts' = [receipts EXCEPT ![operator.attempt] = Torn]
    BY <1>1, <1>16 DEF DieInReceipt, Idle, database, Importing
  <2>2. \A a \in Attempts : receipts[a].file = "receipt" => receipts'[a] = receipts[a]
    BY <2>1, <1>0 DEF NoFile
  <2>3. ImportsHaveReceipts'
    BY <2>1, <2>2 DEF ReceiptInv, ImportsHaveReceipts
  <2> QED
    BY <2>1, <2>3 DEF ReceiptInv, AddedNotInSnapshot, BackedUp, Receipted, Importing
<1> QED
  BY <1>4, <1>5, <1>6, <1>7, <1>8, <1>9, <1>10, <1>11, <1>12, <1>13, <1>14, <1>15, <1>16
  DEF OperatorStep

(***************************************************************************)
(* Every draft an import has added is listed in a complete receipt beside  *)
(* a complete backup without it, wherever the process died and whatever    *)
(* paths later commands are given.                                         *)
(***************************************************************************)
THEOREM ImportsCanBeUndone == BackfillSpec => []ImportsHaveReceipts
<1>1. TransferInit => ReceiptInv
  BY DEF TransferInit, Idle, ReceiptInv, ImportsHaveReceipts, AddedNotInSnapshot, BackedUp,
         Receipted, Importing
<1>2. TransferInv /\ ReceiptInv /\ [TransferNext]_transferVars => ReceiptInv'
  <2> SUFFICES ASSUME TransferInv, ReceiptInv, [TransferNext]_transferVars PROVE ReceiptInv'
    OBVIOUS
  <2>1. ASSUME UNCHANGED << imported, backups, receipts, operator >> PROVE ReceiptInv'
    BY <2>1 DEF ReceiptInv, ImportsHaveReceipts, AddedNotInSnapshot, BackedUp, Receipted, Importing
  <2>2. CASE WizardStep
    BY <2>1, <2>2 DEF WizardStep, CreateDraft, UploadDocument, AbandonDraft, Change, files
  <2>3. CASE OperatorStep
    BY <2>3, ReceiptStep
  <2>4. CASE UNCHANGED transferVars
    BY <2>1, <2>4 DEF transferVars, database, files
  <2> QED BY <2>2, <2>3, <2>4 DEF TransferNext
<1>3. ReceiptInv => ImportsHaveReceipts
  BY DEF ReceiptInv
<1> QED BY <1>1, <1>2, <1>3, TransferIsInductive, BackfillTransfers, PTL DEF TransferSpec

(***************************************************************************)
(* An undo restores the backup because the bundle admits no third table.   *)
(* While no source draft was touched by the wizard, every one of them is   *)
(* missing or as exported; an import is planned on nothing else, its       *)
(* backup has the ones that are there, its receipt the missing ones.  So a *)
(* committed import leaves none missing, an undo leaves missing what the   *)
(* first import found missing, and every backup that is not of the whole   *)
(* bundle has the same rows.                                               *)
(***************************************************************************)
RowsOf(sources) == [d \in sources |-> SourceRow(d)]
Missed(table) == { d \in SourceDrafts : table[d] = Missing }
Plain(table) == \A d \in SourceDrafts : table[d] \in {Missing, SourceRow(d)}
OnlySources(table) == \A d \in Active(table) : table[d].month \in Exported => d \in SourceDrafts
WithBackup == { a \in Attempts : backups[a].file = "backup" }
LeftOut(a) == SourceDrafts \ DOMAIN backups[a].rows

BackupsHaveSources ==
  \A a \in WithBackup :
    DOMAIN backups[a].rows \subseteq SourceDrafts /\ backups[a].rows = RowsOf(DOMAIN backups[a].rows)
BackupsArePast ==
  \A a \in WithBackup :
    /\ backups[a].at \in 0..edits
    /\ backups[a].at = edits => Plain(drafts) /\ OnlySources(drafts)
BackupsAgree ==
  Plain(drafts) => \A a, b \in WithBackup : LeftOut(a) \in {{}, LeftOut(b)} \/ LeftOut(b) = {}
TableAgrees ==
  Plain(drafts) => \A a \in WithBackup : LeftOut(a) = {} \/ Missed(drafts) \in {{}, LeftOut(a)}
ReceiptsFitBackups ==
  \A a \in Attempts :
    receipts[a].file = "receipt" => a \in WithBackup /\ receipts[a].added = LeftOut(a)

Working == operator.step # "idle"
Reading == operator.step = "importing" \/ Importing
SnapshotHolds ==
  Working => \A d \in SourceDrafts :
    drafts[d] \in {Missing, SourceRow(d)} => operator.snapshot[d] = drafts[d]
SnapshotIsPast ==
  Reading => operator.at \in 0..edits /\ (operator.at = edits => operator.snapshot = drafts)
PlannedOnExports ==
  Importing => /\ Plain(operator.snapshot) /\ OnlySources(operator.snapshot)
               /\ operator.added = Missed(operator.snapshot)
BackupIsOfPlan ==
  operator.step \in {"backed_up", "receipted", "inserted"} =>
    operator.attempt \in WithBackup /\ LeftOut(operator.attempt) = operator.added
UndoIsOfReceipt ==
  operator.step \in {"checked", "deleted"} =>
    /\ receipts[operator.attempt].file = "receipt"
    /\ operator.removed = receipts[operator.attempt].added \ Missed(operator.snapshot)

FileInv ==
  BackupsHaveSources /\ BackupsArePast /\ BackupsAgree /\ TableAgrees /\ ReceiptsFitBackups
CommandInv ==
  SnapshotHolds /\ SnapshotIsPast /\ PlannedOnExports /\ BackupIsOfPlan /\ UndoIsOfReceipt

\* What the months of the bundle read as, on a table planned on
LEMMA RowsOfPlain ==
  ASSUME NEW table, Plain(table), OnlySources(table)
  PROVE  ReadRows(table) = RowsOf(SourceDrafts \ Missed(table))
<1> DEFINE read == { e \in Active(table) : table[e].month \in Exported }
<1>1. \A d \in SourceDrafts \ Missed(table) : table[d] = SourceRow(d)
  BY DEF Plain, Missed
<1>2. \A d \in SourceDrafts : SourceRow(d).state = "draft" /\ SourceRow(d).month \in Exported
                              /\ d \in AllDrafts
  BY DEF SourceRow, Exported, AllDrafts
<1>3. SourceDrafts \ Missed(table) \subseteq read
  BY <1>1, <1>2 DEF Active
<1>4. read \subseteq SourceDrafts \ Missed(table)
  BY DEF OnlySources, Active, Missed, Missing
<1>5. read = SourceDrafts \ Missed(table)
  BY <1>3, <1>4
<1> HIDE DEF read
<1>6. ReadRows(table) = [d \in read |-> table[d]]
  BY DEF ReadRows, read
<1> QED BY <1>1, <1>5, <1>6 DEF RowsOf

LEMMA PlannedIsPlain ==
  ASSUME NEW table, Conflicting(table) \cup Taken(table) = {}
  PROVE  Plain(table) /\ OnlySources(table) /\ Additions(table) = Missed(table)
<1>1. ASSUME NEW d \in SourceDrafts, NEW e \in Active(table), table[e].month = MonthOf[d]
      PROVE  e = d /\ table[d] = SourceRow(d)
  BY <1>1 DEF Conflicting, Holders
<1>2. ASSUME NEW d \in SourceDrafts, Holders(table, MonthOf[d]) = {} PROVE table[d] = Missing
  BY <1>2 DEF Taken, Additions
<1>3. ASSUME NEW d \in SourceDrafts, Holders(table, MonthOf[d]) # {}
      PROVE  table[d] = SourceRow(d) /\ SourceRow(d) # Missing
  BY <1>1, <1>3, SourceRows DEF Holders
<1>4. Plain(table)
  BY <1>2, <1>3 DEF Plain
<1>5. OnlySources(table)
  BY <1>1 DEF OnlySources, Exported
<1>6. Additions(table) = Missed(table)
  BY <1>2, <1>3 DEF Additions, Missed
<1> QED BY <1>4, <1>5, <1>6

LEMMA FilesAndTableKept ==
  ASSUME FileInv, UNCHANGED << drafts, edits, backups, receipts >> PROVE FileInv'
BY DEF FileInv, BackupsHaveSources, BackupsArePast, BackupsAgree, TableAgrees,
       ReceiptsFitBackups, WithBackup, LeftOut

LEMMA AtRest == ASSUME operator'.step = "idle" PROVE CommandInv'
BY DEF CommandInv, SnapshotHolds, SnapshotIsPast, PlannedOnExports, BackupIsOfPlan,
       UndoIsOfReceipt, Working, Reading, Importing

LEMMA BaseInit == TransferInit => FileInv /\ CommandInv
BY DEF TransferInit, Idle, NoFile, FileInv, BackupsHaveSources, BackupsArePast, BackupsAgree,
       TableAgrees, ReceiptsFitBackups, WithBackup, LeftOut, CommandInv, SnapshotHolds,
       SnapshotIsPast, PlannedOnExports, BackupIsOfPlan, UndoIsOfReceipt, Working, Reading, Importing

LEMMA BaseChange ==
  ASSUME TransferInv, FileInv, CommandInv, NEW d \in AllDrafts, NEW row,
         row # Missing, row.version = edits + 1, Change(d, row)
  PROVE  FileInv' /\ CommandInv'
<1>0. drafts \in [AllDrafts -> Row \cup {Missing}] /\ edits \in Nat
  BY TransferAssumption DEF TransferInv, TransferTypeOK, Tables
<1>1. /\ drafts' = [drafts EXCEPT ![d] = row] /\ edits' = edits + 1
      /\ UNCHANGED << backups, receipts, operator >>
  BY DEF Change, files
<1>2. ASSUME NEW e \in SourceDrafts, drafts'[e] \in {Missing, SourceRow(e)}
      PROVE  drafts'[e] = drafts[e] /\ e # d
  <2>1. e \in AllDrafts /\ SourceRow(e).version = 0
    BY SourceRows
  <2>2. e # d
    BY <2>1, <1>0, <1>1, <1>2
  <2> QED BY <2>1, <2>2, <1>0, <1>1
<1>3. ASSUME Plain(drafts') PROVE Plain(drafts) /\ Missed(drafts') = Missed(drafts)
  <2>1. \A e \in SourceDrafts : drafts'[e] = drafts[e]
    BY <1>2, <1>3 DEF Plain
  <2> QED BY <2>1, <1>3 DEF Plain, Missed
<1>4. WithBackup' = WithBackup /\ \A a \in Attempts : LeftOut(a)' = LeftOut(a)
  BY <1>1 DEF WithBackup, LeftOut
<1>5. BackupsHaveSources' /\ ReceiptsFitBackups'
  BY <1>1 DEF FileInv, BackupsHaveSources, ReceiptsFitBackups, WithBackup, LeftOut
<1>6. BackupsArePast'
  <2> SUFFICES ASSUME NEW a \in WithBackup
               PROVE  backups[a].at \in 0..(edits + 1) /\ backups[a].at # edits + 1
    BY <1>1, <1>4 DEF BackupsArePast
  <2>1. backups[a].at \in 0..edits
    BY DEF FileInv, BackupsArePast
  <2> QED BY <2>1, <1>0
<1>7. BackupsAgree'
  BY <1>1, <1>3 DEF FileInv, BackupsAgree, WithBackup, LeftOut
<1>8. TableAgrees'
  BY <1>1, <1>3 DEF FileInv, TableAgrees, WithBackup, LeftOut
<1>9. SnapshotHolds'
  <2> SUFFICES ASSUME Working, NEW e \in SourceDrafts, drafts'[e] \in {Missing, SourceRow(e)}
               PROVE  operator.snapshot[e] = drafts'[e]
    BY <1>1 DEF SnapshotHolds, Working
  <2>1. drafts'[e] = drafts[e]
    BY <1>2
  <2> QED BY <2>1 DEF CommandInv, SnapshotHolds
<1>10. SnapshotIsPast'
  <2> SUFFICES ASSUME Reading PROVE operator.at \in 0..(edits + 1) /\ operator.at # edits + 1
    BY <1>1 DEF SnapshotIsPast, Reading, Importing
  <2>1. operator.at \in 0..edits
    BY DEF CommandInv, SnapshotIsPast
  <2> QED BY <2>1, <1>0
<1>11. PlannedOnExports' /\ BackupIsOfPlan' /\ UndoIsOfReceipt'
  BY <1>1 DEF CommandInv, PlannedOnExports, BackupIsOfPlan, UndoIsOfReceipt, Importing,
              WithBackup, LeftOut
<1> QED
  BY <1>5, <1>6, <1>7, <1>8, <1>9, <1>10, <1>11 DEF FileInv, CommandInv

\* A file is only created: what was written under another path stays.
LEMMA BaseFiles ==
  ASSUME TransferInv, FileInv, CommandInv, OperatorStep, UNCHANGED << drafts, edits >>
  PROVE  FileInv'
<1>0. OperatorOK /\ DOMAIN backups = Attempts /\ receipts \in [Attempts -> Receipts \cup {NoFile, Torn}]
  BY DEF TransferInv, TransferTypeOK
<1>1. CASE UNCHANGED files
  BY <1>1, FilesAndTableKept DEF files
<1>2. ASSUME DieInBackup \/ DieInReceipt PROVE FileInv'
  <2>1. /\ \A a \in Attempts : backups[a].file = "backup" => backups'[a] = backups[a]
        /\ \A a \in Attempts : backups'[a].file = "backup" => backups[a].file = "backup"
        /\ \A a \in Attempts : receipts'[a].file = "receipt" => receipts'[a] = receipts[a]
        /\ DOMAIN backups' = Attempts
    BY <1>0, <1>2 DEF DieInBackup, DieInReceipt, NoFile, Torn
  <2>2. WithBackup' = WithBackup /\ \A a \in WithBackup : backups'[a] = backups[a]
    BY <2>1 DEF WithBackup
  <2>3. \A a \in WithBackup : LeftOut(a)' = LeftOut(a)
    BY <2>2 DEF LeftOut
  <2>4. BackupsHaveSources' /\ BackupsArePast'
    BY <2>2 DEF FileInv, BackupsHaveSources, BackupsArePast
  <2>5. BackupsAgree' /\ TableAgrees'
    BY <2>2, <2>3 DEF FileInv, BackupsAgree, TableAgrees
  <2>6. ReceiptsFitBackups'
    BY <2>1, <2>2, <2>3 DEF FileInv, ReceiptsFitBackups
  <2> QED BY <2>4, <2>5, <2>6 DEF FileInv
<1>b. PICK b : b = operator.attempt
  OBVIOUS
<1>3. ASSUME SaveBackup, ~UNCHANGED files PROVE FileInv'
  <2> DEFINE file == [file |-> "backup", rows |-> ReadRows(operator.snapshot), at |-> operator.at]
  <2>1. /\ operator.step = "planned" /\ backups[b] = NoFile
        /\ backups' = [backups EXCEPT ![b] = file] /\ UNCHANGED receipts
    BY <1>b, <1>3 DEF SaveBackup, Refuse, Goto
  <2>2. b \in Attempts
    BY <1>b, <1>0, <2>1 DEF OperatorOK, Idle
  <2>3. /\ Plain(operator.snapshot) /\ OnlySources(operator.snapshot)
        /\ operator.added = Missed(operator.snapshot)
        /\ operator.at \in 0..edits /\ (operator.at = edits => operator.snapshot = drafts)
    BY <2>1 DEF CommandInv, PlannedOnExports, SnapshotIsPast, Reading, Importing
  <2>4. /\ file.file = "backup" /\ file.at = operator.at
        /\ file.rows = RowsOf(SourceDrafts \ Missed(operator.snapshot))
    BY <2>3, RowsOfPlain
  <2> HIDE DEF file
  <2>5. DOMAIN file.rows = SourceDrafts \ Missed(operator.snapshot)
    BY <2>4 DEF RowsOf
  <2>6. /\ WithBackup' = WithBackup \cup {b} /\ b \notin WithBackup
        /\ \A a \in WithBackup : backups'[a] = backups[a]
        /\ backups'[b] = file
    BY <1>0, <2>1, <2>2, <2>4 DEF WithBackup, NoFile
  <2>7. \A a \in WithBackup : LeftOut(a)' = LeftOut(a)
    BY <2>6 DEF LeftOut
  <2>8. LeftOut(b)' = Missed(operator.snapshot)
    BY <2>5, <2>6 DEF LeftOut, Missed
  <2>9. BackupsHaveSources'
    <3>1. file.rows = RowsOf(DOMAIN file.rows) /\ DOMAIN file.rows \subseteq SourceDrafts
      BY <2>4, <2>5
    <3> QED BY <2>6, <3>1 DEF FileInv, BackupsHaveSources
  <2>10. BackupsArePast'
    <3>1. file.at \in 0..edits /\ (file.at = edits => Plain(drafts) /\ OnlySources(drafts))
      BY <2>3, <2>4
    <3> QED BY <2>6, <3>1 DEF FileInv, BackupsArePast
  <2>11. ASSUME Plain(drafts) PROVE Missed(drafts) = Missed(operator.snapshot)
    <3>1. \A d \in SourceDrafts : operator.snapshot[d] = drafts[d]
      BY <2>1, <2>11 DEF Plain, CommandInv, SnapshotHolds, Working
    <3> QED BY <3>1 DEF Missed
  <2>12. BackupsAgree'
    <3> SUFFICES ASSUME Plain(drafts)
                 PROVE  \A a, c \in WithBackup' :
                          LeftOut(a)' \in {{}, LeftOut(c)'} \/ LeftOut(c)' = {}
      BY DEF BackupsAgree
    <3>1. \A a, c \in WithBackup : LeftOut(a)' \in {{}, LeftOut(c)'} \/ LeftOut(c)' = {}
      BY <2>7 DEF FileInv, BackupsAgree
    <3>2. \A a \in WithBackup : LeftOut(a)' = {} \/ LeftOut(b)' \in {{}, LeftOut(a)'}
      BY <2>7, <2>8, <2>11 DEF FileInv, TableAgrees
    <3>3. LeftOut(b)' \in {{}, LeftOut(b)'}
      OBVIOUS
    <3> QED BY <2>6, <3>1, <3>2, <3>3
  <2>13. TableAgrees'
    BY <2>6, <2>7, <2>8, <2>11 DEF FileInv, TableAgrees
  <2>14. ReceiptsFitBackups'
    BY <2>1, <2>6, <2>7 DEF FileInv, ReceiptsFitBackups
  <2> QED BY <2>9, <2>10, <2>12, <2>13, <2>14 DEF FileInv
<1>4. ASSUME SaveReceipt, ~UNCHANGED files PROVE FileInv'
  <2>1. /\ operator.step = "backed_up" /\ UNCHANGED backups
        /\ receipts' = [receipts EXCEPT ![b] = [file |-> "receipt", added |-> operator.added]]
    BY <1>b, <1>4 DEF SaveReceipt, Refuse, Goto
  <2>2. b \in WithBackup /\ LeftOut(b) = operator.added /\ b \in Attempts
    BY <1>b, <2>1 DEF CommandInv, BackupIsOfPlan, WithBackup
  <2>3. WithBackup' = WithBackup /\ \A a \in WithBackup : LeftOut(a)' = LeftOut(a)
    BY <2>1 DEF WithBackup, LeftOut
  <2>4. BackupsHaveSources' /\ BackupsArePast' /\ BackupsAgree' /\ TableAgrees'
    BY <2>1, <2>3
    DEF FileInv, BackupsHaveSources, BackupsArePast, BackupsAgree, TableAgrees, LeftOut
  <2>5. receipts'[b].added = LeftOut(b) /\ \A a \in Attempts \ {b} : receipts'[a] = receipts[a]
    BY <1>0, <2>1, <2>2
  <2>6. ReceiptsFitBackups'
    BY <2>2, <2>3, <2>5 DEF FileInv, ReceiptsFitBackups
  <2> QED BY <2>4, <2>6 DEF FileInv
<1> QED
  BY <1>1, <1>2, <1>3, <1>4
  DEF OperatorStep, BeginImport, BeginUndo, PlanImport, InsertRows, CommitImport, PlanUndo,
      DeleteRows, CommitUndo, Fail, Refuse, Goto

\* A committed import completes the bundle in the table.
LEMMA BaseImported ==
  ASSUME TransferInv, FileInv, CommandInv, CommitImport PROVE FileInv'
<1>0. drafts \in Tables /\ operator.added \subseteq SourceDrafts /\ \A d \in operator.added : drafts[d] = Missing
  BY DEF TransferInv, TransferTypeOK, AddedAreMissing, CommitImport, OperatorOK, Idle
<1>1. /\ drafts' = Inserted /\ UNCHANGED << edits, backups, receipts >>
      /\ operator.step = "inserted"
  BY DEF CommitImport, files
<1>2. \A d \in AllDrafts : drafts'[d] = IF d \in operator.added THEN SourceRow(d) ELSE drafts[d]
  BY <1>1 DEF Inserted
<1>3. ASSUME Plain(drafts) PROVE Plain(drafts')
  BY <1>2, <1>3, SourceRows DEF Plain
<1>4. ASSUME Plain(drafts') PROVE Plain(drafts) /\ Missed(drafts') = {}
  <2>1. Plain(drafts)
    BY <1>0, <1>2, <1>4, SourceRows DEF Plain
  <2>2. operator.added = Missed(operator.snapshot)
    BY <1>1 DEF CommandInv, PlannedOnExports, Importing
  <2>3. \A d \in SourceDrafts : operator.snapshot[d] = drafts[d]
    BY <1>1, <2>1 DEF Plain, CommandInv, SnapshotHolds, Working
  <2>4. \A d \in SourceDrafts : drafts[d] = Missing => d \in operator.added
    BY <2>2, <2>3 DEF Missed
  <2>5. \A d \in SourceDrafts : drafts'[d] # Missing
    BY <1>2, <2>4, SourceRows
  <2> QED BY <2>1, <2>5 DEF Missed
<1>5. ASSUME OnlySources(drafts) PROVE OnlySources(drafts')
  <2> SUFFICES ASSUME NEW d \in AllDrafts, d \notin SourceDrafts, drafts'[d].state = "draft",
                      drafts'[d].month \in Exported
               PROVE  FALSE
    BY DEF OnlySources, Active
  <2>1. drafts'[d] = drafts[d]
    BY <1>0, <1>2
  <2> QED BY <2>1, <1>5 DEF OnlySources, Active
<1>6. WithBackup' = WithBackup /\ \A a \in Attempts : LeftOut(a)' = LeftOut(a)
  BY <1>1 DEF WithBackup, LeftOut
<1>7. BackupsHaveSources' /\ ReceiptsFitBackups'
  BY <1>1 DEF FileInv, BackupsHaveSources, ReceiptsFitBackups, WithBackup, LeftOut
<1>8. BackupsArePast'
  BY <1>1, <1>3, <1>5, <1>6 DEF FileInv, BackupsArePast
<1>9. BackupsAgree'
  BY <1>1, <1>4 DEF FileInv, BackupsAgree, WithBackup, LeftOut
<1>10. TableAgrees'
  BY <1>4 DEF TableAgrees
<1> QED BY <1>7, <1>8, <1>9, <1>10 DEF FileInv

\* The table after an undo: its drafts, and nothing else, are missing again.
LEMMA BaseUndone ==
  ASSUME TransferInv, FileInv, CommandInv, CommitUndo
  PROVE  /\ Plain(drafts) <=> Plain(drafts')
         /\ OnlySources(drafts) => OnlySources(drafts')
         /\ operator.attempt \in WithBackup
         /\ operator.removed \subseteq SourceDrafts
         /\ operator.removed = {} => drafts' = drafts
         /\ Plain(drafts) =>
              Missed(drafts') = IF operator.removed = {} THEN Missed(drafts)
                                                       ELSE LeftOut(operator.attempt)
<1>0. /\ drafts \in Tables /\ operator.removed \subseteq SourceDrafts /\ operator.attempt \in Attempts
      /\ \A d \in operator.removed : drafts[d] = SourceRow(d)
  BY DEF TransferInv, TransferTypeOK, RemovedAreExported, CommitUndo, OperatorOK, Idle
<1>1. /\ operator.step = "deleted"
      /\ drafts' = [d \in AllDrafts |-> IF d \in operator.removed THEN Missing ELSE drafts[d]]
  BY DEF CommitUndo
<1>2. \A d \in AllDrafts : drafts'[d] = IF d \in operator.removed THEN Missing ELSE drafts[d]
  BY <1>1
<1>3. Plain(drafts) <=> Plain(drafts')
  BY <1>0, <1>2, SourceRows DEF Plain
<1>4. ASSUME OnlySources(drafts) PROVE OnlySources(drafts')
  <2> SUFFICES ASSUME NEW d \in AllDrafts, d \notin SourceDrafts, drafts'[d].state = "draft",
                      drafts'[d].month \in Exported
               PROVE  FALSE
    BY DEF OnlySources, Active
  <2>1. drafts'[d] = drafts[d]
    BY <1>0, <1>2
  <2> QED BY <2>1, <1>4 DEF OnlySources, Active
<1>5. /\ operator.attempt \in WithBackup
      /\ operator.removed = LeftOut(operator.attempt) \ Missed(operator.snapshot)
  <2>1. /\ receipts[operator.attempt].file = "receipt"
        /\ operator.removed = receipts[operator.attempt].added \ Missed(operator.snapshot)
    BY <1>1 DEF CommandInv, UndoIsOfReceipt
  <2> QED BY <1>0, <2>1 DEF FileInv, ReceiptsFitBackups
<1>6. ASSUME operator.removed = {} PROVE drafts' = drafts
  BY <1>0, <1>1, <1>6 DEF Tables
<1>7. ASSUME Plain(drafts), operator.removed # {}
      PROVE  Missed(drafts') = LeftOut(operator.attempt)
  <2>1. \A d \in SourceDrafts : operator.snapshot[d] = drafts[d]
    BY <1>1, <1>7 DEF Plain, CommandInv, SnapshotHolds, Working
  <2>2. Missed(operator.snapshot) = Missed(drafts)
    BY <2>1 DEF Missed
  <2>3. LeftOut(operator.attempt) = {} \/ Missed(drafts) \in {{}, LeftOut(operator.attempt)}
    BY <1>5, <1>7 DEF FileInv, TableAgrees
  <2>4. Missed(drafts) = {} /\ operator.removed = LeftOut(operator.attempt)
    BY <1>5, <1>7, <2>2, <2>3
  <2>5. Missed(drafts') = operator.removed
    BY <1>0, <1>2, <2>4, SourceRows DEF Missed
  <2> QED BY <2>4, <2>5
<1> QED BY <1>0, <1>3, <1>4, <1>5, <1>6, <1>7

LEMMA BaseUndo == ASSUME TransferInv, FileInv, CommandInv, CommitUndo PROVE FileInv'
<1>1. UNCHANGED << edits, backups, receipts >>
  BY DEF CommitUndo, files
<1>b. PICK b : b = operator.attempt
  OBVIOUS
<1>2. /\ Plain(drafts) <=> Plain(drafts')
      /\ OnlySources(drafts) => OnlySources(drafts')
      /\ b \in WithBackup
      /\ Plain(drafts) => Missed(drafts') = Missed(drafts) \/ Missed(drafts') = LeftOut(b)
  BY <1>b, BaseUndone
<1>3. WithBackup' = WithBackup /\ \A a \in Attempts : LeftOut(a)' = LeftOut(a)
  BY <1>1 DEF WithBackup, LeftOut
<1>4. WithBackup \subseteq Attempts
  BY DEF WithBackup
<1>5. BackupsHaveSources' /\ ReceiptsFitBackups'
  BY <1>1 DEF FileInv, BackupsHaveSources, ReceiptsFitBackups, WithBackup, LeftOut
<1>6. BackupsArePast'
  BY <1>1, <1>2, <1>3 DEF FileInv, BackupsArePast
<1>7. BackupsAgree'
  BY <1>1, <1>2 DEF FileInv, BackupsAgree, WithBackup, LeftOut
<1>8. TableAgrees'
  <2> SUFFICES ASSUME Plain(drafts), NEW a \in WithBackup
               PROVE  LeftOut(a) = {} \/ Missed(drafts') \in {{}, LeftOut(a)}
    BY <1>2, <1>3, <1>4 DEF TableAgrees
  <2>1. LeftOut(a) = {} \/ Missed(drafts) \in {{}, LeftOut(a)}
    BY DEF FileInv, TableAgrees
  <2>2. LeftOut(b) \in {{}, LeftOut(a)} \/ LeftOut(a) = {}
    BY <1>2 DEF FileInv, BackupsAgree
  <2> QED BY <1>2, <2>1, <2>2
<1> QED BY <1>5, <1>6, <1>7, <1>8 DEF FileInv

LEMMA BaseCommand ==
  ASSUME TransferInv, FileInv, CommandInv, OperatorStep PROVE CommandInv'
<1>0. OperatorOK /\ DOMAIN backups = Attempts /\ receipts \in [Attempts -> Receipts \cup {NoFile, Torn}]
      /\ drafts \in Tables /\ edits \in Nat
  BY TransferAssumption DEF TransferInv, TransferTypeOK
<1> DEFINE Import == [step : {"planned", "backed_up", "receipted", "inserted"}, attempt : Attempts,
                      snapshot : Tables, at : 0..MaxEdits, added : SUBSET SourceDrafts]
           Undo == [step : {"checked", "deleted"}, attempt : Attempts,
                    snapshot : Tables, removed : SUBSET SourceDrafts]
<1>1. ASSUME operator'.step = "idle" PROVE CommandInv'
  BY <1>1, AtRest
<1>2. ASSUME Refuse PROVE CommandInv'
  BY <1>1, <1>2 DEF Refuse, Goto, Idle
\* The next point of a command keeps what it read.
<1>3. ASSUME UNCHANGED << drafts, edits >>, operator'.snapshot = operator.snapshot,
             Working, UNCHANGED operator.at \/ ~Reading', Reading \/ ~Reading'
      PROVE  SnapshotHolds' /\ SnapshotIsPast'
  <2>1. SnapshotHolds'
    BY <1>3 DEF CommandInv, SnapshotHolds
  <2>2. SnapshotIsPast'
    BY <1>3 DEF CommandInv, SnapshotIsPast
  <2> QED BY <2>1, <2>2
<1>4. ASSUME NEW a \in Attempts, BeginImport(a) PROVE CommandInv'
  <2>1. /\ operator'.step = "importing" /\ operator'.snapshot = drafts /\ operator'.at = edits
        /\ UNCHANGED << drafts, edits >>
    BY <1>4 DEF BeginImport, Goto, database
  <2> QED
    BY <1>0, <2>1 DEF CommandInv, SnapshotHolds, SnapshotIsPast, PlannedOnExports, BackupIsOfPlan,
                      UndoIsOfReceipt, Working, Reading, Importing
<1>5. ASSUME NEW a \in Attempts, BeginUndo(a) PROVE CommandInv'
  <2>1. operator'.step = "undoing" /\ operator'.snapshot = drafts /\ UNCHANGED drafts
    BY <1>5 DEF BeginUndo, Goto, database
  <2> QED
    BY <2>1 DEF CommandInv, SnapshotHolds, SnapshotIsPast, PlannedOnExports, BackupIsOfPlan,
                UndoIsOfReceipt, Working, Reading, Importing
<1>6. ASSUME PlanImport, ~Refuse PROVE CommandInv'
  <2>1. /\ operator.step = "importing"
        /\ operator' = [step |-> "planned", attempt |-> operator.attempt,
                        snapshot |-> operator.snapshot, at |-> operator.at,
                        added |-> Additions(operator.snapshot)]
        /\ UNCHANGED << drafts, edits >>
        /\ Conflicting(operator.snapshot) \cup Taken(operator.snapshot) = {}
    BY <1>6 DEF PlanImport, Goto, database
  <2>2. /\ Plain(operator.snapshot) /\ OnlySources(operator.snapshot)
        /\ Additions(operator.snapshot) = Missed(operator.snapshot)
    BY <2>1, PlannedIsPlain
  <2>3. /\ operator'.step = "planned" /\ operator'.snapshot = operator.snapshot
        /\ operator'.at = operator.at /\ operator'.added = Additions(operator.snapshot)
    BY <2>1
  <2>4. SnapshotHolds' /\ SnapshotIsPast'
    BY <2>1, <2>3 DEF CommandInv, SnapshotHolds, SnapshotIsPast, Working, Reading
  <2>5. PlannedOnExports'
    BY <2>2, <2>3 DEF PlannedOnExports
  <2> QED
    BY <2>3, <2>4, <2>5 DEF CommandInv, BackupIsOfPlan, UndoIsOfReceipt
\* An import that goes on with the plan it has
<1>7. ASSUME NEW next \in {"backed_up", "receipted", "inserted"},
             operator \in Import, operator' = [operator EXCEPT !.step = next],
             UNCHANGED << drafts, edits >>,
             operator.attempt \in WithBackup',
             SourceDrafts \ DOMAIN backups'[operator.attempt].rows = operator.added
      PROVE  CommandInv'
  <2>1. /\ operator'.step = next /\ operator'.snapshot = operator.snapshot
        /\ operator'.at = operator.at /\ operator'.added = operator.added
        /\ operator'.attempt = operator.attempt
        /\ operator.step \in {"planned", "backed_up", "receipted", "inserted"}
    BY <1>7
  <2>2. SnapshotHolds' /\ SnapshotIsPast'
    BY <1>7, <2>1 DEF CommandInv, SnapshotHolds, SnapshotIsPast, Working, Reading, Importing
  <2>3. PlannedOnExports'
    BY <2>1 DEF CommandInv, PlannedOnExports, Importing
  <2>4. BackupIsOfPlan'
    BY <1>7, <2>1 DEF BackupIsOfPlan, LeftOut
  <2>5. UndoIsOfReceipt'
    BY <2>1 DEF UndoIsOfReceipt
  <2> QED BY <2>2, <2>3, <2>4, <2>5 DEF CommandInv
<1>8. ASSUME operator.step \in {"planned", "backed_up", "receipted", "inserted"}
      PROVE  operator \in Import
  BY <1>0, <1>8 DEF OperatorOK, Idle
<1>9. ASSUME SaveBackup, ~Refuse PROVE CommandInv'
  <2> DEFINE file == [file |-> "backup", rows |-> ReadRows(operator.snapshot), at |-> operator.at]
  <2>1. /\ operator.step = "planned" /\ operator' = [operator EXCEPT !.step = "backed_up"]
        /\ backups' = [backups EXCEPT ![operator.attempt] = file]
        /\ UNCHANGED << drafts, edits >>
    BY <1>9 DEF SaveBackup, database
  <2>2. operator \in Import
    BY <1>8, <2>1
  <2>3. /\ Plain(operator.snapshot) /\ OnlySources(operator.snapshot)
        /\ operator.added = Missed(operator.snapshot) /\ operator.added \subseteq SourceDrafts
    BY <2>1, <2>2 DEF CommandInv, PlannedOnExports, Importing
  <2>4. /\ file.file = "backup" /\ DOMAIN file.rows = SourceDrafts \ operator.added
    BY <2>3, RowsOfPlain DEF RowsOf
  <2> HIDE DEF file
  <2>5. backups'[operator.attempt] = file /\ operator.attempt \in Attempts
    BY <1>0, <2>1, <2>2
  <2> QED BY <1>7, <2>1, <2>2, <2>3, <2>4, <2>5 DEF WithBackup
<1>10. ASSUME SaveReceipt \/ InsertRows, ~Refuse PROVE CommandInv'
  <2>1. PICK next \in {"receipted", "inserted"} :
          /\ operator.step \in {"backed_up", "receipted"}
          /\ operator' = [operator EXCEPT !.step = next]
          /\ UNCHANGED << drafts, edits, backups >>
    BY <1>10 DEF SaveReceipt, InsertRows, Goto, database, files
  <2>2. operator \in Import
    BY <1>8, <2>1
  <2>3. operator.attempt \in WithBackup /\ LeftOut(operator.attempt) = operator.added
    BY <2>1 DEF CommandInv, BackupIsOfPlan
  <2> QED BY <1>7, <2>1, <2>2, <2>3 DEF WithBackup, LeftOut
<1>11. ASSUME PlanUndo, ~Refuse PROVE CommandInv'
  <2> DEFINE listed == receipts[operator.attempt].added
             removed == { d \in listed : operator.snapshot[d] # Missing }
  <2>1. /\ operator.step = "undoing"
        /\ operator' = [step |-> "checked", attempt |-> operator.attempt,
                        snapshot |-> operator.snapshot, removed |-> removed]
        /\ UNCHANGED << drafts, edits, receipts >>
    BY <1>11 DEF PlanUndo, Goto, database, files
  <2>2. receipts[operator.attempt] \in Receipts
    BY <2>1 DEF TransferInv, UndoHasReceipt
  <2>3. receipts[operator.attempt].file = "receipt" /\ listed \subseteq SourceDrafts
    BY <2>2 DEF Receipts
  <2>4. removed = listed \ Missed(operator.snapshot)
    BY <2>3 DEF Missed
  <2> HIDE DEF removed
  <2>5. /\ operator'.step = "checked" /\ operator'.snapshot = operator.snapshot
        /\ operator'.attempt = operator.attempt /\ operator'.removed = removed
    BY <2>1
  <2>6. UndoIsOfReceipt'
    BY <2>1, <2>3, <2>4, <2>5 DEF UndoIsOfReceipt, Missed
  <2>7. SnapshotHolds'
    BY <2>1, <2>5 DEF CommandInv, SnapshotHolds, Working
  <2> QED
    BY <2>5, <2>6, <2>7 DEF CommandInv, SnapshotIsPast, PlannedOnExports, BackupIsOfPlan, Reading, Importing
<1>12. ASSUME DeleteRows, ~Refuse PROVE CommandInv'
  <2>1. /\ operator.step = "checked" /\ operator' = [operator EXCEPT !.step = "deleted"]
        /\ UNCHANGED << drafts, receipts >>
    BY <1>12 DEF DeleteRows, Goto, database, files
  <2>2. operator \in Undo
    BY <1>0, <2>1 DEF OperatorOK, Idle
  <2>3. /\ operator'.step = "deleted" /\ operator'.snapshot = operator.snapshot
        /\ operator'.attempt = operator.attempt /\ operator'.removed = operator.removed
    BY <2>1, <2>2
  <2>4. UndoIsOfReceipt'
    BY <2>1, <2>3 DEF CommandInv, UndoIsOfReceipt, Missed
  <2>5. SnapshotHolds'
    BY <2>1, <2>3 DEF CommandInv, SnapshotHolds, Working
  <2> QED
    BY <2>3, <2>4, <2>5 DEF CommandInv, SnapshotIsPast, PlannedOnExports, BackupIsOfPlan, Reading, Importing
<1>13. ASSUME CommitImport \/ CommitUndo \/ DieInBackup \/ DieInReceipt PROVE CommandInv'
  BY <1>1, <1>13 DEF CommitImport, CommitUndo, DieInBackup, DieInReceipt, Idle
<1> QED
  BY <1>2, <1>4, <1>5, <1>6, <1>9, <1>10, <1>11, <1>12, <1>13 DEF OperatorStep, Fail

LEMMA BaseStep ==
  ASSUME TransferInv, FileInv, CommandInv, [TransferNext]_transferVars
  PROVE  FileInv' /\ CommandInv'
<1>1. CASE WizardStep
  <2>1. PICK d, row :
          d \in AllDrafts /\ row # Missing /\ row.version = edits + 1 /\ Change(d, row)
    BY <1>1 DEF WizardStep, CreateDraft, UploadDocument, AbandonDraft, AllDrafts, Missing
  <2> QED BY <2>1, BaseChange
<1>2. CASE OperatorStep
  <2>1. CommandInv'
    BY <1>2, BaseCommand
  <2>2. CASE CommitImport
    BY <2>1, <2>2, BaseImported
  <2>3. CASE CommitUndo
    BY <2>1, <2>3, BaseUndo
  <2>4. CASE ~CommitImport /\ ~CommitUndo
    <3>1. UNCHANGED << drafts, edits >>
      BY <1>2, <2>4
      DEF OperatorStep, BeginImport, BeginUndo, PlanImport, SaveBackup, SaveReceipt, InsertRows,
          PlanUndo, DeleteRows, Fail, DieInBackup, DieInReceipt, Refuse, Goto, database
    <3> QED BY <1>2, <2>1, <3>1, BaseFiles
  <2> QED BY <2>2, <2>3, <2>4
<1>3. CASE UNCHANGED transferVars
  <2>1. UNCHANGED << drafts, edits, backups, receipts, operator >>
    BY <1>3 DEF transferVars, database, files
  <2>2. CommandInv'
    BY <2>1 DEF CommandInv, SnapshotHolds, SnapshotIsPast, PlannedOnExports, BackupIsOfPlan,
                UndoIsOfReceipt, Working, Reading, Importing, WithBackup, LeftOut
  <2> QED BY <2>1, <2>2, FilesAndTableKept
<1> QED BY <1>1, <1>2, <1>3 DEF TransferNext

(***************************************************************************)
(* An undo puts the months back as the backup of its attempt has them when *)
(* the wizard changed nothing since the backup: for any bundle, any number *)
(* of attempts, imports that died before their commit or were repeated     *)
(* under other paths, and undos done before.                               *)
(***************************************************************************)
THEOREM UndoRestores == BackfillSpec => UndoRestoresBackup
<1> DEFINE Restored ==
      operator.step = "deleted" /\ drafts' # drafts =>
        LET backup == backups[operator.attempt] IN
        backup.at = edits => ReadRows(drafts') = backup.rows
<1>1. ASSUME TransferInv, FileInv, CommandInv, TransferNext PROVE Restored
  <2> SUFFICES ASSUME operator.step = "deleted", drafts' # drafts,
                      backups[operator.attempt].at = edits
               PROVE  ReadRows(drafts') = backups[operator.attempt].rows
    OBVIOUS
  <2>1. CommitUndo
    BY <1>1
    DEF TransferNext, WizardStep, CreateDraft, UploadDocument, AbandonDraft, Change, Locked,
        OperatorStep, BeginImport, BeginUndo, PlanImport, SaveBackup, SaveReceipt, InsertRows,
        CommitImport, PlanUndo, DeleteRows, Fail, DieInBackup, DieInReceipt, Refuse, Goto,
        database, Idle
  <2>2. /\ Plain(drafts) => Plain(drafts')
        /\ OnlySources(drafts) => OnlySources(drafts')
        /\ operator.attempt \in WithBackup /\ operator.removed # {}
        /\ Plain(drafts) /\ operator.removed # {} => Missed(drafts') = LeftOut(operator.attempt)
    BY <1>1, <2>1, BaseUndone
  <2>3. Plain(drafts) /\ OnlySources(drafts)
    BY <1>1, <2>2 DEF FileInv, BackupsArePast
  <2>4. ReadRows(drafts') = RowsOf(SourceDrafts \ LeftOut(operator.attempt))
    BY <2>2, <2>3, RowsOfPlain
  <2>5. /\ DOMAIN backups[operator.attempt].rows \subseteq SourceDrafts
        /\ backups[operator.attempt].rows = RowsOf(DOMAIN backups[operator.attempt].rows)
    BY <1>1, <2>2 DEF FileInv, BackupsHaveSources
  <2>6. SourceDrafts \ LeftOut(operator.attempt) = DOMAIN backups[operator.attempt].rows
    BY <2>5 DEF LeftOut
  <2> QED BY <2>4, <2>5, <2>6
<1>2. TransferInv /\ FileInv /\ CommandInv /\ [TransferNext]_transferVars => [Restored]_transferVars
  BY <1>1
<1>3. TransferSpec => [](FileInv /\ CommandInv)
  BY BaseInit, BaseStep, TransferIsInductive, PTL DEF TransferSpec
<1>4. TransferSpec => [][Restored]_transferVars
  BY <1>2, <1>3, TransferIsInductive, PTL DEF TransferSpec
<1> QED BY <1>4, BackfillTransfers DEF UndoRestoresBackup

-----------------------------------------------------------------------------
(* The rehearsed publication *)

Manifest == [Rows -> Contents]
Results == {"failed", "lost", "unconfirmed", "passed", "died"}

\* The locals of the publisher at each program point
ExperimentOK ==
  \/ experiment = Started
  \/ experiment \in [step : {"baseline", "recorded", "staging"}, baseline : Manifest]
  \/ experiment \in [step : {"committed"}, baseline : Manifest, seen : 0..MaxWrites]
  \/ experiment \in [step : {"observed", "reversed", "restored"}, baseline : Manifest,
                     seen : 0..MaxWrites, passed : BOOLEAN]
  \/ experiment \in [step : {"ended"}, result : Results]
  \/ experiment \in [step : {"ended"}, result : {"refused"}, seen : 0..MaxWrites]

RowsOK ==
  /\ rows \in Manifest /\ writes \in 0..MaxWrites /\ foreign \in [Rows -> 0..MaxWrites]
  /\ manifests \subseteq Manifest
  /\ \A k \in Elsewhere : rows[k] # Staged

(***************************************************************************)
(* What the publisher knows of the committed rows: between its checks and  *)
(* its commit all, because of the locks; between two transactions only     *)
(* what nobody has written over since.                                     *)
(***************************************************************************)
Known ==
  /\ experiment.step \in {"recorded", "staging"} => experiment.baseline \in manifests
  /\ experiment.step = "staging" => Holds(Capture) /\ rows = experiment.baseline
  /\ experiment.step \in {"committed", "observed"} =>
       /\ experiment.seen <= writes
       /\ writes = experiment.seen => Holds(Expected) /\ Reversed = experiment.baseline
  /\ experiment.step = "reversed" => Holds(Expected)
  /\ experiment.step = "restored" => \A k \in Rows : rows[k] # Staged

PublicationInv == RowsOK /\ ExperimentOK /\ Known /\ ForeignWritesSurvive /\ RefusedOnlyForOthers

LEMMA RowFacts ==
  /\ Workspace \subseteq Rows /\ Elsewhere \subseteq Rows /\ Candidates \subseteq Workspace
  /\ Protocol \in Workspace /\ Protocol \notin Candidates \cup Retained
  /\ Elsewhere \cap Workspace = {} /\ Rows = Workspace \cup Elsewhere
  /\ Retained \cap Candidates = {} /\ MaxWrites \in Nat
BY PublicationAssumption DEF Rows, Workspace

LEMMA ContentFacts ==
  /\ Absent \in Contents /\ Captured \in Contents /\ Staged \in Contents
  /\ Staged # Absent /\ Staged # Captured
  /\ \A n \in 1..MaxWrites : ByOther(n) \in Contents
  /\ \A n : ByOther(n) \notin {Absent, Captured, Staged}
BY DEF Contents, Absent, Captured, Staged, ByOther

LEMMA WorkspaceFacts ==
  \A k \in Workspace :
    /\ Capture[k] \in {Absent, Captured} /\ Expected[k] \in {Captured, Staged}
BY DEF Capture, Expected

LEMMA InitPublicationInv == PublicationInit => PublicationInv
<1> SUFFICES ASSUME PublicationInit PROVE PublicationInv
  OBVIOUS
<1>1. experiment = Started /\ experiment.step = "start"
  BY DEF PublicationInit, Started
<1>2. RowsOK
  BY RowFacts, ContentFacts DEF PublicationInit, RowsOK, Manifest
<1>3. ExperimentOK /\ Known /\ RefusedOnlyForOthers
  BY <1>1 DEF ExperimentOK, Known, RefusedOnlyForOthers
<1>4. ForeignWritesSurvive
  BY DEF PublicationInit, ForeignWritesSurvive
<1> QED BY <1>2, <1>3, <1>4 DEF PublicationInv

\* A step of the publisher that changes no row
LEMMA AdvanceInv ==
  ASSUME PublicationInv, UNCHANGED << rows, writes, foreign >>, manifests' \subseteq Manifest,
         ExperimentOK', Known', RefusedOnlyForOthers'
  PROVE  PublicationInv'
BY DEF PublicationInv, RowsOK, Manifest, ForeignWritesSurvive, ByOther, Rows, Workspace, Contents, Staged

LEMMA ForeignInv ==
  ASSUME PublicationInv, NEW k \in Rows, ForeignWrite(k)
  PROVE  PublicationInv'
<1> DEFINE new == ByOther(writes + 1)
<1>1. /\ rows' = [rows EXCEPT ![k] = new] /\ writes' = writes + 1
      /\ foreign' = [foreign EXCEPT ![k] = writes + 1]
      /\ UNCHANGED << manifests, experiment >>
      /\ writes < MaxWrites /\ experiment.step \notin {"staging", "reversed"}
  BY DEF ForeignWrite, TablesHeld
<1>2. /\ rows \in Manifest /\ writes \in Nat /\ foreign \in [Rows -> 0..MaxWrites]
      /\ writes + 1 \in 1..MaxWrites /\ manifests \subseteq Manifest
      /\ \A e \in Elsewhere : rows[e] # Staged
  BY <1>1, RowFacts DEF PublicationInv, RowsOK
<1>3. new \in Contents /\ new # Staged
  BY <1>2, ContentFacts
<1> HIDE DEF new
<1>4. \A e \in Rows : rows'[e] = IF e = k THEN new ELSE rows[e]
  BY <1>1, <1>2 DEF Manifest
<1>5. RowsOK'
  BY <1>1, <1>2, <1>3, <1>4, RowFacts DEF RowsOK, Manifest
<1>6. ExperimentOK'
  BY <1>1 DEF PublicationInv, ExperimentOK
<1>7. Known'
  <2>1. ASSUME experiment.step \in {"committed", "observed"}
        PROVE  experiment.seen \in Nat /\ experiment.seen <= writes
    BY <2>1, RowFacts DEF PublicationInv, ExperimentOK, Started, Known
  <2>2. ASSUME experiment.step \in {"committed", "observed"}
        PROVE  experiment.seen <= writes' /\ writes' # experiment.seen
    BY <2>1, <2>2, <1>1, <1>2
  <2>3. ASSUME experiment.step = "restored" PROVE \A e \in Rows : rows'[e] # Staged
    BY <2>3, <1>3, <1>4 DEF PublicationInv, Known
  <2>4. experiment.step \in {"recorded", "staging"} => experiment.baseline \in manifests
    BY DEF PublicationInv, Known
  <2> QED BY <2>2, <2>3, <2>4, <1>1 DEF Known
<1>8. ForeignWritesSurvive'
  <2> SUFFICES ASSUME NEW e \in Rows, foreign'[e] # 0 PROVE rows'[e] = ByOther(foreign'[e])
    BY DEF ForeignWritesSurvive
  <2>1. CASE e = k
    BY <2>1, <1>1, <1>2, <1>4 DEF new
  <2>2. CASE e # k
    BY <2>2, <1>1, <1>2, <1>4 DEF PublicationInv, ForeignWritesSurvive
  <2> QED BY <2>1, <2>2
<1>9. RefusedOnlyForOthers'
  <2>1. ASSUME experiment.step = "ended", experiment.result = "refused"
        PROVE  experiment.seen \in 0..MaxWrites
    BY <2>1 DEF PublicationInv, ExperimentOK, Started, Results
  <2>2. ASSUME experiment.step = "ended", experiment.result = "refused"
        PROVE  writes' > experiment'.seen
    BY <2>1, <2>2, <1>1, <1>2, RowFacts DEF PublicationInv, RefusedOnlyForOthers
  <2> QED BY <2>2, <1>1, <1>3, <1>4 DEF PublicationInv, RefusedOnlyForOthers
<1> QED BY <1>5, <1>6, <1>7, <1>8, <1>9 DEF PublicationInv

LEMMA PublisherInv ==
  ASSUME PublicationInv,
         \/ TakeBaseline \/ SaveRecoveryReceipt \/ Stage \/ CommitStage \/ Observe
         \/ Reverse \/ CommitReversal \/ Confirm
         \/ StagingFails \/ LoseReversal \/ PublisherDies \/ RunAgain
  PROVE  PublicationInv'
<1>0. /\ rows \in Manifest /\ writes \in 0..MaxWrites /\ manifests \subseteq Manifest /\ writes \in Nat
      /\ ExperimentOK /\ \A k \in Elsewhere : rows[k] # Staged
  BY RowFacts DEF PublicationInv, RowsOK
\* An experiment that ends without a claim, or starts again
<1>1. ASSUME NEW next \in {Started} \cup { Ended(result) : result \in {"failed", "lost", "died"} },
             Advance(next)
      PROVE  PublicationInv'
  <2>1. experiment' = next /\ UNCHANGED << rows, writes, foreign, manifests >>
    BY <1>1 DEF Advance
  <2>2. ExperimentOK' /\ Known' /\ RefusedOnlyForOthers'
    BY <2>1 DEF ExperimentOK, Known, RefusedOnlyForOthers, Started, Ended, Results
  <2> QED BY <2>1, <2>2, <1>0, AdvanceInv
<1>2. CASE TakeBaseline
  <2>1. CASE Holds(Capture)
    <3>1. /\ experiment' = [step |-> "baseline", baseline |-> rows]
          /\ UNCHANGED << rows, writes, foreign, manifests >>
      BY <2>1, <1>2 DEF TakeBaseline, Advance
    <3>2. ExperimentOK' /\ Known' /\ RefusedOnlyForOthers'
      BY <3>1, <1>0 DEF ExperimentOK, Known, RefusedOnlyForOthers, Manifest, Rows, Workspace, Contents
    <3> QED BY <3>1, <3>2, <1>0, AdvanceInv
  <2>2. CASE ~Holds(Capture)
    BY <2>2, <1>1, <1>2 DEF TakeBaseline
  <2> QED BY <2>1, <2>2
<1> DEFINE Staging == [step : {"baseline", "recorded", "staging"}, baseline : Manifest]
           Reversing == [step : {"observed", "reversed", "restored"}, baseline : Manifest,
                         seen : 0..MaxWrites, passed : BOOLEAN]
<1>3. ASSUME experiment.step \in {"baseline", "recorded", "staging"} PROVE experiment \in Staging
  BY <1>0, <1>3 DEF ExperimentOK, Started
<1>4. ASSUME experiment.step \in {"observed", "reversed", "restored"} PROVE experiment \in Reversing
  BY <1>0, <1>4 DEF ExperimentOK, Started
<1>5. CASE SaveRecoveryReceipt
  <2>1. experiment \in Staging
    BY <1>3, <1>5 DEF SaveRecoveryReceipt
  <2>2. /\ manifests' = manifests \cup {experiment.baseline}
        /\ experiment' = [experiment EXCEPT !.step = "recorded"]
        /\ UNCHANGED << rows, writes, foreign >>
    BY <1>5 DEF SaveRecoveryReceipt
  <2>3. /\ experiment' \in Staging /\ experiment'.step = "recorded"
        /\ experiment'.baseline = experiment.baseline
    BY <2>1, <2>2
  <2>4. ExperimentOK' /\ Known' /\ RefusedOnlyForOthers'
    BY <2>2, <2>3 DEF ExperimentOK, Known, RefusedOnlyForOthers
  <2> QED BY <2>1, <2>2, <2>4, <1>0, AdvanceInv
<1>6. CASE Stage
  <2>1. CASE Holds(Capture) /\ rows = experiment.baseline
    <3>1. experiment \in Staging /\ experiment.step = "recorded"
      BY <1>3, <1>6 DEF Stage
    <3>2. /\ experiment' = [experiment EXCEPT !.step = "staging"]
          /\ UNCHANGED << rows, writes, foreign, manifests >>
      BY <2>1, <1>6 DEF Stage, Advance
    <3>3. /\ experiment' \in Staging /\ experiment'.step = "staging"
          /\ experiment'.baseline = experiment.baseline
      BY <3>1, <3>2
    <3>4. Holds(Capture)'
      BY <2>1, <3>2 DEF Holds, Capture
    <3>5. Known'
      BY <2>1, <3>1, <3>2, <3>3, <3>4 DEF PublicationInv, Known
    <3>6. ExperimentOK' /\ RefusedOnlyForOthers'
      BY <3>2, <3>3 DEF ExperimentOK, RefusedOnlyForOthers
    <3> QED BY <3>2, <3>5, <3>6, <1>0, AdvanceInv
  <2>2. CASE ~(Holds(Capture) /\ rows = experiment.baseline)
    BY <2>2, <1>1, <1>6 DEF Stage
  <2> QED BY <2>1, <2>2
<1>7. CASE CommitStage
  <2>1. /\ experiment \in Staging /\ Holds(Capture) /\ rows = experiment.baseline
    BY <1>3, <1>7 DEF CommitStage, PublicationInv, Known
  <2>2. /\ rows' = Replaced(Expected) /\ UNCHANGED << writes, foreign, manifests >>
        /\ experiment' \in { [step |-> "committed", baseline |-> experiment.baseline, seen |-> writes],
                             Ended("lost") }
    BY <1>7 DEF CommitStage
  <2>3. \A k \in Rows : rows'[k] = IF k \in Workspace THEN Expected[k] ELSE rows[k]
    BY <2>2 DEF Replaced
  <2>4. rows' \in Manifest
    BY <2>2, <1>0, RowFacts, ContentFacts, WorkspaceFacts DEF Replaced, Manifest
  <2>5. RowsOK'
    BY <2>2, <2>3, <2>4, <1>0, RowFacts DEF RowsOK, PublicationInv
  <2>6. Holds(Expected)'
    BY <2>3, RowFacts DEF Holds, Expected
  <2>7. Reversed' = rows
    <3>1. \A k \in Rows : rows[k] = IF k \in Workspace THEN Capture[k] ELSE rows'[k]
      BY <2>1, <2>3 DEF Holds
    <3>2. Reversed' = [k \in Rows |-> IF k \in Workspace THEN Capture[k] ELSE rows'[k]]
      BY DEF Reversed, Replaced, Capture
    <3> QED BY <3>1, <3>2, <1>0 DEF Manifest
  <2>8. Known'
    BY <2>1, <2>2, <2>6, <2>7, <1>0 DEF Known, Ended
  <2>9. ExperimentOK' /\ RefusedOnlyForOthers'
    BY <2>1, <2>2, <1>0 DEF ExperimentOK, RefusedOnlyForOthers, Ended, Results
  <2>10. ForeignWritesSurvive'
    <3> SUFFICES ASSUME NEW k \in Rows, foreign[k] # 0 PROVE rows'[k] = ByOther(foreign[k])
      BY <2>2 DEF ForeignWritesSurvive
    <3>1. rows[k] = ByOther(foreign[k])
      BY DEF PublicationInv, ForeignWritesSurvive
    <3>2. k \notin Workspace
      BY <2>1, <3>1, WorkspaceFacts, ContentFacts DEF Holds
    <3> QED BY <2>3, <3>1, <3>2
  <2> QED BY <2>5, <2>8, <2>9, <2>10 DEF PublicationInv
<1>8. CASE Observe
  <2>1. experiment \in [step : {"committed"}, baseline : Manifest, seen : 0..MaxWrites]
    BY <1>0, <1>8 DEF Observe, ExperimentOK, Started
  <2>2. PICK passed \in BOOLEAN :
          /\ experiment' = [step |-> "observed", baseline |-> experiment.baseline,
                            seen |-> experiment.seen, passed |-> passed]
          /\ UNCHANGED << rows, writes, foreign, manifests >>
    BY <1>8 DEF Observe, Advance
  <2>3. (Holds(Expected) => Holds(Expected)') /\ Reversed' = Reversed
    BY <2>2 DEF Holds, Expected, Reversed, Replaced, Capture
  <2>4. Known'
    BY <2>1, <2>2, <2>3, <1>8 DEF PublicationInv, Known, Observe
  <2>5. ExperimentOK' /\ RefusedOnlyForOthers'
    BY <2>1, <2>2 DEF ExperimentOK, RefusedOnlyForOthers
  <2> QED BY <2>2, <2>4, <2>5, <1>0, AdvanceInv
<1>9. CASE Reverse
  <2>1. experiment \in Reversing /\ experiment.step = "observed"
    BY <1>4, <1>9 DEF Reverse
  <2>2. CASE Holds(Expected) /\ Reversed = experiment.baseline
    <3>1. /\ experiment' = [experiment EXCEPT !.step = "reversed"]
          /\ UNCHANGED << rows, writes, foreign, manifests >>
      BY <2>2, <1>9 DEF Reverse, Advance
    <3>2. experiment' \in Reversing /\ experiment'.step = "reversed"
      BY <2>1, <3>1
    <3>3. Holds(Expected)'
      BY <2>2, <3>1 DEF Holds, Expected
    <3>4. Known' /\ ExperimentOK' /\ RefusedOnlyForOthers'
      BY <3>2, <3>3 DEF Known, ExperimentOK, RefusedOnlyForOthers
    <3> QED BY <3>1, <3>4, <1>0, AdvanceInv
  <2>3. CASE ~(Holds(Expected) /\ Reversed = experiment.baseline)
    <3>1. /\ experiment' = [step |-> "ended", result |-> "refused", seen |-> experiment.seen]
          /\ UNCHANGED << rows, writes, foreign, manifests >>
      BY <2>3, <1>9 DEF Reverse, Advance
    <3>2. writes > experiment.seen
      BY <2>1, <2>3, <1>0, RowFacts DEF PublicationInv, Known
    <3>3. Known' /\ ExperimentOK' /\ RefusedOnlyForOthers'
      BY <2>1, <3>1, <3>2 DEF Known, ExperimentOK, RefusedOnlyForOthers
    <3> QED BY <3>1, <3>3, <1>0, AdvanceInv
  <2> QED BY <2>2, <2>3
<1>10. CASE CommitReversal
  <2>1. experiment \in Reversing /\ experiment.step = "reversed" /\ Holds(Expected)
    BY <1>4, <1>10 DEF CommitReversal, PublicationInv, Known
  <2>2. /\ rows' = Reversed /\ UNCHANGED << writes, foreign, manifests >>
        /\ experiment' \in { [experiment EXCEPT !.step = "restored"], Ended("lost") }
    BY <1>10 DEF CommitReversal
  <2>3. \A k \in Rows : rows'[k] = IF k \in Workspace THEN Capture[k] ELSE rows[k]
    BY <2>2 DEF Reversed, Replaced
  <2>4. rows' \in Manifest
    BY <2>2, <1>0, RowFacts, ContentFacts, WorkspaceFacts DEF Reversed, Replaced, Manifest
  <2>5. \A k \in Rows : rows'[k] # Staged
    BY <2>3, <1>0, RowFacts, ContentFacts, WorkspaceFacts
  <2>6. RowsOK'
    BY <2>2, <2>4, <2>5, RowFacts DEF RowsOK, PublicationInv
  <2>7. \/ experiment' \in Reversing /\ experiment'.step = "restored"
        \/ experiment' = Ended("lost")
    BY <2>1, <2>2
  <2>8. Known' /\ ExperimentOK' /\ RefusedOnlyForOthers'
    BY <2>5, <2>7 DEF Known, ExperimentOK, RefusedOnlyForOthers, Ended, Results
  <2>9. ForeignWritesSurvive'
    <3> SUFFICES ASSUME NEW k \in Rows, foreign[k] # 0 PROVE rows'[k] = ByOther(foreign[k])
      BY <2>2 DEF ForeignWritesSurvive
    <3>1. rows[k] = ByOther(foreign[k])
      BY DEF PublicationInv, ForeignWritesSurvive
    <3>2. k \notin Workspace
      BY <2>1, <3>1, WorkspaceFacts, ContentFacts DEF Holds
    <3> QED BY <2>3, <3>1, <3>2
  <2> QED BY <2>6, <2>8, <2>9 DEF PublicationInv
<1>11. CASE Confirm
  <2>1. /\ experiment' \in { Ended("passed"), Ended("unconfirmed") }
        /\ UNCHANGED << rows, writes, foreign, manifests >>
    BY <1>11 DEF Confirm, Advance
  <2>2. \A k \in Rows : rows[k] # Staged
    BY <1>11 DEF Confirm, PublicationInv, Known
  <2>3. Known' /\ ExperimentOK' /\ RefusedOnlyForOthers'
    BY <2>1, <2>2 DEF Known, ExperimentOK, RefusedOnlyForOthers, Ended, Results
  <2> QED BY <2>1, <2>3, <1>0, AdvanceInv
<1>12. CASE StagingFails
  BY <1>1, <1>12 DEF StagingFails
<1>13. CASE LoseReversal
  BY <1>1, <1>13 DEF LoseReversal
<1>14. CASE PublisherDies
  BY <1>1, <1>14 DEF PublisherDies
<1>15. CASE RunAgain
  BY <1>1, <1>15 DEF RunAgain
<1> QED
  BY <1>2, <1>5, <1>6, <1>7, <1>8, <1>9, <1>10, <1>11, <1>12, <1>13, <1>14, <1>15

LEMMA PublicationIsInductive == PublicationSpec => []PublicationInv
<1>1. PublicationInv /\ [PublicationNext]_publicationVars => PublicationInv'
  <2> SUFFICES ASSUME PublicationInv, [PublicationNext]_publicationVars PROVE PublicationInv'
    OBVIOUS
  <2>1. CASE UNCHANGED publicationVars
    <3>1. UNCHANGED << rows, writes, foreign, manifests, experiment >>
      BY <2>1 DEF publicationVars
    <3>2. Known'
      BY <3>1 DEF PublicationInv, Known, Holds, Reversed, Replaced, Capture, Expected
    <3>3. ExperimentOK' /\ RefusedOnlyForOthers' /\ manifests' \subseteq Manifest
      BY <3>1 DEF PublicationInv, RowsOK, ExperimentOK, RefusedOnlyForOthers
    <3> QED BY <3>1, <3>2, <3>3, AdvanceInv
  <2>2. CASE PublicationNext
    BY <2>2, ForeignInv, PublisherInv DEF PublicationNext
  <2> QED BY <2>1, <2>2
<1> QED BY <1>1, InitPublicationInv, PTL DEF PublicationSpec

LEMMA BackfillPublishes == BackfillSpec => PublicationSpec
<1>1. BackfillInit => PublicationInit
  BY DEF BackfillInit
<1>2. [BackfillNext]_backfillVars => [PublicationNext]_publicationVars
  BY DEF BackfillNext, OnDevelopment, Offline, OnRestored, backfillVars
<1> QED BY <1>1, <1>2, PTL DEF BackfillSpec, PublicationSpec

(***************************************************************************)
(* Rows, manifests and the publisher's locals are well typed, for any keys,*)
(* writers and number of experiments.                                      *)
(***************************************************************************)
THEOREM PublicationTypeCorrect == BackfillSpec => []PublicationTypeOK
<1>1. PublicationInv => PublicationTypeOK
  BY DEF PublicationInv, RowsOK, ExperimentOK, PublicationTypeOK, Manifest, Started, Results
<1> QED BY <1>1, PublicationIsInductive, BackfillPublishes, PTL

(***************************************************************************)
(* Nothing another client wrote is lost to an experiment, wherever it      *)
(* fails and however often it is run: a commit changes only rows that were *)
(* compared with the capture under the locks it still holds.               *)
(***************************************************************************)
THEOREM ForeignWritesAlwaysSurvive == BackfillSpec => []ForeignWritesSurvive
<1>1. PublicationInv => ForeignWritesSurvive
  BY DEF PublicationInv
<1> QED BY <1>1, PublicationIsInductive, BackfillPublishes, PTL

(***************************************************************************)
(* The reversal gives up only when somebody wrote since the commit, and an *)
(* experiment that reports an end of its reversal has left no candidate.   *)
(***************************************************************************)
THEOREM ReversalIsRefusedOnlyForOthers == BackfillSpec => []RefusedOnlyForOthers
<1>1. PublicationInv => RefusedOnlyForOthers
  BY DEF PublicationInv
<1> QED BY <1>1, PublicationIsInductive, BackfillPublishes, PTL

(***************************************************************************)
(* The candidates are committed only over rows that a saved receipt lists, *)
(* so that a death in between can always be recovered from.                *)
(***************************************************************************)
THEOREM StagesAreRecorded == BackfillSpec => StagedOverARecordedBaseline
<1> DEFINE Recorded == rows[Protocol] # Staged /\ rows'[Protocol] = Staged => rows \in manifests
<1>1. PublicationInv /\ [PublicationNext]_publicationVars => [Recorded]_publicationVars
  <2> SUFFICES ASSUME PublicationInv, PublicationNext, rows[Protocol] # Staged, rows'[Protocol] = Staged
               PROVE  rows \in manifests
    OBVIOUS
  <2>1. rows \in Manifest /\ Protocol \in Rows
    BY RowFacts DEF PublicationInv, RowsOK
  <2>2. ASSUME NEW k \in Rows, ForeignWrite(k) PROVE rows'[Protocol] # Staged
    BY <2>1, <2>2, ContentFacts DEF ForeignWrite, Manifest
  <2>3. CASE CommitStage
    BY <2>3 DEF CommitStage, PublicationInv, Known
  <2>4. CASE CommitReversal
    BY <2>1, <2>4, RowFacts, WorkspaceFacts, ContentFacts DEF CommitReversal, Reversed, Replaced
  <2> QED
    BY <2>2, <2>3, <2>4
    DEF PublicationNext, TakeBaseline, SaveRecoveryReceipt, Stage, Observe, Reverse, Confirm,
        StagingFails, LoseReversal, PublisherDies, RunAgain, Advance
<1> QED
  BY <1>1, PublicationIsInductive, BackfillPublishes, PTL
  DEF PublicationSpec, StagedOverARecordedBaseline

-----------------------------------------------------------------------------
(* What a prepared boundary plan says of the year, for any number of months. *)

Connected == run.connected = TRUE
Passed == run.passed = TRUE

\* The locals of a run that is in its months.
ChainOK ==
  /\ run.command \in Commands
  /\ run.month \in 1..(LastMonth + 1)
  /\ run.connected \in BOOLEAN /\ run.passed \in BOOLEAN

(***************************************************************************)
(* While the chain of identities holds, the carried book is the one that   *)
(* the documents make, receipts included; a chain that has passed has left *)
(* a candidate of every month to a command that collects.                  *)
(***************************************************************************)
ChainIsExact ==
  run.month # 1 /\ Continuity /\ Connected /\ run.carried # NoBook
    => exact # Lost /\ exact = run.carried

ChainIsCollected == Passed /\ Collects => run.collected = 1..(run.month - 1)

PreparationInv ==
  /\ run = NoRun \/ run.step \in {"months", "planned"}
  /\ run.step = "months" => ChainOK /\ ChainIsExact /\ ChainIsCollected
  /\ PlannedYearIsOneBook

LEMMA InitPreparationInv == PreparationInit => PreparationInv
BY DEF PreparationInit, PreparationInv, NoRun, PlannedYearIsOneBook

LEMMA Steps == NoRun.step = "idle"
BY DEF NoRun

\* A month that is carried and breaks nothing leaves the documents' book.
LEMMA MonthIsExact ==
  ASSUME PreparationInv, Reviewing, Month # 1 => run.carried # NoBook, Continuity,
         NEW opening, NEW does, NEW closing, NEW trouble,
         Month # 1 => Connected,
         ~Breaks(opening, does, closing, trouble), Carries(opening, does, closing)
  PROVE  /\ ExactAfter(opening, does, closing)
              = Book(WithReceipts(Continuous(opening, does).closing, trouble # "untraced"))
         /\ ExactAfter(opening, does, closing) # Lost
<1>1. run.step = "months" /\ ChainOK /\ ChainIsExact
  BY DEF Reviewing, PreparationInv
<1>2. trouble # "untraced"
  BY DEF Breaks, BreaksUnlessFallback
<1>3. WithReceipts(Continuous(opening, does).closing, trouble # "untraced")
        = Continuous(opening, does).closing
  BY <1>2 DEF WithReceipts
<1>4. Counts(Continuous(opening, does).closing) = closing
  BY DEF Carries
<1>5. \A units : Book(units) # Lost
  BY DEF Book, Lost
<1>6. CASE Month = 1
  BY <1>3, <1>4, <1>5, <1>6 DEF ExactAfter, Continuous, Independent
<1>7. CASE Month # 1
  <2>1. exact # Lost /\ exact = run.carried
    BY <1>1, <1>7 DEF ChainIsExact, Month
  <2>2. ~Falls(does) /\ ~IdentityBlocked(run.carried.units, does)
    BY <1>7 DEF Breaks, Falls
  <2>3. Continuous(opening, does) = IdentityReplay(run.carried.units, does, Month)
    BY <1>7, <2>2 DEF Continuous
  <2>4. Counts(exact.units) = opening
    BY <1>7, <2>1 DEF Carries
  <2> QED BY <1>3, <1>4, <1>5, <1>7, <2>1, <2>2, <2>3, <2>4 DEF ExactAfter
<1> QED BY <1>6, <1>7

\* A month that leaves the passed chain passed has left a candidate.
LEMMA MonthIsCollected ==
  ASSUME PreparationInv, Reviewing, NEW opening, NEW does, NEW closing, NEW trouble,
         Collects, AfterMonth(opening, does, closing, trouble).passed = TRUE
  PROVE  AfterMonth(opening, does, closing, trouble).collected = 1..Month
<1>1. run.step = "months" /\ ChainOK /\ ChainIsCollected
  BY DEF Reviewing, PreparationInv
<1>2. Passed /\ ~Breaks(opening, does, closing, trouble)
      /\ trouble = "none" /\ Carries(opening, does, closing)
  BY <1>1 DEF AfterMonth, ChainOK, Passed
<1>3. AfterMonth(opening, does, closing, trouble).collected = run.collected \cup {Month}
  BY <1>1, <1>2 DEF AfterMonth, Candidate, ChainOK
<1>4. run.collected = 1..(Month - 1)
  BY <1>1, <1>2 DEF ChainIsCollected, Month
<1>5. Month \in Nat \ {0}
  BY <1>1 DEF ChainOK, Month
<1> QED BY <1>3, <1>4, <1>5

LEMMA PreparationIsInductive == PreparationSpec => []PreparationInv
<1>1. PreparationInv /\ [PreparationNext]_preparationVars => PreparationInv'
  <2> SUFFICES ASSUME PreparationInv, [PreparationNext]_preparationVars PROVE PreparationInv'
    OBVIOUS
  <2> USE PreparationAssumption
  <2>1. CASE StartRun
    <3>1. PICK command \in Commands :
            run' = [step |-> "months", command |-> command, month |-> 1, carried |-> NoBook,
                    connected |-> TRUE, passed |-> TRUE, collected |-> {}]
      BY <2>1 DEF StartRun
    <3>2. ChainOK' /\ ChainIsExact' /\ ChainIsCollected' /\ run'.step = "months"
      BY <3>1 DEF ChainOK, ChainIsExact, ChainIsCollected
    <3> QED BY <3>2 DEF PreparationInv, PlannedYearIsOneBook
  <2>2. CASE MissMonth
    <3>1. Reviewing /\ ChainOK /\ run' = AfterGap
      BY <2>2 DEF MissMonth, Reviewing, PreparationInv
    <3>2. run' = [step |-> "months", command |-> run.command, month |-> run.month + 1,
                  carried |-> NoBook, connected |-> FALSE, passed |-> FALSE,
                  collected |-> run.collected]
      BY <3>1 DEF AfterGap, Month
    <3>3. ChainOK'
      BY <3>1, <3>2 DEF ChainOK, Reviewing, Month
    <3>4. ChainIsExact' /\ ChainIsCollected' /\ run'.step = "months"
      BY <3>2 DEF ChainIsExact, ChainIsCollected, Passed
    <3> QED BY <3>3, <3>4 DEF PreparationInv, PlannedYearIsOneBook
  <2>3. CASE ReplayMonth
    <3>1. Reviewing /\ ChainOK /\ (Month # 1 => run.carried # NoBook)
      BY <2>3 DEF ReplayMonth, Reviewing, PreparationInv
    <3>2. PICK opening \in Inventories, does \in Activities, closing \in Inventories, trouble \in Troubles :
            /\ run' = AfterMonth(opening, does, closing, trouble)
            /\ exact' = ExactAfter(opening, does, closing)
      BY <2>3 DEF ReplayMonth
    <3> DEFINE carries == Carries(opening, does, closing)
    <3> DEFINE breaks == Breaks(opening, does, closing, trouble)
    <3>3. /\ run' = [step |-> "months", command |-> run.command, month |-> run.month + 1,
                     carried |-> run'.carried, connected |-> run'.connected,
                     passed |-> run'.passed, collected |-> run'.collected]
          /\ run'.carried = IF carries
                THEN Book(WithReceipts(Continuous(opening, does).closing, trouble # "untraced"))
                ELSE NoBook
          /\ run'.connected = (run.connected /\ ~breaks /\ carries)
          /\ run'.connected \in BOOLEAN /\ run'.passed \in BOOLEAN
      BY <3>1, <3>2 DEF AfterMonth, ChainOK, Month
    <3>4. ChainOK'
      BY <3>1, <3>3 DEF ChainOK, Reviewing, Month
    <3>5. ChainIsExact'
      <4> SUFFICES ASSUME Continuity', run'.connected = TRUE, run'.carried # NoBook
                   PROVE  exact' # Lost /\ exact' = run'.carried
        BY DEF ChainIsExact, Connected
      <4> HIDE DEF carries, breaks
      <4>1. run'.connected => run.connected /\ ~breaks /\ carries
        BY <3>3
      <4>2. carries /\ ~breaks /\ run.connected
        BY <4>1
      <4>3. Connected
        BY <3>1, <4>2 DEF Connected, ChainOK
      <4>4. Continuity
        BY <3>1, <3>3 DEF Continuity
      <4>5. exact' = Book(WithReceipts(Continuous(opening, does).closing, trouble # "untraced"))
            /\ exact' # Lost
        BY <3>1, <3>2, <4>2, <4>3, <4>4, MonthIsExact DEF carries, breaks
      <4> QED BY <3>3, <4>5, <4>2
    <3>6. ChainIsCollected'
      <4> SUFFICES ASSUME Passed', Collects' PROVE run'.collected = 1..(run'.month - 1)
        BY DEF ChainIsCollected
      <4>1. Collects /\ run'.month = Month + 1 /\ Month \in Nat
        BY <3>1, <3>3 DEF Collects, Month, ChainOK
      <4>2. AfterMonth(opening, does, closing, trouble).passed = TRUE
        BY <3>2 DEF Passed
      <4>3. run'.collected = 1..Month
        BY <3>1, <3>2, <4>1, <4>2, MonthIsCollected
      <4> QED BY <4>1, <4>3
    <3> QED BY <3>3, <3>4, <3>5, <3>6 DEF PreparationInv, PlannedYearIsOneBook
  <2>4. CASE Report
    <3>1. ChainOK /\ ChainIsExact /\ ChainIsCollected /\ run.month > LastMonth /\ UNCHANGED exact
      BY <2>4 DEF Report, PreparationInv, Month
    <3>2. PICK later \in [retained : BOOLEAN, opening : Inventories, closing : Inventories, following : Inventories] :
            run' = IF Plannable(later)
                   THEN [step |-> "planned", command |-> run.command, carried |-> run.carried,
                         collected |-> run.collected, published |-> later.opening]
                   ELSE NoRun
      BY <2>4 DEF Report
    <3>3. CASE Plannable(later)
      <4>1. run'.step = "planned" /\ run'.carried = run.carried /\ run'.command = run.command
            /\ run'.collected = run.collected /\ run'.published = later.opening
        BY <3>2, <3>3
      <4>2. run.month = LastMonth + 1 /\ run.month # 1 /\ run.month - 1 = LastMonth
        BY <3>1 DEF ChainOK
      <4>3. exact # Lost /\ exact = run.carried
        BY <3>1, <3>3, <4>2 DEF ChainIsExact, Plannable, Verified, Connected
      <4>4. Counts(exact.units) = later.opening
        BY <3>3, <4>3 DEF Plannable, Joins, Matches
      <4>5. Collects' => run.collected = 1..LastMonth
        BY <3>1, <3>3, <4>1, <4>2 DEF ChainIsCollected, Plannable, Passed, Collects
      <4>6. PlannedYearIsOneBook'
        BY <3>1, <4>1, <4>3, <4>4, <4>5 DEF PlannedYearIsOneBook
      <4> QED BY <4>1, <4>6 DEF PreparationInv
    <3>4. CASE ~Plannable(later)
      BY <3>2, <3>4, Steps DEF PreparationInv, PlannedYearIsOneBook
    <3> QED BY <3>3, <3>4
  <2>5. CASE Rehearse \/ Package \/ EndRun
    BY <2>5, Steps DEF Rehearse, Package, EndRun, PreparationInv, PlannedYearIsOneBook
  <2>6. CASE UNCHANGED preparationVars
    BY <2>6 DEF preparationVars, PreparationInv, PlannedYearIsOneBook, ChainOK, ChainIsExact,
        ChainIsCollected, Continuity, Collects, Connected, Passed
  <2> QED BY <2>1, <2>2, <2>3, <2>4, <2>5, <2>6 DEF PreparationNext
<1> QED BY <1>1, InitPreparationInv, PTL DEF PreparationSpec

LEMMA BackfillPrepares == BackfillSpec => PreparationSpec
<1>1. BackfillInit => PreparationInit
  BY DEF BackfillInit
<1>2. [BackfillNext]_backfillVars => [PreparationNext]_preparationVars
  BY DEF BackfillNext, OnDevelopment, Offline, OnRestored, backfillVars
<1> QED BY <1>1, <1>2, PTL DEF BackfillSpec, PreparationSpec

(***************************************************************************)
(* A boundary plan, and with it a rehearsal and a package, exists only for *)
(* a year that is one book, for any number of months, any activities and   *)
(* any snapshots, next to the other commands.                              *)
(***************************************************************************)
THEOREM PlannedYearIsAlwaysOneBook == BackfillSpec => []PlannedYearIsOneBook
<1>1. PreparationInv => PlannedYearIsOneBook
  BY DEF PreparationInv
<1> QED BY <1>1, PreparationIsInductive, BackfillPrepares, PTL
=============================================================================
