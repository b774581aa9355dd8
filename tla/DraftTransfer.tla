---------------------------- MODULE DraftTransfer ----------------------------
(***************************************************************************)
(* Synchronization of exported drafts into the development database and    *)
(* its undo (historical_backfill_draft_sync.py), while the wizard works on *)
(* the same tables.  One operator runs the commands one after the other;   *)
(* a command may fail or die anywhere.  A draft with its documents is one  *)
(* row: every change of a document also changes the row of its draft.      *)
(* The database is PostgreSQL: a serializable transaction reads the        *)
(* snapshot of its first SELECT, and may not change rows changed since.    *)
(***************************************************************************)
EXTENDS Naturals, FiniteSets

CONSTANTS
  SourceDrafts,  \* drafts of the exported bundle
  LocalDrafts,   \* drafts the wizard creates in the development database
  Months,
  MonthOf,       \* month of a source draft; the bundle has one draft a month
  Attempts,      \* pairs of backup and receipt paths the operator names
  MaxEdits       \* bound on the changes made by the wizard

ASSUME TransferAssumption ==
  /\ SourceDrafts \cap LocalDrafts = {}
  /\ MonthOf \in [SourceDrafts -> Months]
  /\ \A d, e \in SourceDrafts : MonthOf[d] = MonthOf[e] => d = e
  /\ MaxEdits \in Nat

VARIABLES
  drafts,   \* committed table: row of a draft, or Missing
  edits,    \* number of changes committed by the wizard
  latest,   \* history: the last change of a draft by the wizard, 0 for none
  imported, \* history: drafts added by committed imports and not removed
  backups,  \* backup file of an attempt: NoFile, Torn or its content
  receipts, \* receipt file of an attempt, likewise
  operator  \* the command under way, its program point and locals

database == << drafts, edits, latest, imported >>
files == << backups, receipts >>
transferVars == << database, files, operator >>

AllDrafts == SourceDrafts \cup LocalDrafts
Missing == [state |-> "missing"]
NoFile == [file |-> "none"]
Torn == [file |-> "torn"]

(***************************************************************************)
(* A row of import_drafts with its documents.  Version 0 is the exported   *)
(* content, any other one is what the wizard's change of that number left. *)
(***************************************************************************)
Row == [state : {"draft", "abandoned"}, month : Months, version : 0..MaxEdits]
Tables == [AllDrafts -> Row \cup {Missing}]
SourceRow(d) == [state |-> "draft", month |-> MonthOf[d], version |-> 0]
Exported == { MonthOf[d] : d \in SourceDrafts }

Active(table) == { d \in AllDrafts : table[d].state = "draft" }
OneActivePerMonth(table) ==
  \A d, e \in Active(table) : table[d].month = table[e].month => d = e
\* _read_rows: the active drafts of the exported months
ReadRows(table) ==
  [d \in { e \in Active(table) : table[e].month \in Exported } |-> table[d]]

Idle == [step |-> "idle"]
\* LOCK TABLE follows the first SELECT and holds to the end of the command.
Locked == operator.step \in
  {"planned", "backed_up", "receipted", "inserted", "checked", "deleted"}

TransferInit ==
  /\ drafts \in { t \in Tables :
       /\ OneActivePerMonth(t)
       /\ \A d \in AllDrafts : t[d] # Missing => t[d].version = 0
       /\ \A d \in SourceDrafts : t[d] # Missing => t[d].month = MonthOf[d] }
  /\ edits = 0
  /\ latest = [d \in AllDrafts |-> 0]
  /\ imported = {}
  /\ backups = [a \in Attempts |-> NoFile]
  /\ receipts = [a \in Attempts |-> NoFile]
  /\ operator = Idle

-----------------------------------------------------------------------------
(* The wizard: one transaction each, kept out while the tables are locked. *)

Change(d, row) ==
  /\ ~Locked /\ edits < MaxEdits
  /\ drafts' = [drafts EXCEPT ![d] = row]
  /\ edits' = edits + 1
  /\ latest' = [latest EXCEPT ![d] = edits + 1]
  /\ UNCHANGED << imported, files, operator >>

CreateDraft(d, m) ==
  /\ drafts[d] = Missing
  /\ \A e \in Active(drafts) : drafts[e].month # m
  /\ Change(d, [state |-> "draft", month |-> m, version |-> edits + 1])

UploadDocument(d) ==
  /\ drafts[d].state = "draft"
  /\ Change(d, [state |-> "draft", month |-> drafts[d].month, version |-> edits + 1])

AbandonDraft(d) ==
  /\ drafts[d].state = "draft"
  /\ Change(d, [state |-> "abandoned", month |-> drafts[d].month, version |-> edits + 1])

-----------------------------------------------------------------------------
(* sync_drafts with apply.  Refusing is a ROLLBACK and a closed connection *)

Goto(next) == operator' = next /\ UNCHANGED << database, files >>
Refuse == Goto(Idle)

\* The snapshot is that of _verify_transaction's SELECT, before the locks.
BeginImport(a) ==
  /\ operator = Idle
  /\ Goto([step |-> "importing", attempt |-> a, snapshot |-> drafts, at |-> edits])

Holders(table, m) == { d \in Active(table) : table[d].month = m }
\* plan_import: the months whose local draft is not the exported one
Conflicting(table) ==
  { d \in SourceDrafts : \E e \in Holders(table, MonthOf[d]) : e # d \/ table[e] # SourceRow(d) }
Additions(table) == { d \in SourceDrafts : Holders(table, MonthOf[d]) = {} }
\* _check_ids: the identifier is taken by an abandoned draft
Taken(table) == { d \in Additions(table) : table[d] # Missing }

PlanImport ==
  /\ operator.step = "importing"
  /\ LET snapshot == operator.snapshot IN
     IF Conflicting(snapshot) \cup Taken(snapshot) # {}
       THEN Refuse
       ELSE Goto([step |-> "planned", attempt |-> operator.attempt, snapshot |-> snapshot,
                  at |-> operator.at, added |-> Additions(snapshot)])

\* Mutation of SaveBackup: the file is opened for writing, new or not.
SaveBackupOver ==
  /\ operator.step = "planned"
  /\ backups' = [backups EXCEPT ![operator.attempt] =
       [file |-> "backup", rows |-> ReadRows(operator.snapshot), at |-> operator.at]]
  /\ operator' = [operator EXCEPT !.step = "backed_up"]
  /\ UNCHANGED << database, receipts >>

\* _write_private creates the file exclusively: a path in use is an error.
\* In a backup "at" is history: how many changes its snapshot had seen.
SaveBackup ==
  /\ operator.step = "planned"
  /\ IF backups[operator.attempt] # NoFile
       THEN Refuse
       ELSE /\ backups' = [backups EXCEPT ![operator.attempt] =
                 [file |-> "backup", rows |-> ReadRows(operator.snapshot), at |-> operator.at]]
            /\ operator' = [operator EXCEPT !.step = "backed_up"]
            /\ UNCHANGED << database, receipts >>

Listing(listed) ==
  /\ operator.step = "backed_up"
  /\ receipts[operator.attempt] = NoFile
  /\ receipts' = [receipts EXCEPT ![operator.attempt] = [file |-> "receipt", added |-> listed]]
  /\ operator' = [operator EXCEPT !.step = "receipted"]
  /\ UNCHANGED << database, backups >>
\* Mutation of SaveReceipt: it lists every draft of the bundle.
SaveReceiptOfBundle == Listing(SourceDrafts)

SaveReceipt ==
  /\ operator.step = "backed_up"
  /\ IF receipts[operator.attempt] # NoFile
       THEN Refuse
       ELSE /\ receipts' = [receipts EXCEPT ![operator.attempt] =
                 [file |-> "receipt", added |-> operator.added]]
            /\ operator' = [operator EXCEPT !.step = "receipted"]
            /\ UNCHANGED << database, backups >>

(***************************************************************************)
(* The INSERTs meet the unique index of active months as it is now, with   *)
(* the rows committed after the snapshot; the closing comparison reads the *)
(* snapshot and the inserted rows.                                         *)
(***************************************************************************)
Inserted == [d \in AllDrafts |-> IF d \in operator.added THEN SourceRow(d) ELSE drafts[d]]

InsertRows ==
  /\ operator.step = "receipted"
  /\ IF OneActivePerMonth(Inserted) /\ \A d \in operator.added : drafts[d] = Missing
       THEN Goto([operator EXCEPT !.step = "inserted"])
       ELSE Refuse

CommitImport ==
  /\ operator.step = "inserted"
  /\ drafts' = Inserted
  /\ imported' = imported \cup operator.added
  /\ operator' = Idle
  /\ UNCHANGED << edits, latest, files >>

-----------------------------------------------------------------------------
(* undo_sync                                                               *)

\* A torn receipt fails its checksum or does not parse.
BeginUndo(a) ==
  /\ operator = Idle
  /\ receipts[a].file = "receipt"
  /\ Goto([step |-> "undoing", attempt |-> a, snapshot |-> drafts])

\* Mutation of Changed: the content of an active draft is not compared.
ChangedState(table, d) == table[d].state = "abandoned"

\* A listed draft that is there, but edited or abandoned
Changed(table, d) == table[d] # Missing /\ table[d] # SourceRow(d)

PlanUndo ==
  /\ operator.step = "undoing"
  /\ LET snapshot == operator.snapshot
         listed == receipts[operator.attempt].added IN
     IF \E d \in listed : Changed(snapshot, d)
       THEN Refuse
       ELSE Goto([step |-> "checked", attempt |-> operator.attempt, snapshot |-> snapshot,
                  removed |-> { d \in listed : snapshot[d] # Missing }])

\* A row changed since the snapshot cannot be deleted: serialization failure.
DeleteRows ==
  /\ operator.step = "checked"
  /\ IF \A d \in operator.removed : drafts[d] = operator.snapshot[d]
       THEN Goto([operator EXCEPT !.step = "deleted"])
       ELSE Refuse

CommitUndo ==
  /\ operator.step = "deleted"
  /\ drafts' = [d \in AllDrafts |-> IF d \in operator.removed THEN Missing ELSE drafts[d]]
  /\ imported' = imported \ operator.removed
  /\ operator' = Idle
  /\ UNCHANGED << edits, latest, files >>

-----------------------------------------------------------------------------

\* An exception: a lock timeout, a full disk, a lost connection.  A file
\* being written is unlinked.
Fail == operator # Idle /\ Refuse

\* The process dies: the server rolls back, a file being written stays torn.
DieInBackup ==
  /\ operator.step = "planned" /\ backups[operator.attempt] = NoFile
  /\ backups' = [backups EXCEPT ![operator.attempt] = Torn]
  /\ operator' = Idle
  /\ UNCHANGED << database, receipts >>

DieInReceipt ==
  /\ operator.step = "backed_up" /\ receipts[operator.attempt] = NoFile
  /\ receipts' = [receipts EXCEPT ![operator.attempt] = Torn]
  /\ operator' = Idle
  /\ UNCHANGED << database, backups >>

WizardStep ==
  \/ \E d \in LocalDrafts, m \in Months : CreateDraft(d, m)
  \/ \E d \in AllDrafts : UploadDocument(d) \/ AbandonDraft(d)

OperatorStep ==
  \/ \E a \in Attempts : BeginImport(a) \/ BeginUndo(a)
  \/ PlanImport \/ SaveBackup \/ SaveReceipt \/ InsertRows \/ CommitImport
  \/ PlanUndo \/ DeleteRows \/ CommitUndo
  \/ Fail \/ DieInBackup \/ DieInReceipt

TransferNext == WizardStep \/ OperatorStep

TransferSpec == TransferInit /\ [][TransferNext]_transferVars

-----------------------------------------------------------------------------

OperatorOK ==
  \/ operator = Idle
  \/ operator \in [step : {"importing"}, attempt : Attempts, snapshot : Tables, at : 0..MaxEdits]
  \/ operator \in [step : {"planned", "backed_up", "receipted", "inserted"}, attempt : Attempts,
                   snapshot : Tables, at : 0..MaxEdits, added : SUBSET SourceDrafts]
  \/ operator \in [step : {"undoing"}, attempt : Attempts, snapshot : Tables]
  \/ operator \in [step : {"checked", "deleted"}, attempt : Attempts,
                   snapshot : Tables, removed : SUBSET SourceDrafts]

Receipts == [file : {"receipt"}, added : SUBSET SourceDrafts]

TransferTypeOK ==
  /\ drafts \in Tables
  /\ edits \in 0..MaxEdits
  /\ latest \in [AllDrafts -> 0..MaxEdits]
  /\ imported \subseteq SourceDrafts
  /\ DOMAIN backups = Attempts
  /\ receipts \in [Attempts -> Receipts \cup {NoFile, Torn}]
  /\ OperatorOK

(***************************************************************************)
(* What the wizard saved last in a draft is in the table: neither an       *)
(* import nor an undo, planned on a snapshot the wizard has overtaken,     *)
(* ever overwrites or deletes it ("imported draft changed; rollback        *)
(* refused", historical_backfill_draft_sync.py:346).                       *)
(***************************************************************************)
EditsSurvive ==
  \A d \in AllDrafts : latest[d] # 0 => drafts[d] # Missing /\ drafts[d].version = latest[d]

(***************************************************************************)
(* What imports have added can be undone at any time, also after a death   *)
(* right after a commit and after any further command under paths used     *)
(* before: a complete receipt lists it, beside a backup without it.        *)
(***************************************************************************)
ImportsHaveReceipts ==
  \A d \in imported : \E a \in Attempts :
    /\ receipts[a].file = "receipt" /\ d \in receipts[a].added
    /\ backups[a].file = "backup" /\ d \notin DOMAIN backups[a].rows

(***************************************************************************)
(* An undo puts the months back as the backup of its attempt has them when *)
(* the wizard changed nothing since, also when the import died before its  *)
(* commit, was repeated under other paths, or was undone before.           *)
(***************************************************************************)
UndoRestoresBackup ==
  [][ operator.step = "deleted" /\ drafts' # drafts
        => LET backup == backups[operator.attempt] IN
           backup.at = edits => ReadRows(drafts') = backup.rows ]_transferVars
=============================================================================
