------------------------ MODULE RestoredPublication ------------------------
(***************************************************************************)
(* The rehearsed publication of historical months on a restored database   *)
(* (historical_backfill_restored_publisher.py): stage and commit the       *)
(* candidates, look at them from another connection, and take them back.   *)
(* The transactions lock the tables, and others may write between them;    *)
(* the experiment may fail or die anywhere and be run again.               *)
(***************************************************************************)
EXTENDS Naturals

CONSTANTS
  Candidates,  \* keys of the candidate payloads, absent from the capture
  Retained,    \* artifacts, drafts and documents of the captured workspace
  Elsewhere,   \* rows of other workspaces
  Protocol,    \* the key of the publication protocol
  MaxWrites    \* bound on the writes of others

ASSUME PublicationAssumption ==
  /\ Candidates # {}
  /\ Candidates \cap Retained = {} /\ Elsewhere \cap (Candidates \cup Retained) = {}
  /\ Protocol \notin Candidates \cup Retained \cup Elsewhere
  /\ MaxWrites \in Nat

VARIABLES
  rows,       \* committed content: absent, captured, staged or a write's number
  writes,     \* number of writes by others
  foreign,    \* history: the last write of a row by others, 0 for none
  manifests,   \* the table manifests in the recovery receipts saved so far
  experiment  \* program point and locals of the publisher

publicationVars == << rows, writes, foreign, manifests, experiment >>

Workspace == Candidates \cup Retained \cup {Protocol}
Rows == Workspace \cup Elsewhere
Absent == [is |-> "absent"]
Captured == [is |-> "captured"]
Staged == [is |-> "staged"]
ByOther(n) == [is |-> "written", by |-> n]
Contents == {Absent, Captured, Staged} \cup { ByOther(n) : n \in 1..MaxWrites }

\* bundle["artifacts"], drafts and documents
Capture == [k \in Workspace |-> IF k \in Candidates THEN Absent ELSE Captured]
\* the same with the candidates and the new protocol
Expected == [k \in Workspace |-> IF k \in Retained THEN Captured ELSE Staged]

\* require_workspace
Holds(workspace) == \A k \in Workspace : rows[k] = workspace[k]
Replaced(workspace) == [k \in Rows |-> IF k \in Workspace THEN workspace[k] ELSE rows[k]]

Started == [step |-> "start"]
Ended(result) == [step |-> "ended", result |-> result]
TablesHeld == experiment.step \in {"staging", "reversed"}

PublicationInit ==
  /\ rows = [k \in Rows |-> IF k \in Candidates THEN Absent ELSE Captured]
  /\ writes = 0
  /\ foreign = [k \in Rows |-> 0]
  /\ manifests = {}
  /\ experiment = Started

\* An upsert of an artifact or a change of a draft by any other client.
ForeignWrite(k) ==
  /\ ~TablesHeld /\ writes < MaxWrites
  /\ writes' = writes + 1
  /\ rows' = [rows EXCEPT ![k] = ByOther(writes + 1)]
  /\ foreign' = [foreign EXCEPT ![k] = writes + 1]
  /\ UNCHANGED << manifests, experiment >>

-----------------------------------------------------------------------------

Advance(next) == experiment' = next /\ UNCHANGED << rows, writes, foreign, manifests >>

(***************************************************************************)
(* The first transaction: the database is the capture, its manifest is     *)
(* taken, and an injected failure rolls back to a savepoint.               *)
(***************************************************************************)
TakeBaseline ==
  /\ experiment.step = "start"
  /\ IF Holds(Capture)
       THEN Advance([step |-> "baseline", baseline |-> rows])
       ELSE Advance(Ended("failed"))

SaveRecoveryReceipt ==
  /\ experiment.step = "baseline"
  /\ manifests' = manifests \cup {experiment.baseline}
  /\ experiment' = [experiment EXCEPT !.step = "recorded"]
  /\ UNCHANGED << rows, writes, foreign >>

\* Mutation of Stage: only the workspace is compared again.
StageUnchecked ==
  /\ experiment.step = "recorded" /\ Holds(Capture)
  /\ Advance([experiment EXCEPT !.step = "staging"])

\* The second transaction, before its commit
Stage ==
  /\ experiment.step = "recorded"
  /\ IF Holds(Capture) /\ rows = experiment.baseline
       THEN Advance([experiment EXCEPT !.step = "staging"])
       ELSE Advance(Ended("failed"))

(***************************************************************************)
(* The commit, and the flag that it happened: the answer to a COMMIT may   *)
(* be lost, and the experiment then ends without taking anything back.     *)
(***************************************************************************)
CommitStage ==
  /\ experiment.step = "staging"
  /\ rows' = Replaced(Expected)
  /\ experiment' \in { [step |-> "committed", baseline |-> experiment.baseline, seen |-> writes],
                       Ended("lost") }
  /\ UNCHANGED << writes, foreign, manifests >>

\* Mutation of Observe: the commit is noted after a successful look.
ObserveFirst ==
  /\ experiment.step = "committed"
  /\ \/ /\ Holds(Expected)
        /\ Advance([step |-> "observed", baseline |-> experiment.baseline,
                    seen |-> experiment.seen, passed |-> TRUE])
     \/ Advance(Ended("unconfirmed"))

\* The observer's connection; whatever it raises, the finally clause runs.
Observe ==
  /\ experiment.step = "committed"
  /\ \E passed \in {TRUE, FALSE} :
       /\ passed => Holds(Expected)
       /\ Advance([step |-> "observed", baseline |-> experiment.baseline,
                seen |-> experiment.seen, passed |-> passed])

(***************************************************************************)
(* The third transaction deletes the candidates, restores the protocol row *)
(* and compares the whole with the baseline, or refuses.                   *)
(***************************************************************************)
Reversed == Replaced(Capture)

\* Mutation of Reverse: the staged rows are not looked at before.
ReverseUnchecked ==
  /\ experiment.step = "observed" /\ Reversed = experiment.baseline
  /\ Advance([experiment EXCEPT !.step = "reversed"])

Reverse ==
  /\ experiment.step = "observed"
  /\ IF Holds(Expected) /\ Reversed = experiment.baseline
       THEN Advance([experiment EXCEPT !.step = "reversed"])
       ELSE Advance([step |-> "ended", result |-> "refused", seen |-> experiment.seen])

CommitReversal ==
  /\ experiment.step = "reversed"
  /\ rows' = Reversed
  /\ experiment' \in { [experiment EXCEPT !.step = "restored"], Ended("lost") }
  /\ UNCHANGED << writes, foreign, manifests >>

Confirm ==
  /\ experiment.step = "restored"
  /\ \E passed \in {TRUE, FALSE} :
       /\ passed => experiment.passed /\ Holds(Capture) /\ rows = experiment.baseline
       /\ Advance(Ended(IF passed THEN "passed" ELSE "unconfirmed"))

\* Any other call may raise; once the stage is committed only Reverse ends it.
StagingFails ==
  /\ experiment.step \in {"start", "baseline", "recorded", "staging"}
  /\ Advance(Ended("failed"))

\* The reversing transaction is lost with its connection or its locks.
LoseReversal ==
  /\ experiment.step \in {"observed", "reversed"}
  /\ Advance(Ended("lost"))

PublisherDies == experiment.step # "ended" /\ Advance(Ended("died"))

RunAgain == experiment.step = "ended" /\ Advance(Started)

PublicationNext ==
  \/ \E k \in Rows : ForeignWrite(k)
  \/ TakeBaseline \/ SaveRecoveryReceipt \/ Stage \/ CommitStage \/ Observe
  \/ Reverse \/ CommitReversal \/ Confirm
  \/ StagingFails \/ LoseReversal \/ PublisherDies \/ RunAgain

PublicationSpec == PublicationInit /\ [][PublicationNext]_publicationVars

-----------------------------------------------------------------------------

PublicationTypeOK ==
  /\ rows \in [Rows -> Contents]
  /\ writes \in 0..MaxWrites
  /\ foreign \in [Rows -> 0..MaxWrites]
  /\ manifests \subseteq [Rows -> Contents]
  /\ experiment.step \in { "start", "baseline", "recorded", "staging", "committed",
                           "observed", "reversed", "restored", "ended" }
  /\ experiment.step \in { "baseline", "recorded", "staging", "committed",
                           "observed", "reversed", "restored" }
       => experiment.baseline \in [Rows -> Contents]

(***************************************************************************)
(* No transaction of the experiment overwrites or deletes what another     *)
(* client wrote, before it, between two of them, or in an earlier attempt  *)
(* ("Candidate changed; automatic rollback refused",                       *)
(* historical_backfill_restored_publisher.py:199).                         *)
(***************************************************************************)
ForeignWritesSurvive == \A k \in Rows : foreign[k] # 0 => rows[k] = ByOther(foreign[k])

(***************************************************************************)
(* Candidates are only committed over a database that a saved receipt      *)
(* describes row by row, so that what a death or a refusal leaves behind   *)
(* can be undone from it.                                                  *)
(***************************************************************************)
StagedOverARecordedBaseline ==
  [][ rows[Protocol] # Staged /\ rows'[Protocol] = Staged => rows \in manifests ]_publicationVars

(***************************************************************************)
(* The reversal is refused only because somebody wrote since the commit: a *)
(* failed look from the other connection leaves nothing published.         *)
(***************************************************************************)
RefusedOnlyForOthers ==
  experiment.step = "ended" =>
    /\ experiment.result = "refused" => writes > experiment.seen
    /\ experiment.result \in {"passed", "unconfirmed"}
         => \A k \in Rows : rows[k] # Staged
=============================================================================
