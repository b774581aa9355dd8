---------------------------- MODULE LocalBackfill ----------------------------
(***************************************************************************)
(* The two backfill commands that write.  Each connects to one database    *)
(* and goes on only if the server confirms its name: drafts are            *)
(* transferred in campaigniq_dev alone, candidates published in a restored *)
(* copy alone.  The second loads a complete package, which commands that   *)
(* reach neither database prepare before; the first has nothing to do with *)
(* it, and what is prepared after the package makes no difference to it.   *)
(***************************************************************************)
EXTENDS DraftTransfer, RestoredPublication, BackfillPreparation

VARIABLE server  \* what current_database() answers

BackfillInit ==
  /\ server \in {"campaigniq_dev", "campaigniq_restore"}
  /\ TransferInit /\ PublicationInit /\ PreparationInit

OnDevelopment ==
  /\ server = "campaigniq_dev" /\ UNCHANGED << server, publicationVars, preparationVars >>
  /\ TransferNext

Offline ==
  /\ server = "campaigniq_restore" /\ ~packaged
  /\ UNCHANGED << server, transferVars, publicationVars >>
  /\ PreparationNext

OnRestored ==
  /\ server = "campaigniq_restore" /\ packaged
  /\ UNCHANGED << server, transferVars, preparationVars >>
  /\ PublicationNext

BackfillNext == OnDevelopment \/ Offline \/ OnRestored

backfillVars == << transferVars, publicationVars, preparationVars, server >>
BackfillSpec == BackfillInit /\ [][BackfillNext]_backfillVars
=============================================================================
