----------------------- MODULE MonthlyImportExecution -----------------------
(***************************************************************************)
(* Finalizing a month: the wizard's preflight and backfill guard           *)
(* (ui/dashboard.py, import_preflight.py) followed by                      *)
(* execute_monthly_import (monthly_import_execution.py), one action per    *)
(* call that touches shared state.  A session is one browser tab running   *)
(* the Streamlit script; several may be at work, none holds a lock, and    *)
(* each may fail between any two calls.                                    *)
(***************************************************************************)
EXTENDS MonthlyPublication

CONSTANTS
  Sessions,      \* concurrent operators
  Wizards,       \* those that call through render_monthly_import_wizard; the
                 \* others call execute_monthly_import directly
  Outcomes,      \* what a run may produce besides its mandatory payloads
  Torn           \* a source archive whose copy was interrupted

ASSUME OutcomesAssumption ==
  Outcomes \subseteq [exceptional : BOOLEAN, crypto : BOOLEAN, audit : BOOLEAN]

ASSUME WizardsAssumption == Wizards \subseteq Sessions

ASSUME TornAssumption == Torn \notin Nat /\ Torn # Missing

VARIABLES
  sessions,   \* the program point and locals of each session
  lineage,    \* history: for each run its month, opening state and outcome
  archive,    \* archive[m]: whose trade history the source archive holds
  contended   \* history: the months two sessions were at work on at once

vars == << artifacts, cutover, marker, sessions, lineage, archive, contended >>

Openings == Runs \cup {Legacy, Bootstrap, Missing}

RunRecords ==
  [month : Months, opening : Openings, outcome : Outcomes]

Pcs == { "idle", "loading", "prepared", "confirmed", "archive", "protocol",
         "cutover", "build", "unpublish", "write" }

SessionRecords ==
  [pc : Pcs, month : Months, opening : Openings, run : 0..MaxRuns, next : 1..12]

Idle == [pc |-> "idle", month |-> 1, opening |-> Missing, run |-> 0, next |-> 1]

TypeOK ==
  /\ StorageTypeOK
  /\ sessions \in [Sessions -> SessionRecords]
  /\ lineage \in Seq(RunRecords) /\ Len(lineage) <= MaxRuns
  /\ \A s \in Sessions : sessions[s].run <= Len(lineage)
  /\ archive \in [Months -> Runs \cup {Missing, Torn}]
  /\ contended \subseteq Months

Init ==
  /\ StorageInit
  /\ sessions = [s \in Sessions |-> Idle]
  /\ lineage = << >>
  /\ archive = [m \in Months |-> Missing]
  /\ contended = {}

At(s, pc) == sessions[s].pc = pc

Goto(s, pc) == sessions' = [sessions EXCEPT ![s].pc = pc]

\* On to the next artifact of the generation.
Advance(s) == sessions' = [sessions EXCEPT ![s].next = @ + 1]

\* Where a session stands before its first write: its month, the opening state
\* it will start from and, once the pipeline has run, its run.
Prepare(s, pc, m, opening, run) ==
  sessions' = [sessions EXCEPT ![s] =
    [pc |-> pc, month |-> m, opening |-> opening, run |-> run, next |-> 1]]

-----------------------------------------------------------------------------
(***************************************************************************)
(* Preflight.  prepare_monthly_import looks for the exact predecessor and  *)
(* otherwise opens from the supplied prior month-end snapshot.             *)
(***************************************************************************)
AtWorkOn(t, m) == ~At(t, "idle") /\ sessions[t].month = m

DiscoverPredecessor(s, m) ==
  /\ At(s, "idle")
  /\ contended' = IF \E t \in Sessions : AtWorkOn(t, m) THEN contended \cup {m} ELSE contended
  /\ Prepare(s, IF HasPredecessor(m) THEN "loading" ELSE "prepared", m, Bootstrap, 0)
  /\ UNCHANGED << storageVars, lineage, archive >>

LoadPredecessor(s) ==
  /\ At(s, "loading")
  /\ LET m == sessions[s].month
     IN Prepare(s, "prepared", m, artifacts[m - 1]["lot-book"], 0)
  /\ UNCHANGED << storageVars, lineage, archive, contended >>

\* The wizard assesses the backfill guard once per script run, before the
\* operator's click is acted on; a direct call has no such guard.
PassGuard(s) ==
  /\ At(s, "prepared")
  /\ s \in Wizards => ~BackfillBlocked(sessions[s].month)
  /\ Goto(s, "confirmed")
  /\ UNCHANGED << storageVars, lineage, archive, contended >>

-----------------------------------------------------------------------------
(***************************************************************************)
(* execute_monthly_import.  The archived trade history of an exceptionally *)
(* finalized predecessor must be the one its provenance manifest names.    *)
(***************************************************************************)
PriorDeliveriesVerified(m) ==
  LET p == m - 1 IN
    (p \in Months /\ IsMonthPublished(p) /\ Exists(p, "decision")
       /\ archive[p] # Missing /\ Exists(p, "provenance"))
      => archive[p] = artifacts[p]["provenance"]

\* The pipeline and the closing reconciliation read only the run's own inputs;
\* "exceptional" is a run accepted by an exactly matching reviewed decision.
RunPipeline(s) ==
  /\ At(s, "confirmed")
  /\ PriorDeliveriesVerified(sessions[s].month)
  /\ Len(lineage) < MaxRuns
  /\ \E outcome \in Outcomes :
       lineage' = Append(lineage, [month |-> sessions[s].month,
                                   opening |-> sessions[s].opening,
                                   outcome |-> outcome])
  /\ Prepare(s, "archive", sessions[s].month, sessions[s].opening, Len(lineage) + 1)
  /\ UNCHANGED << storageVars, archive, contended >>

\* Mutation of ArchiveTradeHistory: an archived file is not replaced.
ArchiveFirstTradeHistory(s) ==
  /\ At(s, "archive")
  /\ archive' = [archive EXCEPT ![sessions[s].month] = IF @ = Missing THEN sessions[s].run ELSE @]
  /\ Goto(s, "protocol")
  /\ UNCHANGED << storageVars, lineage, contended >>

ArchiveTradeHistory(s) ==
  /\ At(s, "archive")
  /\ archive' = [archive EXCEPT ![sessions[s].month] = sessions[s].run]
  /\ Goto(s, "protocol")
  /\ UNCHANGED << storageVars, lineage, contended >>

\* ensure_publication_protocol_in_storage: the existence check ...
CheckProtocol(s) ==
  /\ At(s, "protocol")
  /\ Goto(s, IF cutover = NoMonth THEN "cutover" ELSE "build")
  /\ UNCHANGED << storageVars, lineage, archive, contended >>

\* ... and the write that follows it.
WriteProtocol(s) ==
  /\ At(s, "cutover")
  /\ WriteProtocolFile(sessions[s].month)
  /\ Goto(s, "build")
  /\ UNCHANGED << lineage, archive, contended >>

\* The replacement generation is serialized in memory before anything is hidden.
BuildGeneration(s) ==
  /\ At(s, "build")
  /\ Goto(s, "unpublish")
  /\ UNCHANGED << storageVars, lineage, archive, contended >>

\* Mutation of Unpublish: the month stays visible while it is rewritten.
StayPublished(s) ==
  /\ At(s, "unpublish")
  /\ Goto(s, "write")
  /\ UNCHANGED << storageVars, lineage, archive, contended >>

Unpublish(s) ==
  /\ At(s, "unpublish")
  /\ UnpublishMarker(sessions[s].month)
  /\ Goto(s, "write")
  /\ UNCHANGED << lineage, archive, contended >>

-----------------------------------------------------------------------------
\* What the run's generation holds under each key.
Produces(outcome, k) ==
  /\ k = "audit" => outcome.audit
  /\ k = "crypto" => outcome.crypto
  /\ k = "decision" => outcome.exceptional

Payload(g, k) == IF Produces(lineage[g].outcome, k) THEN g ELSE Missing

\* Crypto and decision artifacts are written or deleted; the source-resolution
\* audit is written when there is one and otherwise left as it was found.
Stored(g, k, old) ==
  IF k = "audit" /\ Payload(g, k) = Missing THEN old ELSE Payload(g, k)

WriteArtifact(s) ==
  /\ At(s, "write") /\ sessions[s].next <= 11
  /\ LET m == sessions[s].month
         k == WriteOrder[sessions[s].next]
     IN StoreArtifact(m, k, Stored(sessions[s].run, k, artifacts[m][k]))
  /\ Advance(s)
  /\ UNCHANGED << lineage, archive, contended >>

\* Mutation of Publish: the marker goes in before the last mandatory artifacts.
PublishEarly(s) ==
  /\ At(s, "write") /\ sessions[s].next = 9
  /\ PublishMarker(sessions[s].month)
  /\ sessions' = [sessions EXCEPT ![s] = Idle]
  /\ UNCHANGED << lineage, archive, contended >>

Publish(s) ==
  /\ At(s, "write") /\ sessions[s].next = 12
  /\ PublishMarker(sessions[s].month)
  /\ sessions' = [sessions EXCEPT ![s] = Idle]
  /\ UNCHANGED << lineage, archive, contended >>

\* A raised exception, a blocked reconciliation, a closed tab or a killed
\* process: the session is gone and what it stored stays.
Fail(s) ==
  /\ ~At(s, "idle")
  /\ sessions' = [sessions EXCEPT ![s] = Idle]
  /\ UNCHANGED << storageVars, lineage, archive, contended >>

\* copyfile writes the archive in place, so dying inside it leaves part of it.
FailWhileArchiving(s) ==
  /\ At(s, "archive")
  /\ archive' = [archive EXCEPT ![sessions[s].month] = Torn]
  /\ sessions' = [sessions EXCEPT ![s] = Idle]
  /\ UNCHANGED << storageVars, lineage, contended >>

SessionStep(s) ==
  \/ \E m \in Months : DiscoverPredecessor(s, m)
  \/ LoadPredecessor(s) \/ PassGuard(s) \/ RunPipeline(s)
  \/ ArchiveTradeHistory(s) \/ CheckProtocol(s) \/ WriteProtocol(s)
  \/ BuildGeneration(s) \/ Unpublish(s) \/ WriteArtifact(s) \/ Publish(s)
  \/ Fail(s) \/ FailWhileArchiving(s)

Next == \E s \in Sessions : SessionStep(s)

Spec == Init /\ [][Next]_vars

-----------------------------------------------------------------------------
(***************************************************************************)
(* Properties                                                              *)
(***************************************************************************)

\* Month m holds one generation: the payloads, the presence of crypto and of
\* the reconciliation decision all come from the same run of that month.
WholeGeneration(m) ==
  \E g \in 1..Len(lineage) :
    /\ lineage[g].month = m
    /\ \A k \in Kinds \ {"audit"} : artifacts[m][k] = Payload(g, k)

\* A month that carries its marker is one whole generation, whatever was
\* interrupted, retried or republished before, as long as no two sessions were
\* at work on that month at once (monthly_import_execution.py:411).
PublishedWhole == \A m \in marker \ contended : WholeGeneration(m)

\* However many sessions race on a month, a marked month lacks no mandatory
\* artifact: the readers of a published month find every key they open.
PublishedComplete ==
  \A m \in marker : \A k \in Kinds \ Optional : artifacts[m][k] # Missing

\* The archived trade history of a published month is the file its own
\* provenance manifest names, so the next month's check of prior deliveries
\* never refuses evidence that CampaignIQ itself replaced.
ArchiveMatchesProvenance ==
  \A m \in marker : archive[m] = artifacts[m]["provenance"]

\* At work on month m behind the point where the guard was assessed.
PastGuard(s, m) == AtWorkOn(s, m) /\ sessions[s].pc \notin {"loading", "prepared"}

\* A published month that nobody is past the guard on is final: its marker, its
\* payloads and its archived trade history stay, and the guard lets no tab of the
\* wizard through to it, however many are open (assess_backfill).  A tab that was
\* through before the month was published may still rewrite it.
PublishedMonthsAreFinal ==
  [][\A m \in marker :
       (\A s \in Sessions : ~PastGuard(s, m)) =>
         /\ m \in marker' /\ artifacts'[m] = artifacts[m] /\ archive'[m] = archive[m]
         /\ \A s \in Wizards : ~PastGuard(s, m)']_vars

-----------------------------------------------------------------------------
\* The account history a reader of lot books sees (LotLedger).
VisibleBook ==
  [m \in Months |-> IF m \in AuthoritativePeriods THEN artifacts[m]["lot-book"] ELSE Missing]

OpeningOfBook ==
  [m \in Months |->
     IF VisibleBook[m] \in Runs THEN lineage[VisibleBook[m]].opening ELSE VisibleBook[m]]

Ledger == INSTANCE LotLedger WITH
  Books <- Content \ {Missing}, NoBook <- Missing,
  ledger <- VisibleBook, openedFrom <- OpeningOfBook

\* The lot books that readers see form an append-only chain (LotLedger.tla).
LedgerChain == Ledger!Spec
=============================================================================
