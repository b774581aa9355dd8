------------------------- MODULE MonthlyPublication -------------------------
(***************************************************************************)
(* The durable artifacts of CampaignIQ and the publication boundary that   *)
(* decides which of them a reader may treat as authoritative               *)
(* (persistence/artifact_storage.py, monthly_publication.py,               *)
(* authoritative_lot_state.py, historical_backfill_guard.py).              *)
(*                                                                         *)
(* Months are numbered 1..LastMonth in calendar order.  The contents of an *)
(* artifact are abstracted to the run that produced them: run number g is  *)
(* the g-th call of execute_monthly_import that reached the write phase.   *)
(* Every storage call is atomic, as os.replace and the single-statement    *)
(* PostgreSQL transactions make it; nothing groups two calls.              *)
(***************************************************************************)
EXTENDS Integers, Sequences

CONSTANTS
  LastMonth,    \* the last calendar month of the instance
  MaxRuns,      \* bound on the runs that reach the write phase
  Missing,      \* no artifact under this key
  Legacy,       \* an artifact saved before the publication protocol existed
  Bootstrap     \* opening lots rebuilt from the operator's position snapshot

ASSUME BoundsAssumption ==
  /\ LastMonth \in Nat \ {0}
  /\ MaxRuns \in Nat

ASSUME ContentAssumption ==
  /\ Missing \notin Nat /\ Legacy \notin Nat /\ Bootstrap \notin Nat
  /\ Missing # Legacy /\ Missing # Bootstrap /\ Legacy # Bootstrap

Months == 1..LastMonth
NoMonth == 0

\* The artifacts of one month, in the order execute_monthly_import writes them.
WriteOrder ==
  << "realized", "forex", "audit", "lifecycle", "lot-book", "journal",
     "provenance", "applicability", "completeness", "crypto", "decision" >>

Kinds == { WriteOrder[i] : i \in 1..11 }

Optional == {"audit", "crypto", "decision"}

Runs == 1..MaxRuns
Content == Runs \cup {Legacy, Missing}

VARIABLES
  artifacts,   \* artifacts[m][k]: the run whose payload is stored under the key
  cutover,     \* first protected month of the protocol file, NoMonth before it
  marker       \* months with a finalized-month marker

storageVars == << artifacts, cutover, marker >>

StorageTypeOK ==
  /\ artifacts \in [Months -> [Kinds -> Content]]
  /\ cutover \in Months \cup {NoMonth}
  /\ marker \subseteq Months

(***************************************************************************)
(* Before the protocol was introduced a month was simply a set of files;   *)
(* the months in "legacy" were saved that way.                             *)
(***************************************************************************)
StorageInit ==
  /\ \E legacy \in SUBSET Months :
       artifacts = [m \in Months |-> [k \in Kinds |->
                      IF m \in legacy /\ k \notin Optional THEN Legacy ELSE Missing]]
  /\ cutover = NoMonth
  /\ marker = {}

-----------------------------------------------------------------------------
Exists(m, k) == artifacts[m][k] # Missing

RequiresMarker(m) == cutover # NoMonth /\ m >= cutover

IsMonthPublished(m) == RequiresMarker(m) => m \in marker

\* _authoritative_lot_period_ends: published months that have a lot book.
AuthoritativePeriods ==
  { m \in Months : Exists(m, "lot-book") /\ IsMonthPublished(m) }

\* Mutation of HasPredecessor: any saved lot book counts, published or not.
HasSavedPredecessor(m) == m - 1 \in Months /\ Exists(m - 1, "lot-book")

\* load_preceding_authoritative_state: only the exact predecessor counts.
HasPredecessor(m) == m - 1 \in AuthoritativePeriods

\* Mutation of BackfillBlocked: only a later month blocks.
BlockedByLaterMonth(m) == \E p \in AuthoritativePeriods : p > m

\* assess_backfill: an existing or a later published month blocks finalization.
BackfillBlocked(m) == \E p \in AuthoritativePeriods : p >= m

-----------------------------------------------------------------------------
WriteProtocolFile(m) == cutover' = m /\ UNCHANGED << artifacts, marker >>

StoreArtifact(m, k, content) ==
  /\ artifacts' = [artifacts EXCEPT ![m][k] = content]
  /\ UNCHANGED << cutover, marker >>

PublishMarker(m) == marker' = marker \cup {m} /\ UNCHANGED << artifacts, cutover >>

UnpublishMarker(m) == marker' = marker \ {m} /\ UNCHANGED << artifacts, cutover >>
=============================================================================
