# CampaignIQ in TLA+

CampaignIQ imports one month of brokerage evidence at a time: an operator
uploads statements, the program reconstructs trades, campaigns and lots,
reconciles the result with the broker's closing inventory and publishes a
generation of monthly artifacts that the analytics pages read. These modules
model the parts of it whose correctness depends on the order of steps: what is
stored when, what several browser tabs do to each other, what a failure leaves
behind, what a long sequence of legal trades does to the lots, what three
replays of one history say of each other, and what a year of drafts must be
before it may be published.

Paths below are relative to `src/src/campaigniq/`.

## Inventory

| Part | State | Operations | Hard behaviour | What makes it correct |
|---|---|---|---|---|
| Artifact storage, publication (`persistence/artifact_storage.py`, `monthly_publication.py`, `authoritative_lot_state.py`, `historical_backfill_guard.py`) | keyed JSON payloads, the cutover, finalized-month markers | write, delete, list, exists; protect, unpublish, publish a month | no transaction over two calls; check-then-write of the cutover; months saved before the protocol | a marked month is complete and of one run; published months form an append-only chain |
| Monthly import execution (`import_preflight.py`, `monthly_import_execution.py`) | the archive of trade histories; a run's locals | preflight, guard, pipeline, reconciliation, eleven writes, marker | failure between any two writes, retries, two tabs on one month, a predecessor read minutes before it is used | readers never see a half-written month; the archive stays the file the provenance names |
| Persisted analytics (`persistence/persisted_multi_month_analytics.py`, `lifecycle_history.py`, `ui/dashboard.py` `load_summaries`) | none of its own | list keys, check markers, load payloads | months published during a load | what is shown of a month is one run; a published month is shown in the end |
| Import drafts, wizard (`persistence/import_drafts.py`, `import_draft_bridge.py`, `ui/monthly_finalization_state.py`, `ui/dashboard.py`) | drafts, documents and revisions in PostgreSQL; session state of a tab | create or resume, upload, replace, abandon, restore, validate, finalize, approve | documents replaced between validation and finalization, confirmations that outlive what they confirmed | what is executed is what the validated draft holds |
| Lot book and replay (`domain/lot_book.py`, `lot_book_period_applier.py`, `persistence/lot_book_store.py`, forex position-effect resolver) | lots by instrument, next identifier, net forex positions | open, close, signed change, claim for a campaign, split, save, load | FIFO over partial closes and splits, exceptions in the middle of a change, identifiers carried from month to month | FIFO, conservation of units, identifiers that never name two lots |
| Period import pipeline (`import_pipeline.py`, `campaign_reconstructor.py`, `position_event_reconciler.py`, `expired_option_reconciler.py`) | none; two passes over the evidence | read, reconcile events, build the opening book, analyze the boundary, replay | assignments reported twice, on the next business day or in the next month | every economic event is applied once |
| Boundary and history (`campaign_boundary_resolver.py`, `historical_lot_reconstructor.py`, `boundary_reconstruction.py`) | the opening book under resolution | choose exact lot subsets, seed missing lots, bind provenance | ambiguous subsets, rebinding of carried lots, eight calls that each see what the others left | a lot is bound only when the evidence fixes it; seeding stops at the demand |
| Campaign continuity (`domain/campaign_continuity.py`) | a graph of trades and carried campaigns, found on a clone | link by closed lots and by cover, group, name, replay | links over rolls, assignments and covered calls; lots of unknown campaign | a position keeps its campaign, two carried ones never merge |
| Realized attribution, journal, lifecycle (`realized_lot_attributor.py`, `historical_backfill_realized_replay.py`, `persistence/position_journal.py`, `option_roll.py`, `position_exit.py`) | three replays of one history | match broker records with closing activities; divide basis; detect rolls, exits | partial matches, one delivery reported by trade and by event, rounding of basis | the replays agree; nothing closed is attributed twice; a report is refused only if it must be |
| Analytics summaries and views (`analytics/*.py`, `ui/analytics_navigation.py`, `campaign_interactions.py`) | session state, address, kept way back | filter, open a row, return, Back of the browser | clicks on widgets drawn before; campaign numbers that collide; excluded records | every total is the sum of what is shown; a row and its detail agree; Back restores the page |
| Closing reconciliation (`closing_inventory_reconciliation.py`, `reconciliation_decision.py`) | a reviewed decision | compare, review, approve | a decision reused for other documents | an exception covers exactly the reviewed mismatches |
| Historical backfill (`historical_backfill_*.py`) | drafts of two databases, restored databases, frozen captures, packages | synchronize and undo, preflight, rehearse, package, publish, roll back | a transfer that fails half way, an undo after the target changed, a chain of twelve replays in which one month falls back | the target is either untouched or the planned state; only a year that is one book is published |
| Crypto month, forex evidence (`persistence/crypto_month.py`, `forex_*.py`) | FIFO of coins; cash corroboration | open, close, corroborate | carried coins, conflicting statements | no close without lots |
| Importers, contracts, access, preferences | none or display settings | parsing, drawing | none of order | outside these models |

They meet in one place: `execute_monthly_import` takes the documents of a draft,
loads the opening lot book of the exact predecessor month, runs the pipeline
(which replays the month on a clone of that book), reconciles, and writes the
generation. The analytics pages and the next month's preflight read it back
through the publication boundary. The backfill preflight calls the same pipeline
twelve times with `preview_only`, over a frozen storage.

`PROJECT.json` lists every component with its sources and every hazard with
the line at which it bites.

## Modules

| Module | Models | Variables and what they are in the code |
|---|---|---|
| `MonthlyPublication` | storage and the publication boundary | `artifacts[m][k]`: who wrote the payload under the key; `cutover`: the protocol file; `marker`: marker files |
| `MonthlyImportExecution` | preflight to marker, extends the former | `sessions[s]`: program point and locals of a tab of the wizard (`Wizards`) or of a direct call; `archive`: archived trade histories; `lineage`, `contended`: history |
| `LotLedger` | the abstract promise: an append-only chain of month-end lot books | `ledger`, `openedFrom` |
| `AnalyticsReader` | dashboard loads composed with the writers: realized and forex keys, the lifecycle history, the reload after an error | `reader`: program point, the cutovers it read, keys and payloads |
| `AnalyticsViews` | what the pages compute of the payloads: summaries, performance tables, outcomes, drawdown, concentration | none |
| `AnalyticsSession` | one tab on these pages, extends the former | `files`: published attributions; `session`, `url`: session state and address; `trail`, `visited`: ways back, with their lengths as JSON; `screen`, `drawn`: what was drawn and whether it is current |
| `ImportDrafts` | drafts and wizard tabs | `drafts`: rows of the database; `tabs[t]`: widgets, session state and script locals |
| `LotBook` | the functions of a lot book on sequences of lots | none |
| `PeriodReplay` | months of activity replayed on a book | `lots`, `nextId`: the working clone; `opening`: what it was cloned from; `stage` ... `claimed`: locals of the loop under way; `fx`, `seeded`: the forex resolver; `position`, `retired`: history |
| `CampaignTrades` | trades, directional bias, grouping into campaigns; a whole trade or event applied to a book | none |
| `OpeningReconstruction` | one or two passes of `_run_once` over the opening lots, call by call | `input`: the operator's files; `parsed`: their trades in order and the campaigns they form; `pass`, `stage`: the next call; `book`; `report`: the boundary analysis |
| `CampaignContinuity` | the month replayed with carried identities, extends the former | `plan`: the graph, consumption and findings of the replay on a clone |
| `PeriodEvidence` | applier, attributor, report matching and journal over one month, loop by loop | `book`, `ending`, `transitions`; `planned`, `closures`, `activities`, `unused`, `results`; `journal`; `refusal` |
| `AssignmentDeliveries` | deliveries of option assignments over month ends: event reconciliation, carried deliveries, closing reconciliation and its exceptions | `posted`, `delivered`: the days of the two brokers' reports; `published`, `books`, `decisions`: the stored months; `execution`: the last result; `approvals`: the `ReconciliationDecision`s a caller holds |
| `DraftTransfer` | synchronization of exported drafts into the development database and its undo, beside the wizard | `drafts`: the committed table; `backups`, `receipts`: the two files of an attempt; `operator`: the command under way; `edits`, `latest`, `imported`: history |
| `BackfillPreparation` | preflight of the year, boundary plan, rehearsal, package | `run`: the command under way with the carried book and the flags `connected` (`identity_chain`), `passed` (`all_2025_drafts_passed`), `collected` (the collector's periods); `rehearsed`, `packaged`: the files it may leave; `exact`: history |
| `RestoredPublication` | the rehearsed publication on a restored database, beside other clients | `rows`: the committed rows; `manifests`: what the recovery receipts describe; `experiment`: program point and locals; `writes`, `foreign`: history |
| `LocalBackfill` | the commands, each on its own database, and the package between them | `server`: the database that answers |
| `MC*` | constants of the small instances | |
| `Totals` | the running total that the code's `sum(...)` forms; the shares of an amount | none |
| `Timelines` | trades and events in the order of the code's `sorted(...)` | none |
| `PublicationProofs`, `DraftProofs`, `ReplayProofs`, `DeliveryProofs`, `BackfillProofs`, `SessionProofs`, `EvidenceProofs` | theorems, one module per component; the year's preparation is in `BackfillProofs`, those of `PeriodEvidence` in `EvidenceProofs` | |
| `TotalsProofs` | lemmas about loops, totals of sequences, sums over finite sets, shares and timelines, used by the four modules of proofs that need them | |

One action is one call that touches shared state (a storage call, one database
transaction, one call on the opening book, one iteration of a loop over lots or
activities, one month of the preflight); everything a session computes from its
locals between two of them belongs to the action before. Payloads are abstracted
to the run that produced them, documents to their digests, quantities to
integers: the code only adds and compares them there.

`LotBook` and `CampaignTrades` are shared: `PeriodReplay` refines one change of
the book into the iterations of its loop, with exceptions in between;
`OpeningReconstruction` and `PeriodEvidence` apply a whole trade at a time, since
their questions are about the order of calls.

## Runs

| Run | Instance | Shows |
|---|---|---|
| `finalization` | 1 session, 3 months, 3 runs, each accepted exceptionally; 408 985 states | the archive matches the provenance; lot books refine `LotLedger` |
| `republication` | 2 tabs of the wizard and a direct call, 1 month, 2 runs of two outcomes that differ in every optional artifact; 2 301 419 states | a marked month is complete always, and of one run unless two sessions worked on it at once; once nobody is past the guard on it, nothing of it changes and no tab gets through |
| `analytics` | 1 session, 2 months, 2 runs, 1 reader; 187 021 states | what a load shows of a protected month is one finished run in its realized, forex and lifecycle evidence; a month that stays published is shown in the end |
| `views` | 3 months of 2 years, 2 days each, 2 clicks (4 from one start), 81 curves, 4 mixtures of records, 2 bookmarks; 78 401 states | drawdown is the deepest fall; every dollar of five summaries is shown once; a row and its detail agree; Back restores the page |
| `drafts` | 2 tabs (one finalizes), 2 roles, 1 draft, 3 uploads | a finalization executes what its draft holds; an abandoned draft is frozen |
| `lots` | 2 campaigns, 3 options, 2 equities, 1 pair, 3 history items in 2 months | FIFO, unique identifiers, conservation, the forex resolver and the lots agree, opening lots keep their origin |
| `opening` | contracts of 2 shares; every month of up to two trades with up to two of history; carried months of up to three trades; 447 812 states | rebinding is exact, provenance keeps positions, seeding stops at the demand; a continuity plan gives each position the campaigns of its lots, and cover is used once |
| `evidence` | contracts of 2 shares, 2 ticks a day, months of up to two trades, reports of up to two rows; 146 740 states | the replays agree; the journal accounts for every position, and for its owners where they are never in doubt; basis is divided in proportion and no share is negative; matchable rows are matched, closed units used once; shares of an assignment leave once; a symbol that has gone flat has an exit or another reason |
| `deliveries` | 3 assignments, 2 of one equity, 3 months of 4 days, 1 holiday | every plain delivery is counted once over any imports; an exception describes exactly the book it published; with the next statement none is needed |
| `backfill` | 2 exported months, 1 draft of the wizard, 2 attempts, 2 changes; 2 candidates, 1 retained row, 1 of another workspace, 2 foreign writes; a year of 3 months with 7 activities, 2 instruments and up to 2 units; 119 484 states | neither an import, an undo, a staging nor a reversal touches what others committed meanwhile; what was committed can be undone from a file saved before, after any death; a planned year is one book |
| `forex_carry`, `repeated_delivery` | the smallest instance that shows it | the two findings below: each checks one sentence of the repository and is violated |

### Bounds and why they are enough

Three months are needed for a month between two others, which is what the guard,
the chain and the cutover distinguish; three runs, for two attempts at one month
and one at a neighbour. One month with two tabs and a direct call has every
interleaving of a race, since sessions meet in nothing but the keys of their month, the
cutover and the neighbouring lot book: two that are past the guard at once, and
one that comes before or after, with the guard or without. `finalization` takes only
the exceptional outcome, after which the next month verifies the archived trade
history. In `drafts`, three uploads allow a document to be
stored, replaced and replaced again around one validation. In `lots`, two or
three items with quantities one and two make partial closes, closes over several
lots, changes through zero, claims that split a lot, and the carry into a second
month.

In `opening`, a contract is two shares instead of a hundred, so that a part of a
contract's shares exists; `JoinDays` is the code's, days of trades lie on both sides of
a pause of thirty; two campaigns of history and two of the month are the smallest
that compete for a lot, and one kind of event per input keeps the product of the
choices small. Verticals and forex pairs are left out. The carried months have
three of eight trades, put and call assignments, expirations, and lots of known,
unknown and documented campaign: a roll of two campaigns into one, a call
written on assigned shares and a second one that finds the cover used.

In `evidence`, two ticks make two items of one day ordered or simultaneous;
dates include a weekend, a market holiday and a bank holiday; two report rows
compete for one activity, share one, or split one. A close of four lots
(`FourLots`) is the smallest whose last share rounding can leave negative. In `views`, two clicks are
two callbacks on one drawn page, which is the race in question; one start takes
four, for ways back within ways back. `apply_route` drops a way back of more
than 8192 characters. A page's way back holds the page's own route with its way back in it,
as JSON in JSON: its length is that of the route (`RouteLength`) with the
kept one and one character for each quote and backslash that is escaped, and these
double each time (`RouteQuotes` are the route's own). The code's routes have some
200 characters with 36 quotes, and eight of them kept one in the other are beyond
8192; the instance has routes of 3 characters with one quote and a `MaxLength` of 5, so
that one kept page fits and two, one in the other, do not; four closes give
every shape of a curve with one high and one trough around another; the mixtures
put colliding numbers, ambiguous, unassigned, futures, unreconciled and
adjacent-month records into the same months. An idle tab may stop, and so `views`
does not check deadlock.

In `backfill`, two attempts allow a repetition under other paths after a death,
two changes a draft created and edited or edited and abandoned between any two
steps; two candidates and one row of each other kind distinguish what a
transaction replaces, compares and leaves alone; the publisher may run again
without bound. In the year, the first month, one that is connected to it and one
that is connected to another month cover the chain, the theorem any number;
two units let one activity close units of two campaigns. The restored copy
starts without drafts (`MCInit`): its commands do not read them. In `deliveries`, a
month end on a Saturday and one on a Friday, each report on any day up to the
last, and two assignments of one equity put every pair of reports into one
month, two, or around a weekend or holiday; a week of four or five days is
enough, since dates are compared with neighbouring market days only.

`MaxRuns`, `MaxRevision`, `MaxDrafts`, `MaxItems`, `LastMonth`, `MaxEdits`,
`MaxWrites`, `MaxRecords`, `MaxClicks` and the publications of `Starts` bound the
actions that would exceed them. `lots` and `deliveries` do not check
deadlock either, since their months end; sessions and wizard tabs never do.

Each property has a mutation of the code (`PROJECT.json`, "mutants", the
definitions commented "Mutation of") under which its run fails.

### Fairness

One specification assumes fairness: `AnalyticsReader`, weak fairness of the
loading tab's own steps. A script that was started runs to its end, and the
operator reloads a page that showed an error. Nothing is assumed of the sessions
that finalize, which a person starts and a failure may end anywhere: so
`PublishedMonthIsShown` speaks of a month that stays
published. Elsewhere a
Streamlit script runs when a person clicks and may be stopped by the next click,
and nothing retries on its own: those properties are of safety.

## What the runs found

- `forex_carry`: a currency pair is saved as a plain instrument; the next month
  finds no lots of the pair, opens a second position or refuses to close.
- `repeated_delivery`: an assignment posted on a month's last day and delivered
  the morning after, in the next month, is applied by both imports. The second
  then does not reconcile, so that it is noticed, not hidden.

Observed while modelling, without a run of its own; the models have all of them,
and the properties are stated so that they hold of the code as it is:

- The backfill guard is assessed before, and not during, an execution: a second
  tab that passed it earlier rewrites the month that the first has published,
  where `historical_backfill_guard.py:23` says "Replacing a published month
  requires a separate audited workflow." `PublishedMonthsAreFinal` says what the
  code guarantees: while nobody is past the guard on a marked month, it stays as it
  is and no tab gets through to it; only a direct call of `execute_monthly_import`
  does. `PublishedWhole` excludes a month that was rewritten so (`contended`), and
  `LoadedMonthIsWhole`, `ArchiveMatchesProvenance` and `LedgerChain`, which such a
  rewrite breaks as well, are stated for one session.
- A page that Back, or the address, restores with some eight pages behind it has
  no Back button: `apply_route` drops a kept route of more than 8192 characters
  (`analytics_navigation.py:58`) without a word. The page itself is the one that was
  left (`BackRestoresThePage`).
- The cutover is stored before the first generation is built; when that run
  fails, months before it need no marker. The replace box of the wizard confirms
  whatever document is stored when the upload runs.
- `load_summaries` lists realized and forex keys one after the other, so that it
  raises for a month published in between (the reader's state `mismatch`); the
  page catches it and the next load succeeds.
- An assignment binds the first unassigned lots to its campaign, the delivery
  closes the oldest lots, which may be others.
- `import_pipeline.py:236`: the first pass replays, and may raise, before `run`
  reads the `historical_requirements` it has found; then no history is searched
  (compare `docs/notes/historical_completeness_and_boundary_resolution.md:7`).
- `seed_missing_option_lots` seeds toward the history also when the snapshot
  holds more; two EXP rows of one time give two lots one identifier;
  `_historical_option_opened_at` never returns a value; a second pass may ask
  for the month that it was given.
- A continuity plan without findings may be followed by a replay that raises:
  an assigned call whose own shares and the unassigned ones together are fewer
  than delivered. A single new campaign that is assigned binds unassigned opening
  shares, although FIFO delivers others. `ContinuityFollowsTheLots` therefore
  does not assert that the replay succeeds.
- The attributor enters closes of lots without a campaign under the closing
  order's campaign; `position_journal.py:4` says otherwise. `_has_trade_closure`
  skips the expiration of a contract that any trade of the month closed. The
  rehearsal's attributor does not reserve settlement trades. First-come matching
  can refuse a report that another assignment of activities to rows would serve.
  A report that names both roots of an alias is refused (`Mixed`).
- `apply_realized_basis` rounds every share but the last; several small shares
  rounded up leave the last one negative, which `LotAllocation` refuses, and with
  it the whole report (`RaisedBy`, "negative").
- `summarize_underlying_performance` and `repeated_campaign_performance` do not
  filter by closing date, so that adjacent-month records count there and not in
  the monthly totals; `EveryDollarIsShownOnce` states their agreement for files without any.
- The preflight may collect a candidate for a month after one with findings;
  only the flags over all twelve months keep it out of a rehearsal.
- `historical_backfill_draft_sync.py:258`: a SELECT fixes the serializable
  snapshot before LOCK TABLE waits. The plan and the backup may be one change
  old, against the comment at line 260; the unique index and the serialization
  failure still keep every row (`EditsSurvive`).

## Proofs

The theorems hold for any number of sessions, months, runs, tabs, roles,
documents, drafts, instruments, campaigns, attempts, candidates and writes,
under the named assumptions on the constants in the modules (they say that the
constants are of the expected kind, and that model values are not numbers). Steps
on which a prover is slow name it with its time (`SMTT`, `ZenonT`), so that the
proofs do not depend on how fast the machine is.

- `TypeCorrect` (`PublicationProofs`). `TypeOK` is not inductive: that a
  session stores a well-formed payload depends on its run being a recorded one
  of its month. `TypeInv` adds what each program point knows (`SessionInv`).
- `MarkedMonthsAreComplete` (`PublicationProofs`). `WrittenInv` says that a
  session in its write phase has stored every mandatory artifact before its
  position in `WriteOrder`; no step ever removes a mandatory artifact
  (`MandatoryKept`), so a marker set after the last of them finds all. It needs
  no exclusion between sessions.
- `UncontendedMonthsAreWhole` (`PublicationProofs`). `ExclusiveInv`: two
  sessions at work on one month have made it contended. `WritingInv`: while a
  session writes an uncontended month, the month has no marker and what was
  written so far is that run's payload. So the marker is set on one generation,
  and a later rewrite removes it first.
- `PublishedMonthsAreKept`, `SettledForGood` (`PublicationProofs`), for any number
  of wizard tabs and, the first, of direct calls. A session that is not past the
  guard on a month writes none of its keys (`FinalMonth`, action by action), and
  the guard lets no tab through to a marked month whose lot book exists, which
  `CompleteInv` says of every marked one. So where all calls come from the wizard, a
  month once settled stays so: the step from one state to the next carries the
  absence of sessions past the guard along with the payloads.
- `ArchivesMatchTheirProvenance`, `VisibleBooksAreALedger`, `LoadsAreWhole`
  (`PublicationProofs`), for any number of months and runs under `OneWizard`: one
  session, whose calls come through the wizard. With two sessions, or direct
  calls, each of the three properties fails.
  - `WizardInv`: behind the guard a session's month carries no marker
    (`MarkedBlocks`), so that every write, and the archive, goes to a month
    without one; past the archiving the archive is the session's own; and the
    cutover, once stored, stays.
  - `LedgerInv`: the opening state a session has taken is the book visible for the
    month before it until the run ends, no later month is visible, and its own
    is not until its lot book is written. So a step leaves all visible books
    alone or appends the session's (`BooksStep`), and no recorded opening is
    ever read differently (`OpeningsKept`): every step maps to `AppendMonth` of
    `LotLedger` or a stutter.
  - `ReaderInv`: for a month that the realized pass counted under the cutover it
    read, what the page holds of each kind is what is stored, at every point of
    the load where it has been read, and what is still to be read cannot be
    skipped. The month has its marker by then, so the one session
    keeps its payloads under the reader's feet (`PublishedKept`).
- `DraftsTypeCorrect`, `FinalizationCarriesStoredDocuments`,
  `AbandonedDraftsKept` (`DraftProofs`). `DraftInv` relates a tab to the draft
  it has open: as long as the draft still has the revision the tab recorded,
  every document the run has read so far is the draft's. It is inductive since
  revisions only grow and one revision never names two document sets
  (`DraftsGrow`).
- `TypeCorrect`, `IdsIdentify`, `RetiredIdsNotReused`, `OriginsKept`,
  `OldestClosedFirst` (`ReplayProofs`), for books and histories of any length.
  Every step of the replay is one of six kinds (`StepKinds`): it leaves the
  book alone, appends one lot, draws on one lot, moves lots (claim, reassignment
  or split), or abandons or carries a month. Each invariant is proved once per kind.
  - `TypeInv` adds to `TypeOK` what the loops rely on: only an assigned option
    has a second change, nothing is allocated between changes, a claim has a
    campaign, and a month never opens with lots filed under a currency pair.
  - `NumberInv`: in the working and the opening book identifiers are pairwise
    distinct, below the next number, and disjoint from the retired ones. The
    opening book is part of it, since a failed attempt starts from it again.
  - `OriginInv`: each lot with the identifier of an opening lot is its kin, and
    the opening book's next number never exceeds the working one's, so that no
    new lot takes an opening lot's identifier.
  - `FifoInv`: what a close has taken so far is no older than the oldest lot
    left. It rests on `AgeInv`: lists are sorted by opening date, no lot is
    younger than the clock, and lots filed under a pair are not older than those
    under its namesake, which is where a carried pair moves.
- `UnitsConserved`, `ForexCloses` (`ReplayProofs`), over books and months of any
  length. What a recursive function over sequences computes is usually shown by
  induction with a predicate as parameter, which the provers cannot
  instantiate. `TotalsProofs` does the induction on a set instead: the lengths
  at which a statement fails have a least one (`EveryNumber`). From it follow the
  lemmas that the totals of the code need: what appending, replacing, removing,
  joining and scaling does to a sum. For sums over sets of records the set is that
  of the subsets for which a statement holds (`EverySubset`).
  - `BalanceInv`: besides `PositionsAgree`, the lots of the opening book add up to
    the opening position, and between two items nothing is left to apply. While a
    change is under way `due` and `follow` are the difference between the trades
    and the lots, and every iteration takes from one what it gives the other.
  - `ForexInv`: unless historical positions seeded it, the resolver counts what
    is booked, and while it closes, the lots of the pair cover what is due. With
    `UnitsConserved` the loop cannot run out of lots. The carry of a month empties
    the pair and so starts the resolver from nothing as well, which is why the
    invariant survives although a carried pair is lost (`forex_carry`).
- `TransferTypeCorrect`, `WizardEditsSurvive`, `ImportsCanBeUndone`,
  `PublicationTypeCorrect`, `ForeignWritesAlwaysSurvive`,
  `ReversalIsRefusedOnlyForOthers`, `StagesAreRecorded` (`BackfillProofs`).
  - `TransferInv`: the rows an insertion adds were missing, and the rows a deletion removes are still the
    exported ones, until the commit, since the wizard is kept out by then.
  - `ReceiptInv`: files are only created, never replaced, so that an import that
    reached a program point has the backup and the receipt of that point
    (`BackedUp`, `Receipted`), and its drafts were not in its snapshot.
  - `PublicationInv`: `Known` says what the publisher knows of the rows: all of
    them between a check and its commit, where the tables are locked, and those
    nobody has overwritten between two transactions.
- `UndoRestores` (`BackfillProofs`), an action property: the commit of an undo
  puts the months back as the backup has them. `FileInv` says of every attempt's
  backup which exported drafts it left out, and that a receipt lists exactly
  those; `CommandInv` what the command under way has in its locals. The step
  compares three tables (the backup's, the one at the import, the one now)
  draft by draft: the receipt's drafts were absent and are removed, and all others
  were untouched by the import, and by the wizard too, as the property assumes.
- `DecisionsDescribeTheirBooks` (`DeliveryProofs`). `DeliveryInv` adds that
  `published` stays among the months: a publication stores the book whose
  mismatches were compared with the decision (`ExecutionKeepsDecisions`), and
  the snapshot of a month depends on the reports alone (`SnapshotKept`).
- `DeliveriesAreCountedOnce`, `NextStatementSuffices` (`DeliveryProofs`), for any
  number of assignments, months and days. `TransitInv`: what an exception names
  is, for each equity, the sum of deliveries in transit at that month's end. So
  the book before a month has, of a plain equity, the statement's shares or those
  and one delivery (`PriorBook`); the month's own events then apply every other
  delivery once. The proof corrected the model twice: `CalendarAssumption` says
  what a calendar is (months longer than the three days looked back, an open day
  each week), and `KnownCalendar` asks that a market day lies among the last
  three of a month: a verified holiday on the Friday before a month's last
  weekend hides a delivery from the reconciler.
- `PlannedYearIsAlwaysOneBook` (`BackfillProofs`), for a year of any number of
  months and any activities. `ChainIsExact`: as long as `identity_chain` stands,
  the carried book is, receipts included, the one that the documents make
  (`MonthIsExact`: a month that is carried on and breaks nothing was replayed
  with the carried identities). `ChainIsCollected`: as long as
  `all_2025_drafts_passed` stands, a command that collects has a candidate of
  every month so far (`MonthIsCollected`). Neither is true of the carried book or
  the candidates alone, both of which go on after a broken month.
- `ReturnsRestore` (`SessionProofs`), for any files, addresses, sequences of
  clicks, those on a page not drawn yet included, and any limit on the length of a way
  back. What the limit drops is the way back alone (`RouteApplied`, `PageOfBack`),
  so that the page is the one that was left, but for its Back button. A page is a function of the
  files and the route. Drawing is idempotent: a range, filters and campaign it has
  corrected are not corrected again (`RangeKept`, `FiltersKept`, `CampaignKept`,
  `DrawnAgain`). So the page drawn last is the page of the session and of the
  address under the files it was drawn from (`ScreenInv`), and each way back,
  which keeps one of the two, leads to its page under those files (`TrailInv`).
- `RowsAgree` (`SessionProofs`), for any published records. Cutting the history to
  the months of the page keeps the name of each row (`SameName`, since a collision
  is one within a month) and the records it names (`Sliced`); a row of the
  concentration groups its records by the month, for a campaign scoped to an
  import also by nothing else, and both groupings are one (`ScopedName`). Of
  `IsFile` it needs that a campaign which `scope_import_campaigns` named after an
  underlying holds lots of that one.
- `DollarsAreShownOnce` (`SessionProofs`), for any files, range and page. Every
  list of rows groups some records by a key, and the rows sum those records
  (`GainByRows`, from `SumGrouped` of `TotalsProofs`); it remains to say which
  records: all closes by month, the attributed ones by row, the concentrated ones
  by line, the reconciled ones of an underlying. The rest of each is what the
  page reports as unattributed or excluded (`GainJoined`). Rows are a set here,
  so that two of them must differ (`RowsAreDistinct`): the settlement rows are
  told apart by their pair, which no realized record has as its symbol.
- `DrawdownIsDeepest` (`SessionProofs`), for any history of closes. `CurveFits`
  says of the curve after some of the first days: its total is the gain of their
  closes; its high is zero or reached first on its day; no day fell deeper than
  its deepest fall, which has the first such day as trough and the first day at
  that high before it as peak; it has one point a day, in order. `CurveHolds` is
  the induction over the days, and from the result follow the minimum, the first
  days and the recovery that the property asks for. The closes between peak and
  trough are a difference of two running totals (`IntervalGain`).

- `AlwaysTyped` (`EvidenceProofs`), for any opening book, trades, events and
  report, with finitely many campaigns. `Typed` says of every book that its lots
  are whole and not zero, of every allocation that it is positive, of every close
  that its allocations add up to it, and of activities and records that they are
  made of such allocations. The three replays and the matching are recursive
  functions over lots, legs, changes, events and rows; each has a lemma about
  every prefix (`CloseRunSteps`, `ClaimRunSteps` and their like), by the upward
  induction of `TotalsProofs`.
- `ClosedUnitsUsedOnce` (`EvidenceProofs`). What the rows of a report take and
  what remains unused are cuts of the same activities. `CutFacts`: a cut takes
  from each allocation the units between two bounds (`Between`), so two cuts with
  a bound in common neither share nor lose a unit. Per closed lot the units
  attributed and the units unused then add up to those closed, through any number
  of rows and partial matches.
- `BasisIsDivided` (`EvidenceProofs`). A share is a difference of two rounded
  running totals, the last one the exact total, so that shares add up; each is
  then off its proportion by the two roundings at most (`SharesInProportion`).
- `JournalIsAReplay` (`EvidenceProofs`): the journal's replay, which takes a
  trade leg by leg where the import takes it whole, raises nothing and ends with
  the import's lots (`JournalReplaysTheImport`, "Replay must remain identical to
  the economic pipeline, including events", `position_journal.py:98`).
  `Retraced` says that the book of the journal is the import's replay of the items
  so far, and that the whole replay raised nothing.
- `PositionsAreExplained` (`EvidenceProofs`): the entries of a captured journal
  add up, from the carried positions, to what is left in every instrument, and
  under every campaign to its own lots if the instrument is `Accountable`
  (`JournalExplainsPositions`). The inductive part of `Explaining` is `Explained`:
  lots are numbered (names of their own, counted ones below the counter, or two
  lots under one name would pass for one), the entries add up to the lots, an
  accountable instrument's also owner by owner, and lots that a trade may close
  all have a campaign. A trade enters under the owners of what it consumes
  (`CloseOwned`); an event enters a difference of two books, lot by lot under the
  owner of each name: the lots it leaves are kin of those before it or new
  (`KinOrNew`), so a name has one owner and the differences, grouped by owner
  (`SumIsGrouped`), are the differences of the owners' positions (`GainsKept`).
  The ending book is the journal's by `Retraced`.
- `FlatSymbolsAreExplained` (`EvidenceProofs`): a symbol held at the start and
  gone at the end has an exit, an assignment or an expiration on record
  (`FlatSymbolsHaveAReason`), if no trade closes what it opens (`OneWay`):
  `position_exit.py:93` asks for lots from before the trade, and a day trade that
  closes the old position with its own is no exit, whatever becomes of the
  symbol. `evidence` has such a trade. The detection replays a trade under no
  campaign; what a leg does to the long and to the short lots of an instrument
  depends on their totals only (`LegSides`, `SidesDetermined`), so both replays
  leave the same totals (`TradeLevels`), and a trade that raised nothing asked no
  side for more than it had (`SupportedWhenDone`).
- `AttributionFollowsTheImport` (`EvidenceProofs`): where the period applier
  and the attributor are given the same history (`Alike`: no events of an
  earlier month, no trade that settles or closes what an event changes, but for
  the contracts of an assignment, no two campaigns at one instant), both end
  with the same lots (`ReplaysAgree`). The attributor goes by campaign, the
  applier by file; sorted by time both are one timeline (`ItemsAgree`, from
  `CampaignsInOrder`: within an instant the campaign's trades keep their order
  in the file). The attributor also moves what an event closes to the trade
  that settles it, by closures it plans first and uses up. `Kept` says that no
  trade has used up a closure that an event still needs whole, so that an event
  applies all its units (`UnitsWhole`). Then each item changes both books alike
  (`AttributedIsReplayed`, leg by leg and change by change), and `Following`
  carries it through the month: the attributor's book is the import's replay of
  the items so far. That needs the changes of an assignment to be those the
  translator builds (`Translated`, `translator.py:46`).

The type invariants of `MonthlyImportExecution`, `ImportDrafts`, `PeriodReplay`,
`DraftTransfer` and `RestoredPublication`, `RetiredIdsStayRetired`,
`JournalReplaysTheImport` and `Typed` are only proved, and no run repeats them.
The other modules state none: their comments and assumptions give the shape of
their variables.

Model-checked only:

- `PublishedMonthIsShown`: liveness is out of the provers' reach.
- `RebindingIsExact`, `ProvenanceKeepsPositions`, `SeedingStopsAtTheDemand`,
  `ContinuityFollowsTheLots`, `CoverIsNotUsedTwice`: they compare eight calls on
  the opening book, and the graph of a continuity plan, with a reference that
  enumerates subsets of lots or rests on `RECURSIVE` operators.
- `MatchableRecordsAreMatched` says that first come, first served loses nothing,
  which is an exchange argument over all divisions of the activities (Hall's
  condition), and `SharesLeaveOnce` relates a whole month of settlements to the
  book the attributor ends with.

`JournalExplainsPositions` is stated for opening books whose lots have
identifiers of their own (`Identified`, which the store saves with the counter,
`lot_book_store.py:31` and `:64`): `capture_position_journal` compares two books
lot by lot under their identifiers (`position_journal.py:85`). It names the
owners only of an `Accountable` instrument: an unowned lot that a trade closes
and an event opens again is the same position under another owner, and no entry
says so.

## Not modelled, and the plan

`PROJECT.json` gives the state of every component.

- `PeriodReplay` starts from a plain snapshot or a carried book; what history
  files add to it is `OpeningReconstruction`'s. `RunPipeline` of
  `MonthlyImportExecution` is one step with any outcome: the pipeline's modules
  are not composed with the write protocol, which never looks at their result.
- In `OpeningReconstruction` verticals and forex are left out, and in
  `CampaignContinuity` splits and the boundary diagnostics on a clone, which
  only report. `PeriodEvidence` leaves out splits, covered positions and
  corporate actions.
- Schwab's option expirations and the expired-option reconciler are modelled by
  the events they leave (`PeriodEvidence`, `CampaignContinuity`), not by their
  matching.
- In `DraftTransfer` a draft and its documents are one row, and `UploadDocument`
  is any change of a document; the upsert without effect by which the wizard
  resumes a draft, the dry run and the export change nothing and are left out.
- In `AssignmentDeliveries` Schwab's closing positions follow its postings, the
  brokers' days are external (an EXP row on the posting's day, the morning after,
  or the market day before), and the approving operator heeds the dashboard's
  warning: only what is in transit is approved as timing. Exercises, contracts
  that expire, other trades and the republication of a month are left out. `Plain`
  names the histories the properties exclude: unknown holidays, a delivery after
  its month's end, and several assignments of one equity around one month end. The
  first and the last of these break `EveryDeliveryCountedOnce` as well.
- In `BackfillPreparation` a book has two instruments and units of one, a month
  one trade or one assignment; what else a month's report may find (`Troubles`)
  comes from outside. The rehearsal's schemas, `pg_dump` and `pg_restore` are
  left out, and so are the analyses that only write a report of their own
  (ancestry, impact, basis provenance and consumption, continuity links,
  correction previews, production readiness).
- What a serializable transaction of PostgreSQL sees and refuses is modelled from
  its documentation, as external. Tables other than those of artifacts, drafts
  and documents are not in `RestoredPublication`. The publisher's docstring says
  that it "Always reverses the committed experiment"; when somebody wrote in
  between, or the answer to a COMMIT is lost, it does not, on purpose in the
  first case, and the model has both.
- Crypto months and the corroboration of forex statements are FIFO and matching
  over one document, with the same hazards as lots and reports at a smaller scale.
- Importers, input contracts, access and preferences are sequential parsing and
  display: unit tests reach them better than a model.

What would come next: the merge of the expired-option reconcilers beside the
deliveries, with the multiset of economic events as the abstract specification;
the crypto lots carried from month to month; and pending activity and the forex
control of the closing reconciliation.
