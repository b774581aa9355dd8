------------------------ MODULE BackfillPreparation ------------------------
(***************************************************************************)
(* How candidates for the unpublished year come about, offline, from a     *)
(* frozen capture of the workspace (historical_backfill_preflight.py).     *)
(* Every month's draft is replayed twice: on the opening inventory of its  *)
(* own documents, and on the book that the month before left.  What either *)
(* replay finds blocks; the year must join the first published month of    *)
(* the next one; and a rehearsal comes before a package.                   *)
(*                                                                         *)
(* A book is a sequence of units, oldest first, of two instruments.  A     *)
(* month has one trade or one assignment, and its campaign, if it starts   *)
(* one, is named by the month.  That a call may join the campaign of the   *)
(* shares that cover it is CampaignContinuity's; the rehearsal's own       *)
(* schemas are left out.                                                   *)
(***************************************************************************)
EXTENDS Naturals, Sequences, FiniteSets

CONSTANTS
  LastMonth,    \* months of the year are 1..LastMonth
  Activities,   \* [by, takes: units of "from", opens: units of "into"]
  Inventories   \* the counts per instrument that a snapshot may list

Kinds == {"option", "shares"}

ASSUME PreparationAssumption ==
  /\ LastMonth \in Nat \ {0}
  /\ \A does \in Activities :
       /\ does.by \in {"trade", "assignment"} /\ {does.from, does.into} \subseteq Kinds
       /\ does.by = "assignment" => does.takes = 1 /\ does.opens = 1
  /\ Inventories \subseteq [Kinds -> Nat]

VARIABLES
  run,       \* the command that runs, where it is and its chain of months
  exact,     \* history: the book that the year's documents make, or Lost
  rehearsed, \* a rehearsal has left its report
  packaged   \* a publication package is complete

preparationVars == << run, exact, rehearsed, packaged >>

Unknown == 0   \* the campaign of a unit without one
Lost == [is |-> "lost"]
NoBook == [is |-> "none"]
Book(units) == [is |-> "book", units |-> units]

\* Findings of a month's own: a failed monetary control or incomplete evidence,
\* a provenance replay that raises, a payload that cannot be prepared.
Troubles == {"none", "control", "untraced", "unprepared"}

NoRun == [step |-> "idle"]

\* The runner with or without continuity, and the two commands that collect.
Commands == {"quantities", "continuity", "rehearsal", "package"}

PreparationInit == run = NoRun /\ exact = Lost /\ rehearsed = FALSE /\ packaged = FALSE

-----------------------------------------------------------------------------
\* quantities(book)
Counts(units) == [k \in Kinds |-> Cardinality({ i \in DOMAIN units : units[i].of = k })]

\* A snapshot's lots: no campaign, and a receipt in January only.
Balance(counts, origin) ==
  LET Lots(k) == [i \in 1..counts[k] |-> [of |-> k, owner |-> Unknown, origin |-> origin]]
  IN Lots("option") \o Lots("shares")

\* The units that the month's activity closes, oldest first.
Closed(units, does) ==
  { i \in DOMAIN units :
      units[i].of = does.from
      /\ Cardinality({ j \in 1..i : units[j].of = does.from }) <= does.takes }

Supported(units, does) == Counts(units)[does.from] >= does.takes

ClosedOwners(units, does) == { units[i].owner : i \in Closed(units, does) } \ {Unknown}

\* An unknown lot that a retained receipt traces to the first opening snapshot.
Documented(unit) == unit.origin \in {"balance", "delivered"}

\* The origin in the receipt of a unit that the activity opens.
OriginAfter(units, does) ==
  IF does.by = "assignment" /\ \A i \in Closed(units, does) : units[i].origin = "balance"
  THEN "delivered" ELSE "observed"

Replay(units, does, owner) ==
  LET taken == Closed(units, does)
      kept == SelectSeq([i \in DOMAIN units |-> i], LAMBDA i : i \notin taken)
      new == [of |-> does.into, owner |-> owner, origin |-> OriginAfter(units, does)]
  IN [i \in DOMAIN kept |-> units[kept[i]]] \o [i \in 1..does.opens |-> new]

(***************************************************************************)
(* The replay that preserves identities: what a trade opens belongs to the *)
(* one campaign of what it closes, and unknown lots are closed only beside *)
(* it and if they are documented.                                          *)
(***************************************************************************)
IdentityBlocked(units, does) ==
  LET unknown == { i \in Closed(units, does) : units[i].owner = Unknown }
      owners == ClosedOwners(units, does)
  IN \/ Cardinality(owners) > 1
     \/ /\ unknown # {}
        /\ \/ does.by = "assignment" \/ Cardinality(owners) # 1
           \/ \E i \in unknown : ~Documented(units[i])

IdentityReplay(units, does, month) ==
  LET owners == ClosedOwners(units, does)
  IN [opening |-> units,
      closing |-> Replay(units, does, IF owners = {} THEN month ELSE CHOOSE c \in owners : TRUE)]

(***************************************************************************)
(* The replay of any other month: its trade is a campaign of its own, to   *)
(* which the unknown lots it closes are bound at the opening; an assigned  *)
(* option hands its campaign on.                                           *)
(***************************************************************************)
MonthlyReplay(units, does, month) ==
  LET trade == does.by = "trade"
      bound == [i \in DOMAIN units |->
                  IF trade /\ i \in Closed(units, does) /\ units[i].owner = Unknown
                  THEN [units[i] EXCEPT !.owner = month] ELSE units[i]]
      owner == IF trade THEN month ELSE bound[CHOOSE i \in Closed(bound, does) : TRUE].owner
  IN [opening |-> bound, closing |-> Replay(bound, does, owner)]

-----------------------------------------------------------------------------
Continuity == run.command # "quantities"
Collects == run.command \in {"rehearsal", "package"}

Month == run.month

\* No draft, inputs that are not ready, a replay that raises, bytes that change.
AfterGap ==
  [step |-> "months", command |-> run.command, month |-> Month + 1,
   carried |-> NoBook, connected |-> FALSE, passed |-> FALSE, collected |-> run.collected]

Independent(opening, does) == MonthlyReplay(Balance(opening, "balance"), does, Month)

\* The strict replay, or the one that its failure falls back to.
Falls(does) == Continuity /\ IdentityBlocked(run.carried.units, does)

Continuous(opening, does) ==
  IF Month = 1 THEN Independent(opening, does)
  ELSE IF Continuity /\ ~Falls(does) THEN IdentityReplay(run.carried.units, does, Month)
  ELSE MonthlyReplay(run.carried.units, does, Month)

\* The replay starts from lots other than those the month before left.
Rebound(continuous) == Month # 1 /\ continuous.opening # run.carried.units

\* Findings that also take the month out of the chain of identities.  The mutation
\* keeps a fallback that changes no opening lot in it.
BreaksUnlessFallback(opening, does, closing, trouble) ==
  LET independent == Independent(opening, does)
      continuous == Continuous(opening, does)
  IN \/ Month # 1 /\ Counts(run.carried.units) # opening
     \/ Rebound(continuous)
     \/ trouble = "untraced"
     \/ Counts(continuous.closing) # Counts(independent.closing)
     \/ Counts(independent.closing) # closing \/ Counts(continuous.closing) # closing

Breaks(opening, does, closing, trouble) ==
  \/ BreaksUnlessFallback(opening, does, closing, trouble)
  \/ Month # 1 /\ Falls(does)

\* A month is carried on if the quantities agree, whatever else was found.
Carries(opening, does, closing) ==
  /\ Month # 1 => Counts(run.carried.units) = opening
  /\ Counts(Independent(opening, does).closing) = closing
  /\ Counts(Continuous(opening, does).closing) = closing

\* Receipts are lost with the trace; later ones name a later snapshot.
WithReceipts(units, traced) ==
  IF traced THEN units ELSE [i \in DOMAIN units |-> [units[i] EXCEPT !.origin = "undated"]]

\* The payloads of a month without findings, unless their own checks refuse them.
Candidate(carries, breaks, trouble) == Collects /\ carries /\ ~breaks /\ trouble = "none"

AfterMonth(opening, does, closing, trouble) ==
  LET carries == Carries(opening, does, closing)
      breaks == Breaks(opening, does, closing, trouble)
      clean == ~breaks /\ trouble \in (IF Collects THEN {"none"} ELSE {"none", "unprepared"})
  IN [step |-> "months", command |-> run.command, month |-> Month + 1,
      carried |-> IF carries
                  THEN Book(WithReceipts(Continuous(opening, does).closing, trouble # "untraced"))
                  ELSE NoBook,
      connected |-> run.connected /\ ~breaks /\ carries,
      passed |-> run.passed /\ clean /\ carries,
      collected |-> IF Candidate(carries, breaks, trouble) THEN run.collected \cup {Month} ELSE run.collected]

\* The book that the documents of the months so far make, if they make one.
ExactAfter(opening, does, closing) ==
  LET units == IF Month = 1 THEN Balance(opening, "balance") ELSE exact.units
      after == IF Month = 1 THEN MonthlyReplay(units, does, Month).closing
               ELSE IdentityReplay(units, does, Month).closing
  IN IF (Month # 1 => exact # Lost /\ Counts(exact.units) = opening /\ ~IdentityBlocked(exact.units, does))
        /\ Counts(after) = closing
     THEN Book(after) ELSE Lost

-----------------------------------------------------------------------------
Reviewing == run.step = "months" /\ Month <= LastMonth

StartRun ==
  /\ run = NoRun
  /\ \E command \in Commands :
       /\ command = "package" => rehearsed
       /\ run' = [step |-> "months", command |-> command, month |-> 1, carried |-> NoBook,
                  connected |-> TRUE, passed |-> TRUE, collected |-> {}]
  /\ exact' = Lost
  /\ UNCHANGED << rehearsed, packaged >>

\* A month without a usable draft, also each one after it.
MissMonth ==
  /\ Reviewing
  /\ run' = AfterGap /\ exact' = Lost
  /\ UNCHANGED << rehearsed, packaged >>

ReplayMonth ==
  /\ Reviewing
  /\ Month # 1 => run.carried # NoBook
  /\ \E opening \in Inventories, does \in Activities, closing \in Inventories, trouble \in Troubles :
       /\ Supported(Balance(opening, "balance"), does)
       /\ Month # 1 => Supported(run.carried.units, does)
       /\ run' = AfterMonth(opening, does, closing, trouble)
       /\ exact' = ExactAfter(opening, does, closing)
  /\ UNCHANGED << rehearsed, packaged >>

Verified == Continuity /\ run.connected /\ run.carried # NoBook

\* complete_candidate_inventory_match of one boundary
Matches(prior, opening) == prior = opening

(***************************************************************************)
(* The published months after the year: the first one's opening must hold  *)
(* what the last draft left, each other one what its predecessor published *)
(* whatever was found before, and the first one's documents must name the  *)
(* last draft's snapshot.                                                  *)
(***************************************************************************)
Joins(later) ==
  /\ later.retained
  /\ Matches(Counts(run.carried.units), later.opening)
  /\ Matches(later.closing, later.following)

Plannable(later) == run.passed /\ Verified /\ Joins(later)

\* Every month has its candidates.
Complete == run.collected = 1..LastMonth

Report ==
  /\ run.step = "months" /\ Month > LastMonth
  /\ \E later \in [retained : BOOLEAN, opening : Inventories, closing : Inventories, following : Inventories] :
       run' = IF Plannable(later)
              THEN [step |-> "planned", command |-> run.command, carried |-> run.carried,
                    collected |-> run.collected, published |-> later.opening]
              ELSE NoRun
  /\ UNCHANGED << exact, rehearsed, packaged >>

\* The candidates were tried in schemas of their own, and these restored.
Rehearse ==
  /\ run.step = "planned" /\ run.command = "rehearsal" /\ Complete
  /\ rehearsed' = TRUE /\ run' = NoRun
  /\ UNCHANGED << exact, packaged >>

\* The same capture gave the same candidates again.
Package ==
  /\ run.step = "planned" /\ run.command = "package" /\ rehearsed /\ Complete
  /\ packaged' = TRUE /\ run' = NoRun
  /\ UNCHANGED << exact, rehearsed >>

\* A report alone, a rehearsal that fails, candidates that differ, a death.
EndRun ==
  /\ run # NoRun /\ run' = NoRun
  /\ UNCHANGED << exact, rehearsed, packaged >>

PreparationNext ==
  StartRun \/ MissMonth \/ ReplayMonth \/ Report \/ Rehearse \/ Package \/ EndRun

PreparationSpec == PreparationInit /\ [][PreparationNext]_preparationVars

-----------------------------------------------------------------------------
Owned(units) == [i \in DOMAIN units |-> << units[i].of, units[i].owner >>]

(***************************************************************************)
(* A plan for the boundary is prepared only for a year whose documents     *)
(* make one book from its opening to the first published month, with the   *)
(* campaign of every unit kept over rolls and assignments, and a command   *)
(* that collects then has every month: no fallback, gap, rebound lot or    *)
(* lost receipt on the way is forgotten ("A labeled legacy fallback ...    *)
(* never restores a broken identity chain",                                *)
(* historical_backfill_preflight.py:408).                                  *)
(***************************************************************************)
PlannedYearIsOneBook ==
  run.step = "planned" =>
    /\ exact # Lost /\ Owned(run.carried.units) = Owned(exact.units)
    /\ Counts(exact.units) = run.published
    /\ Collects => run.collected = 1..LastMonth
=============================================================================
