------------------------ MODULE OpeningReconstruction ------------------------
(***************************************************************************)
(* The opening lots of an imported month and the campaigns that own them   *)
(* (import_pipeline.py, domain/historical_lot_reconstructor.py,            *)
(* domain/boundary_reconstruction.py, domain/campaign_boundary_resolver.py,*)
(* domain/historical_evidence.py, domain/campaign_identity.py).            *)
(*                                                                         *)
(* One step is one call _run_once makes on the opening book, in its order. *)
(* run() makes a first pass without history and, when that pass asks for   *)
(* history and a file has it, a second one from the opening source again.  *)
(***************************************************************************)
EXTENDS CampaignTrades

CONSTANTS
  Inputs,       \* what the operator's files may say, see OpeningAssumption
  PeriodStart, MonthDays, SnapshotAt

\* The fields of an input: source, the opening book ([lots, nextId] and whether
\* it was carried from the month before); archive, the trades before the month
\* in a history file; period, the trades of the month; assigned, its option
\* assignments; pending, those of the next business day; expired, the stock
\* deliveries among the historical cash rows; root, whether history is looked
\* for on disk or given by hand.
ASSUME OpeningAssumption ==
  /\ PeriodStart \in Nat /\ MonthDays \in Nat \ {0} /\ SnapshotAt \in Nat
  /\ SnapshotAt < PeriodStart
  /\ \A in \in Inputs :
       /\ \A t \in in.archive : t.time < PeriodStart
       /\ \A t \in in.period : t.time >= PeriodStart
       /\ \A s, t \in in.archive \cup in.period : s.time = t.time => s = t
       /\ \A e \in in.assigned \cup in.pending :
            e.kind = "ASSIGNMENT" /\ e.time >= PeriodStart
       /\ \A e \in in.expired : e.time < PeriodStart

VARIABLES
  input,    \* what the operator's files say; never written
  parsed,   \* the trades of both files in order and their campaigns; never written
  pass,     \* 1 without history, 2 with it
  stage,    \* the next call of _run_once
  book,     \* opening_lot_book
  report    \* the boundary analysis: [asks, campaigns, positions]

vars == << input, parsed, pass, stage, book, report >>

CampaignId(scope, k) == [scope |-> scope, number |-> k]

InOrder(items) == SetToSortSeq(items, LAMBDA a, b : a.time < b.time)

Parsed(in) ==
  [history |-> InOrder(in.archive), ancestors |-> Reconstruct(InOrder(in.archive)),
   period |-> InOrder(in.period), current |-> Reconstruct(InOrder(in.period))]

History == parsed.history
Period == parsed.period
Ancestors == parsed.ancestors
Current == parsed.current

Month(time) == time \div MonthDays

Nothing == [asks |-> {}, campaigns |-> {}, positions |-> {}]

\* _build_opening_lot_book: an independent book from one source.
Opening(source) == [Book(source.lots) EXCEPT !.nextId = source.nextId]

Init ==
  /\ input \in Inputs /\ parsed = Parsed(input)
  /\ pass = IF input.root THEN 1 ELSE 2
  /\ stage = IF input.root THEN "scope" ELSE "advance"
  /\ book = Opening(input.source)
  /\ report = Nothing

-----------------------------------------------------------------------------
\* advance_snapshot_through_historical_trades.  "taken" is not used here.
Available(b, i, due) ==
  FoldSeq(LAMBDA lot, sum : IF Sign(lot.quantity) # Sign(due)
                            THEN Magnitude(lot.quantity) + sum ELSE sum,
          0, b.lots[i])

Anchored(b, trade) ==
  LET closes == SelectSeq(trade.legs, LAMBDA leg : leg.effect = "CLOSE")
  IN /\ closes # << >>
     /\ \A leg \in ToSet(closes) :
          Quantity(SelectSeq(closes, LAMBDA l : l.instrument = leg.instrument
                                                 /\ l.side = leg.side))
            <= Available(b, leg.instrument, Executed(leg))

Advanced(b) ==
  FoldLeft(LAMBDA r, trade : IF Anchored(r, trade)
                             THEN ApplyTrade(r, trade, NoCampaign) ELSE r,
           b, SelectSeq(History, LAMBDA trade : trade.time > SnapshotAt))

-----------------------------------------------------------------------------
\* seed_missing_option_lots.  What history leaves open of one contract, or
\* invalid when history closes more than it opens.
Survivors(o) ==
  FoldLeft(LAMBDA run, trade :
    FoldLeft(LAMBDA r, leg :
      IF r.invalid \/ leg.instrument # o THEN r
      ELSE IF leg.effect = "OPEN"
      THEN [r EXCEPT !.open = Append(r.open,
              BuildLot(LotId("TRADE", trade.time, o, 0), Executed(leg), trade.time, NoCampaign))]
      ELSE LET closed == CloseRun(r.open, Executed(leg), NoCampaign)
           IN [open |-> closed.open, invalid |-> closed.due # 0],
      run, trade.legs),
    [open |-> << >>, invalid |-> FALSE], History)

\* A short call whose shares left with an expiration row is not inventory.
AssignedAway(o, open) ==
  /\ o \in Calls
  /\ \E lot \in ToSet(open), e \in input.expired :
       /\ e.time > lot.opened
       /\ \E change \in ToSet(e.changes) :
            change.instrument = Underlying[o] /\ change.quantity < 0

Ranked(open) ==
  [k \in DOMAIN open |-> [open[k] EXCEPT !.id = [open[k].id EXCEPT !.rank = k]]]

MissingLots(b, o) ==
  LET found == Survivors(o)
      history == SumQuantities(found.open)
      missing == history - SumQuantities(b.lots[o])
      first == Min({ lot.opened : lot \in ToSet(found.open) })
  IN IF found.invalid \/ AssignedAway(o, found.open) \/ missing = 0 THEN << >>
     ELSE IF Magnitude(missing) < Magnitude(history)
     THEN << BuildLot(LotId("TRADE", first, o, 0), missing, first, NoCampaign) >>
     ELSE Ranked(found.open)

SeededOptions(b) ==
  [b EXCEPT !.lots = [i \in Instruments |->
                        IF i \in Options THEN b.lots[i] \o MissingLots(b, i)
                        ELSE b.lots[i]]]

-----------------------------------------------------------------------------
Long(ls) == SelectSeq(ls, LAMBDA lot : lot.quantity > 0)

\* assign_campaign raises when the lot it finds has one, reassign_campaign not.
Bind(b, i, lot, campaign) ==
  LET k == Min({ n \in DOMAIN b.lots[i] : b.lots[i][n].id = lot.id })
      free == b.lots[i][k].campaign = NoCampaign \/ lot.campaign # NoCampaign
  IN IF ~b.ok THEN b
     ELSE IF ~free THEN [b EXCEPT !.ok = FALSE]
     ELSE [b EXCEPT !.lots = [b.lots EXCEPT ![i] =
            ReplaceAt(b.lots[i], k, [b.lots[i][k] EXCEPT !.campaign = campaign])]]

BindAll(b, i, ls, campaign) ==
  FoldLeft(LAMBDA r, lot : Bind(r, i, lot, campaign), b, ls)

\* _historical_campaign_id_for_option: 0 stands for None.
Ancestor(o, quantity) ==
  LET matches == { k \in DOMAIN Ancestors : NetOf(Ancestors[k], o) = quantity }
  IN IF Cardinality(matches) = 1 THEN CHOOSE k \in matches : TRUE ELSE 0

\* The book holds exactly the short option that history leaves, at least as
\* many contracts as are closed now, and one campaign carried it.
Proven(b, o, contracts) ==
  LET short == NetOf(History, o)
  IN /\ short < 0 /\ -short >= contracts
     /\ SumQuantities(b.lots[o]) = short
     /\ Ancestor(o, short) # 0

\* assign_assignment_option_provenance; a lot that would have to be split ends
\* the whole call.
BoundOptions(b) ==
  LET changes == FlattenSeq([k \in DOMAIN InOrder(input.assigned \cup input.pending) |->
                               InOrder(input.assigned \cup input.pending)[k].changes])
      Step(r, change) ==
        LET o == change.instrument
            free == SelectSeq(r.book.lots[o], LAMBDA lot : lot.campaign = NoCampaign)
            total == SumQuantities(free)
            run == FoldLeft(LAMBDA s, lot :
                     IF s.halt \/ s.due <= 0 \/ lot.quantity >= 0 THEN s
                     ELSE IF -lot.quantity > s.due THEN [s EXCEPT !.halt = TRUE]
                     ELSE [book |-> Bind(s.book, o, lot, CampaignId("HIST", Ancestor(o, total))),
                           due |-> s.due + lot.quantity, halt |-> FALSE],
                     [book |-> r.book, due |-> change.quantity, halt |-> FALSE], free)
        IN IF r.halt \/ o \notin Options \/ change.quantity <= 0 THEN r
           ELSE IF total >= 0 \/ -total < change.quantity \/ Ancestor(o, total) = 0 THEN r
           ELSE [book |-> run.book, halt |-> run.halt]
  IN IF History = << >> THEN b
     ELSE FoldLeft(Step, [book |-> b, halt |-> FALSE], changes).book

\* seed_missing_expiration_lots; the identifier names the time of the row.
SeededExpirations(b) ==
  LET required(i) == ClosesOf(Period, i)
      Step(r, e) ==
        FoldLeft(LAMBDA s, change :
          LET i == change.instrument
              missing == required(i) - SumQuantities(Long(s.lots[i]))
          IN IF i \in Options \/ change.quantity <= 0 \/ required(i) = 0 \/ missing <= 0
             THEN s
             ELSE Seed(s, i, BuildLot(LotId("EXPIRATION", e.time, i, 0),
                                      Smaller(change.quantity, missing), e.time, NoCampaign)),
          r, e.changes)
  IN FoldLeft(Step, b, InOrder(input.expired))

-----------------------------------------------------------------------------
\* Mutation of SeedShares: shares already in the book are not counted.
SeedAllShares(b, s, wanted, k, fallback) ==
  Seed(b, s, BuildLot(LotId("COVERED", fallback, s, k), wanted, fallback, NoCampaign))

\* Shares seeded for a proven covered call.  "fallback" is the time taken when
\* the equity has no lot: _historical_option_opened_at never answers.
SeedShares(b, s, wanted, k, fallback) ==
  LET have == Long(b.lots[s])
      opened == IF have = << >> THEN fallback ELSE have[1].opened
      id == LotId("COVERED", opened, s, k)
  IN IF \E lot \in ToSet(b.lots[s]) : lot.id = id THEN b
     ELSE Seed(b, s, BuildLot(id, wanted - SumQuantities(have), opened, NoCampaign))

FirstClose(trades, i) ==
  Min({ t.time : t \in { u \in ToSet(trades) : ClosesOf(<< u >>, i) > 0 } })

\* seed_missing_covered_equity_lots
SeededCovered(b) ==
  LET Step(r, trades) ==
        FoldSet(LAMBDA o, q :
          LET s == Underlying[o]
              wanted == ClosesOf(trades, s)
          IN IF wanted > SumQuantities(Long(q.lots[s])) /\ Proven(q, o, ClosesOf(trades, o))
             THEN SeedShares(q, s, wanted, Ancestor(o, NetOf(History, o)),
                             FirstClose(trades, s))
             ELSE q,
          r, Closing(trades) \cap Options)
  IN FoldLeft(Step, b, Current)

\* What the trades that opened a short option bought of its shares.
CoveringShares(trades, o) ==
  LET opening == SelectSeq(trades, LAMBDA t : \E leg \in ToSet(t.legs) :
                   leg.instrument = o /\ leg.effect = "OPEN" /\ leg.side = "SELL")
      legs == SelectSeq(LegsOf(opening), LAMBDA leg :
                leg.instrument = Underlying[o] /\ leg.effect = "OPEN")
  IN FoldSeq(LAMBDA leg, sum : Executed(leg) + sum, 0, legs)

SoldCalls(trades, s) ==
  Quantity(SelectSeq(LegsOf(trades), LAMBDA leg :
    /\ leg.instrument \in Calls /\ Underlying[leg.instrument] = s
    /\ leg.effect = "OPEN" /\ leg.side = "SELL"))

\* assign_rolled_covered_equity_provenance: the shares follow the roll.
Rolled(b, trades, o) ==
  LET closed == ClosesOf(trades, o)
      s == Underlying[o]
      held == Long(b.lots[s])
      k == Ancestor(o, -closed)
  IN /\ NetOf(History, o) = -closed
     /\ SumQuantities(b.lots[o]) = -closed
     /\ SoldCalls(trades, s) = closed
     /\ held # << >> /\ SumQuantities(held) = closed * PerContract
     /\ k # 0 /\ CoveringShares(Ancestors[k], o) = closed * PerContract

BoundRolled(b) ==
  LET Step(r, n) ==
        FoldSet(LAMBDA o, q :
          LET s == Underlying[o]
          IN IF Rolled(q, Current[n], o)
             THEN BindAll(q, s, Long(q.lots[s]), CampaignId("MONTH", n)) ELSE q,
          r, Closing(Current[n]) \cap Calls)
  IN FoldLeft(Step, b, [n \in DOMAIN Current |-> n])

\* The option an assignment closes and the shares it takes for it.
Delivered(e, o) ==
  FoldSeq(LAMBDA change, sum :
            IF change.instrument = Underlying[o] /\ change.quantity < 0
            THEN sum - change.quantity ELSE sum, 0, e.changes)

ClosedOptions(e) ==
  SelectSeq(e.changes, LAMBDA change : change.instrument \in Options /\ change.quantity > 0)

\* assign_boundary_assignment_covered_equity_provenance
BoundBoundaryShares(b) ==
  LET Step(r, e) ==
        FoldLeft(LAMBDA q, change :
          LET o == change.instrument
              s == Underlying[o]
              held == Long(q.lots[s])
          IN IF /\ Delivered(e, o) > 0 /\ Proven(q, o, change.quantity)
                /\ \A lot \in ToSet(held) : lot.campaign = NoCampaign
                /\ SumQuantities(held) = Delivered(e, o)
             THEN BindAll(q, s, held, CampaignId("HIST", Ancestor(o, NetOf(History, o))))
             ELSE q,
          r, ClosedOptions(e))
  IN FoldLeft(Step, b, InOrder(input.pending))

\* seed_missing_assignment_covered_equity_lots
SeededAssignedShares(b) ==
  LET Step(r, e) ==
        FoldLeft(LAMBDA q, change :
          LET o == change.instrument
              s == Underlying[o]
              held == Long(q.lots[s])
              k == Ancestor(o, NetOf(History, o))
          IN IF Delivered(e, o) = 0 \/ ~Proven(q, o, change.quantity) THEN q
             ELSE IF SumQuantities(held) = Delivered(e, o)
             THEN BindAll(q, s, held, CampaignId("HIST", k))
             ELSE IF SumQuantities(held) > Delivered(e, o) THEN q
             ELSE SeedShares(q, s, Delivered(e, o), k, e.time),
          r, ClosedOptions(e))
  IN FoldLeft(Step, b, InOrder(input.assigned))

\* scope_legacy_opening_lots: a bare reconstruction number gets a name of its
\* own, so that it is not taken for a campaign of this month.
Scoped(b) ==
  [b EXCEPT !.lots = [i \in Instruments |->
     [k \in DOMAIN b.lots[i] |->
        IF b.lots[i][k].campaign # NoCampaign /\ b.lots[i][k].campaign.scope = "CAMP"
        THEN [b.lots[i][k] EXCEPT !.campaign.scope = "LEGACY"] ELSE b.lots[i][k]]]]

-----------------------------------------------------------------------------
\* required_opening_quantities: what closes beyond the campaign's own opens.
RequiredOpening(trades, i) ==
  FoldLeft(LAMBDA r, leg :
             IF leg.instrument # i THEN r
             ELSE IF leg.effect = "OPEN"
             THEN [r EXCEPT !.available = r.available + leg.quantity]
             ELSE LET covered == Smaller(r.available, leg.quantity)
                  IN [available |-> r.available - covered,
                      required |-> r.required + leg.quantity - covered],
           [available |-> 0, required |-> 0], LegsOf(trades)).required

Demand(trades) == { i \in Instruments : RequiredOpening(trades, i) > 0 }

TotalSize(ls) == FoldSeq(LAMBDA lot, sum : Magnitude(lot.quantity) + sum, 0, ls)

ExactSubsets(ls, q) ==
  { ks \in SUBSET (DOMAIN ls) \ {{}} :
      FoldSet(LAMBDA k, sum : Magnitude(ls[k].quantity) + sum, 0, ks) = q }

\* Mutation of LotChoices: any lots will do that are large enough together.
LooseChoices(ls, q, partial) == IF TotalSize(ls) < q THEN {} ELSE { DOMAIN ls }

\* The lots one required quantity takes before provenance is looked at: a set
\* of possible choices, none when the quantity cannot be met.
LotChoices(ls, q, partial) ==
  IF TotalSize(ls) < q THEN {}
  ELSE IF TotalSize(ls) = q THEN { DOMAIN ls }
  ELSE IF ~partial THEN {}
  ELSE IF ExactSubsets(ls, q) # {} THEN ExactSubsets(ls, q)
  ELSE IF Len(ls) = 1 THEN { {1} } ELSE {}

\* An ambiguous choice is settled by the campaigns of the lots already chosen.
Settled(choices, owners, ls) ==
  LET compatible == { ks \in choices : \A k \in ks : ls[k].campaign \in owners }
  IN IF Cardinality(compatible) = 1 THEN CHOOSE ks \in compatible : TRUE ELSE {}

\* candidate_assignments: for each required instrument the positions of its
\* lots, or the empty function.  One pass settles what it can, in order.
Candidates(b, trades, partial) ==
  LET demand == Demand(trades)
      choices == [i \in demand |-> LotChoices(b.lots[i], RequiredOpening(trades, i), partial)]
      certain == [i \in { j \in demand : Cardinality(choices[j]) = 1 } |->
                    CHOOSE ks \in choices[i] : TRUE]
      Owners(chosen) == UNION { { b.lots[i][k].campaign : k \in chosen[i] } :
                                  i \in DOMAIN chosen } \ {NoCampaign}
      Settle(chosen, i) ==
        LET ks == Settled(choices[i], Owners(chosen), b.lots[i])
        IN IF i \in DOMAIN chosen \/ ks = {} THEN chosen ELSE chosen @@ (i :> ks)
      Round(chosen) == FoldSet(LAMBDA i, c : Settle(c, i), chosen, demand)
      settled == FoldLeft(LAMBDA c, n : Round(c), certain, [n \in 1..Cardinality(demand) |-> n])
  IN IF demand # {} /\ DOMAIN settled = demand THEN settled ELSE << >>

\* Mutation of SplitAndBind: the remainder keeps the size of the whole lot.
SplitTwice(b, i, lot, quantity, campaign) ==
  [b EXCEPT !.lots = [b.lots EXCEPT ![i] = Append(
     [k \in DOMAIN b.lots[i] |-> IF b.lots[i][k].id = lot.id
        THEN [lot EXCEPT !.quantity = Sign(lot.quantity) * quantity, !.campaign = campaign]
        ELSE b.lots[i][k]],
     [lot EXCEPT !.id = NewId(b)])]]

\* split_and_assign_campaign and split_and_reassign_campaign: the part keeps
\* the identifier, the remainder the campaign the lot had.
SplitAndBind(b, i, lot, quantity, campaign) ==
  LET k == Min({ n \in DOMAIN b.lots[i] : b.lots[i][n].id = lot.id })
      found == b.lots[i][k]
      part == Sign(found.quantity) * quantity
      rest == [found EXCEPT !.id = NewId(b), !.quantity = found.quantity - part]
  IN IF ~b.ok THEN b
     ELSE IF \/ Magnitude(found.quantity) <= quantity
             \/ (found.campaign = NoCampaign) # (lot.campaign = NoCampaign)
     THEN [b EXCEPT !.ok = FALSE]
     ELSE [b EXCEPT !.nextId = b.nextId + 1,
                    !.lots = [b.lots EXCEPT ![i] = InsertAt(
                        ReplaceAt(b.lots[i], k, [found EXCEPT !.quantity = part,
                                                              !.campaign = campaign]),
                        k + 1, rest)]]

\* CampaignBoundaryResolver.resolve: candidates are a dict of lot identifiers,
\* so of two lots with one identifier the later one stands for both.
Resolved(b, trades, chosen, partial, campaign) ==
  LET Take(r, i, k) ==
        LET lot == b.lots[i][k]
            quantity == RequiredOpening(trades, i)
        IN IF \E n \in chosen[i] : n > k /\ b.lots[i][n].id = lot.id THEN r
           ELSE IF partial /\ Magnitude(lot.quantity) > quantity
           THEN SplitAndBind(r, i, lot, quantity, campaign)
           ELSE Bind(r, i, lot, campaign)
  IN FoldSet(LAMBDA i, r : FoldSet(LAMBDA k, q : Take(q, i, k), r, chosen[i]),
             b, DOMAIN chosen)

-----------------------------------------------------------------------------
\* The history the analyzer is given; the first pass has none.
Known == IF pass = 1 THEN << >> ELSE History

RequestMonth == Month(PeriodStart - 1)

\* The month before the first one the files cover.
EarlierMonth ==
  IF Known = << >> THEN RequestMonth ELSE Month(Head(Known).time - 1)

\* _campaign_ancestry_established: one instrument is enough.
Established(b, trades) ==
  \E i \in Demand(trades) :
    b.lots[i] # << >> /\ SumQuantities(b.lots[i]) = NetOf(Known, i)

\* BoundaryReconstructionAnalyzer.analyze of one campaign.
Analyzed(r, n) ==
  LET trades == Current[n]
      proven == Known # << >> /\ Established(r.book, trades)
      chosen == Candidates(r.book, trades, proven)
      Ask(month, positions) ==
        [r EXCEPT !.report = [asks |-> r.report.asks \cup {month},
                              campaigns |-> r.report.campaigns \cup {n},
                              positions |-> r.report.positions \cup positions]]
  IN IF ~r.book.ok \/ ~StartedBefore(trades) THEN r
     ELSE IF chosen = << >>
     THEN IF Closing(trades) = {} THEN r ELSE Ask(RequestMonth, Closing(trades))
     ELSE IF Known # << >> /\ ~proven THEN Ask(EarlierMonth, {})
     ELSE [r EXCEPT !.book = Resolved(r.book, trades, chosen, proven, CampaignId("MONTH", n))]

Analysis ==
  FoldLeft(Analyzed, [book |-> book, report |-> Nothing], [n \in DOMAIN Current |-> n])

\* resolve_boundary_campaign, for the campaigns that opened something first.
BoundaryLots(b, i) == SelectSeq(b.lots[i], LAMBDA lot : lot.campaign = NoCampaign)

BoundaryResolved(b, n) ==
  LET trades == Current[n]
      opens == \E leg \in ToSet(LegsOf(trades)) : leg.effect = "OPEN"
      exact == \A i \in Closing(trades) :
                 \/ BoundaryLots(b, i) = << >>
                 \/ TotalSize(BoundaryLots(b, i)) = ClosesOf(trades, i)
  IN IF StartedBefore(trades) \/ ~opens \/ ~exact THEN b
     ELSE FoldSet(LAMBDA i, r : BindAll(r, i, BoundaryLots(b, i), CampaignId("MONTH", n)),
                  b, Closing(trades))

-----------------------------------------------------------------------------
\* apply_with_lifecycle: the month on a clone of the opening book.  Of two
\* items at one time the trade was added first.
OwnCampaign(trade) ==
  CampaignId("MONTH", CHOOSE n \in DOMAIN Current : trade \in ToSet(Current[n]))

Times == { t.time : t \in input.period } \cup { e.time : e \in input.assigned }

Ending ==
  LET AtTime(b, now) ==
        LET traded == FoldLeft(LAMBDA r, t : ApplyTrade(r, t, OwnCampaign(t)), b,
                               SelectSeq(Period, LAMBDA t : t.time = now))
        IN FoldSet(LAMBDA e, r : ApplyEvent(r, e), traded,
                   { e \in input.assigned : e.time = now })
  IN FoldLeft(AtTime, book, SetToSortSeq(Times, LAMBDA a, b : a < b))

-----------------------------------------------------------------------------
\* A call of _run_once on the opening book; what it raises ends the pass.
Call(name, next, result) ==
  /\ stage = name
  /\ book' = result
  /\ stage' = IF result.ok THEN next ELSE "failed"
  /\ UNCHANGED << input, parsed, pass, report >>

Advance == Call("advance", "options",
                IF input.source.carried THEN book ELSE Advanced(book))
SeedOptions == Call("options", "assigned_options", SeededOptions(book))
BindAssignedOptions == Call("assigned_options", "expirations", BoundOptions(book))
SeedExpirations == Call("expirations", "covered", SeededExpirations(book))
SeedCovered == Call("covered", "rolled", SeededCovered(book))
BindRolledShares == Call("rolled", "boundary_shares", BoundRolled(book))
BindBoundaryShares == Call("boundary_shares", "assigned_shares", BoundBoundaryShares(book))
SeedAssignedShares == Call("assigned_shares", "scope", SeededAssignedShares(book))
ScopeLegacy == Call("scope", "analyze", Scoped(book))

Analyze ==
  /\ stage = "analyze"
  /\ \E result \in {Analysis} :
       /\ book' = result.book
       /\ report' = result.report
       /\ stage' = IF result.book.ok THEN "resolve" ELSE "failed"
  /\ UNCHANGED << input, parsed, pass >>

ResolveBoundaries ==
  Call("resolve", "replay",
       FoldLeft(BoundaryResolved, book, [n \in DOMAIN Current |-> n]))

\* find_month: a file whose first and last trades enclose the month.
Found(month) ==
  /\ input.archive # {}
  /\ Month(Head(History).time) <= month /\ month <= Month(Last(History).time)

\* The end of a pass.  The opening book stays as it was before the replay.
Replay ==
  /\ stage = "replay"
  /\ IF ~Ending.ok
     THEN stage' = "failed" /\ UNCHANGED << pass, book >>
     ELSE IF pass = 1 /\ \E month \in report.asks : Found(month)
     THEN stage' = "advance" /\ pass' = 2 /\ book' = Opening(input.source)
     ELSE stage' = "done" /\ UNCHANGED << pass, book >>
  /\ UNCHANGED << input, parsed, report >>

Finished == stage \in {"done", "failed"} /\ UNCHANGED vars

Next ==
  \/ Advance \/ SeedOptions \/ BindAssignedOptions \/ SeedExpirations
  \/ SeedCovered \/ BindRolledShares \/ BindBoundaryShares \/ SeedAssignedShares
  \/ ScopeLegacy \/ Analyze \/ ResolveBoundaries \/ Replay \/ Finished

Spec == Init /\ [][Next]_vars

-----------------------------------------------------------------------------
Seeding == {"advance", "options", "expirations", "covered", "assigned_shares"}
Binding == {"assigned_options", "rolled", "boundary_shares", "scope", "analyze", "resolve"}

DistinctIds(ls) == \A j, k \in DOMAIN ls : ls[j].id = ls[k].id => j = k

SamePositions(b, c) ==
  \A i \in Instruments : SumQuantities(b.lots[i]) = SumQuantities(c.lots[i])

\* Binding lots to campaigns, with the splits it may take, never changes a
\* position; only seeding and the snapshot's advance do.
ProvenanceKeepsPositions ==
  [][(stage \in Binding) /\ stage' # "failed" => SamePositions(book, book')]_vars

ShareDemand(i) ==
  Max({ ClosesOf(Period, i) } \cup
      { Delivered(e, o) : e \in input.assigned, o \in { p \in Options : Underlying[p] = i } })

SeededToDemand(b, c) ==
  \A i \in Equities : c.lots[i] = b.lots[i] \/ SumQuantities(Long(c.lots[i])) <= ShareDemand(i)

\* Three calls seed shares, each from its own evidence and each from what the
\* book holds by then: together they never hold more than one of the month's
\* demands for them.
SeedingStopsAtTheDemand ==
  [][(stage \in Seeding \ {"advance"}) => SeededToDemand(book, book')]_vars

Owned(ls, n) == SelectSeq(ls, LAMBDA lot : lot.campaign = CampaignId("MONTH", n))

\* After a whole run, a campaign that was open before the month owns exactly
\* the opening quantity its closes need, in every instrument, or is reported.
\* Two lots with one identifier cannot be told apart and are left out.
RebindingIsExact ==
  stage = "done" =>
    \A n \in DOMAIN Current \ report.campaigns :
      StartedBefore(Current[n]) =>
        \A i \in Demand(Current[n]) :
          DistinctIds(book.lots[i]) =>
            TotalSize(Owned(book.lots[i], n)) = RequiredOpening(Current[n], i)

=============================================================================
