--------------------------- MODULE PeriodEvidence ---------------------------
(***************************************************************************)
(* What an import derives from one month's history, each by a replay of    *)
(* its own on a clone of the opening lots: the ending book and lifecycle   *)
(* transitions (domain/lot_book_period_applier.py, option_roll.py,         *)
(* position_exit.py), the attribution of the broker's realized records     *)
(* (domain/realized_lot_attributor.py, analytics/                          *)
(* period_realized_attributions.py), and the position journal              *)
(* (persistence/position_journal.py).  The backfill rehearsal has an       *)
(* attributor of its own (historical_backfill_realized_replay.py).         *)
(*                                                                         *)
(* One step is one iteration of a loop.  Time is counted in ticks, Ticks   *)
(* to a day, so that items of one day are ordered and may also coincide;   *)
(* day 0 is a Monday.  Splits are left out.                                *)
(***************************************************************************)
EXTENDS CampaignTrades, Timelines

CONSTANTS
  Inputs,       \* what the month's files may say, see EvidenceAssumption
  Records,      \* rows a realized report may have
  MaxRecords,   \* bound: rows of one report
  Ticks,
  Holidays,     \* weekdays the market is closed
  BankHolidays  \* weekdays that only defer settlement

\* The records of an input.
LegRecords == [instrument : Instruments, effect : {"OPEN", "CLOSE"}, side : {"BUY", "SELL"},
               quantity : Nat \ {0}, price : Nat]
TradeRecords == [time : Nat, legs : Seq(LegRecords)]
ChangeRecords == [instrument : Instruments, quantity : Int]
EventRecords == [time : Nat, kind : {"ASSIGNMENT", "EXPIRATION"}, changes : Seq(ChangeRecords)]

Owners == Campaigns \cup {NoCampaign}

OpenLots == [id : LotNames, quantity : Int \ {0}, opened : Nat, campaign : Owners]

MonthCampaign(k) == [scope |-> "MONTH", number |-> k]

\* to_position_event: an assignment closes contracts and moves their shares; if
\* those came the month before, carry_assignment_deliveries leaves them out.
Translated(changes) ==
  /\ changes # << >> /\ changes[1].instrument \in Options
  /\ LET o == changes[1].instrument
         q == changes[1].quantity
     IN changes \in { << changes[1] >>,
                      << changes[1], [instrument |-> Underlying[o], quantity |->
                                        (IF o \in Calls THEN -q ELSE q) * PerContract] >> }

\* The fields of an input: lots and nextId, the resolved opening book; trades,
\* in the order of the file; events, as applied; boundary, assignments of the
\* next business day that only the attribution gets; alias, reviewed contract
\* mappings; variant, which attributor runs.
ASSUME EvidenceAssumption ==
  /\ Ticks \in Nat \ {0} /\ MaxRecords \in Nat
  /\ Holidays \subseteq Nat /\ BankHolidays \subseteq Nat
  /\ IsFiniteSet(Campaigns)
  /\ \A in \in Inputs :
       /\ in.variant \in {"month", "rehearsal"}
       /\ DOMAIN in.alias \subseteq Options
       /\ in.lots \in [Instruments -> Seq(OpenLots)] /\ in.nextId \in Nat
       /\ in.trades \in Seq(TradeRecords)
       /\ in.events \in Seq(EventRecords) /\ in.boundary \in Seq(EventRecords)
       /\ \A k \in DOMAIN in.trades : k > 1 => in.trades[k - 1].time <= in.trades[k].time
       /\ Cardinality(ToSet(in.trades)) = Len(in.trades)
       /\ \A e \in ToSet(in.events \o in.boundary) : e.kind = "ASSIGNMENT" => Translated(e.changes)
       /\ Cardinality(ToSet(in.events \o in.boundary)) = Len(in.events) + Len(in.boundary)
       /\ \A e \in ToSet(in.boundary) : e.kind = "ASSIGNMENT"
       /\ \A k \in DOMAIN in.trades : MonthCampaign(k) \in Campaigns
  /\ \A r \in Records : r.quantity \in Nat \ {0} /\ r.basis \in Int

VARIABLES
  input,        \* what the month's files say; never written
  stage,        \* the loop under way
  at,           \* its next item
  book,         \* the working book of the replay
  ending,       \* ending_lot_book
  transitions,  \* lifecycle_transitions
  planned,      \* planned_closures of the attributor
  closures,     \* assignment_closures of the attributor
  activities,   \* closing activities in the order they were found
  unused,       \* what the records have left of them
  results,      \* RealizedAttributions
  journal,      \* quantity_change summed by instrument and campaign
  refusal       \* why the import raised

attribution == << planned, closures, activities, unused, results >>
vars == << input, stage, at, book, ending, transitions, attribution, journal, refusal >>

MonthCampaigns == Reconstruct(input.trades)

\* campaign_ids: the campaign of a trade object.
CampaignOf(trade) ==
  MonthCampaign(CHOOSE k \in DOMAIN MonthCampaigns : trade \in ToSet(MonthCampaigns[k]))

Fresh == [lots |-> input.lots, nextId |-> input.nextId, ok |-> TRUE, taken |-> << >>]

IsTrade(item) == "legs" \in DOMAIN item

\* Mutation of PositionItems: an event comes before the trades of its instant.
EventsFirst == Timeline(input.events, input.trades)

\* PositionHistory.items
PositionItems == Timeline(input.trades, input.events)

AttributedEvents == input.events \o input.boundary

\* The attributor's timeline: trades campaign by campaign where they coincide.
AttributedItems == Timeline(FlattenSeq(MonthCampaigns), AttributedEvents)

Day(time) == time \div Ticks

-----------------------------------------------------------------------------
\* _is_us_market_holiday, and _next_business_day of the two attributors.
IsHoliday(day) == day \in Holidays

Deferred == Holidays \cup (IF input.variant = "rehearsal" THEN BankHolidays ELSE {})

NextBusinessDay(day) ==
  Min({ d \in day + 1 .. day + 7 + Cardinality(Deferred) : d % 7 < 5 /\ d \notin Deferred })

\* _is_assignment_settlement_date
SettlesOn(closure, day) ==
  \/ closure.day <= day /\ day <= NextBusinessDay(closure.day)
  \/ closure.moves /\ day < closure.day /\ NextBusinessDay(day) = closure.day

\* _assignment_closures
ClosuresOf(events) ==
  FlattenSeq([n \in DOMAIN events |-> FlattenSeq([k \in DOMAIN events[n].changes |->
    LET e == events[n]
        option == e.changes[k].instrument
    IN IF e.kind # "ASSIGNMENT" \/ option \notin Options THEN << >>
       ELSE << [event |-> n, underlying |-> Underlying[option], strike |-> Strike[option],
                day |-> Day(e.time),
                remaining |-> Magnitude(e.changes[k].quantity) * PerContract,
                moves |-> \E c \in ToSet(e.changes) :
                            c.instrument = Underlying[option] /\ c.quantity # 0] >>])])

\* The closures a closing leg can settle.
Settled(leg, day, pending) ==
  { k \in DOMAIN pending :
      /\ pending[k].underlying = leg.instrument /\ leg.effect = "CLOSE"
      /\ SettlesOn(pending[k], day)
      /\ pending[k].remaining > 0 /\ pending[k].strike = leg.price }

LatestSettled(leg, day, pending) ==
  LET found == Settled(leg, day, pending)
  IN Min({ k \in found : \A j \in found : pending[j].day <= pending[k].day })

\* _economic_closed_date: the day, and what the leg leaves of the closures.
ClosedDay(leg, day, pending) ==
  IF Settled(leg, day, pending) # {} THEN pending[LatestSettled(leg, day, pending)].day
  ELSE IF leg.instrument \in Options THEN NextBusinessDay(day) ELSE day

\* Mutation of AfterLeg: a settlement takes nothing from what is to deliver.
Unreserved(leg, day, pending) == pending

AfterLeg(leg, day, pending) ==
  IF Settled(leg, day, pending) = {} THEN pending
  ELSE LET k == LatestSettled(leg, day, pending)
       IN [pending EXCEPT ![k].remaining =
             pending[k].remaining - Smaller(leg.quantity, pending[k].remaining)]

\* The settlement trades of the month reserve their quantities beforehand.
Reserved(pending, trade) ==
  LET left[k \in 0..Len(trade.legs)] ==
        IF k = 0 THEN pending ELSE AfterLeg(trade.legs[k], Day(trade.time), left[k - 1])
  IN left[Len(trade.legs)]

Planned ==
  LET sorted == Timeline(FlattenSeq(MonthCampaigns), << >>)
      left[k \in 0..Len(sorted)] ==
        IF k = 0 THEN ClosuresOf(AttributedEvents) ELSE Reserved(left[k - 1], sorted[k])
  IN left[Len(sorted)]

-----------------------------------------------------------------------------
\* detect_option_rolls
Direction(leg) == (leg.effect = "OPEN") = (leg.side = "BUY")

RollPairs(trade) ==
  { pair \in (DOMAIN trade.legs) \X (DOMAIN trade.legs) :
      LET closed == trade.legs[pair[1]]
          opened == trade.legs[pair[2]]
      IN /\ closed.instrument \in Options /\ closed.effect = "CLOSE"
         /\ opened.instrument \in Options /\ opened.effect = "OPEN"
         /\ Underlying[closed.instrument] = Underlying[opened.instrument]
         /\ (closed.instrument \in Calls) = (opened.instrument \in Calls)
         /\ Direction(closed) = Direction(opened)
         /\ closed.quantity = opened.quantity
         /\ closed.instrument # opened.instrument }

Rolls(trade) ==
  { pair \in RollPairs(trade) : \A other \in RollPairs(trade) :
      (other[1] = pair[1] \/ other[2] = pair[2]) => other = pair }

\* detect_position_exit
Exposed(b, symbol) ==
  { i \in Instruments : SymbolOf(i) = symbol /\ SumQuantities(b.lots[i]) # 0 }

\* Mutation of Closable: only the oldest lot counts.
ClosableAtOnce(b, i, side) ==
  LET sign == IF side = "SELL" THEN 1 ELSE -1
      open == SelectSeq(b.lots[i], LAMBDA lot : Sign(lot.quantity) = sign)
  IN IF open = << >> THEN 0 ELSE Magnitude(open[1].quantity)

Closable(b, i, side) ==
  LET sign == IF side = "SELL" THEN 1 ELSE -1
      lots == b.lots[i]
  IN Magnitude(Total([k \in DOMAIN lots |->
                        IF Sign(lots[k].quantity) = sign THEN lots[k].quantity ELSE 0]))

\* What all closing legs of an instrument and a side ask for together.
Demanded(trade, i, side) ==
  Total([k \in DOMAIN trade.legs |->
           IF /\ trade.legs[k].effect = "CLOSE"
              /\ trade.legs[k].instrument = i /\ trade.legs[k].side = side
           THEN trade.legs[k].quantity ELSE 0])

\* _trade_is_supported_by_opening_state
Supported(b, trade) ==
  \A leg \in ToSet(trade.legs) :
    leg.effect = "CLOSE" =>
      Demanded(trade, leg.instrument, leg.side) <= Closable(b, leg.instrument, leg.side)

TradeSymbols(trade) == { SymbolOf(leg.instrument) : leg \in ToSet(trade.legs) }

Exits(b, trade) ==
  LET after == ApplyTrade(b, trade, NoCampaign)
  IN IF ~Supported(b, trade) THEN {}
     ELSE { s \in TradeSymbols(trade) : Exposed(b, s) # {} /\ Exposed(after, s) = {} }

Transition(kind, symbol, item) == [kind |-> kind, symbol |-> symbol, time |-> item.time]

Each(kind, symbols, item) ==
  LET order == SetToSeq(symbols)
  IN [k \in DOMAIN order |-> Transition(kind, order[k], item)]

\* What one item of the history adds to the lifecycle of its symbols.
TransitionsOf(b, item) ==
  IF IsTrade(item)
  THEN LET rolls == SetToSeq(Rolls(item))
       IN [k \in DOMAIN rolls |->
             Transition("ROLL", SymbolOf(item.legs[rolls[k][1]].instrument), item)]
          \o Each("EXIT", Exits(b, item), item)
  ELSE IF item.kind = "ASSIGNMENT"
  THEN Each("ASSIGNMENT", { SymbolOf(c.instrument) : c \in ToSet(item.changes) }, item)
  ELSE << >>

-----------------------------------------------------------------------------
\* A _ClosingActivity; "parts" are its allocations, in positive units.
Activity(day, i, quantity, parts, assigned, executed) ==
  [closed |-> day, instrument |-> i, quantity |-> quantity, parts |-> parts,
   assigned |-> assigned, executed |-> executed]

NoDay == -1

Parts(taken, unit) ==
  [k \in DOMAIN taken |-> [id |-> taken[k].id, campaign |-> taken[k].campaign,
                           quantity |-> Magnitude(taken[k].quantity) * unit]]

\* One leg of the attributor's trade branch.
AttributedLeg(r, trade, leg) ==
  LET day == Day(trade.time)
      after == ApplyLeg([r.book EXCEPT !.taken = << >>], leg, trade.time, CampaignOf(trade))
      closing == Activity(ClosedDay(leg, day, r.closures), leg.instrument, leg.quantity,
                          Parts(after.taken, 1), Settled(leg, day, r.closures) # {}, day)
  IN IF ~r.book.ok THEN r
     ELSE IF leg.effect # "CLOSE"
     THEN [book |-> after, closures |-> r.closures, found |-> r.found, owner |-> r.owner]
     ELSE [book |-> after, closures |-> AfterLeg(leg, day, r.closures),
           found |-> Append(r.found, closing), owner |-> r.owner]

\* _remaining_assignment_quantity over the closures of the attributor.
Undelivered(pending, event, i) ==
  { k \in DOMAIN pending : pending[k].underlying = i
                           /\ AttributedEvents[pending[k].event] = event }

ClosedByTrade(i) == i \in Closing(input.trades)

\* Mutation of Units: the whole change is applied whatever trades delivered.
WholeChange(event, change, pending) == change.quantity

\* What of a change the attributor applies: not what trades of the month have
\* already done.
Units(event, change, pending) ==
  LET i == change.instrument
      open == Undelivered(pending, event, i)
      left == SumFunction([k \in open |-> pending[k].remaining])
  IN IF event.kind = "ASSIGNMENT" /\ change.quantity < 0
     THEN IF open = {} THEN change.quantity ELSE -Smaller(-change.quantity, left)
     ELSE IF /\ ClosedByTrade(i)
             /\ \/ input.variant = "month"
                \/ event.kind # "EXPIRATION" /\ change.quantity < 0
     THEN 0 ELSE change.quantity

\* An assigned contract is closing activity of its shares' number.
AssignedOption(r, event, change) ==
  LET after == ApplyChange([r.book EXCEPT !.taken = << >>], change, event.time, NoCampaign)
      closing == Activity(Day(event.time), change.instrument, change.quantity * PerContract,
                          Parts(after.taken, PerContract), TRUE, NoDay)
  IN [book |-> after, closures |-> r.closures,
      found |-> IF after.taken = << >> \/ change.quantity < 0 THEN r.found
                ELSE Append(r.found, closing),
      owner |-> OwnerOf(after.taken, event.kind, r.owner)]

OtherChange(r, event, change) ==
  LET i == change.instrument
      units == Units(event, change, IF input.variant = "month" THEN planned ELSE r.closures)
      claimed == IF event.kind = "ASSIGNMENT" /\ r.owner # NoCampaign /\ change.quantity < 0
                 THEN ClaimUnassigned(r.book, i, -change.quantity, r.owner) ELSE r.book
      after == ApplyChange([claimed EXCEPT !.taken = << >>], [instrument |-> i, quantity |-> units],
                           event.time, r.owner)
      expired == event.kind = "EXPIRATION" /\ i \in Options
      parts == Parts(after.taken, 1)
      closing == Activity(Day(event.time), i,
                          IF expired THEN SumQuantities(parts) ELSE Magnitude(units),
                          parts, TRUE, NoDay)
  IN IF units = 0 THEN r
     ELSE IF ~claimed.ok
     THEN [book |-> claimed, closures |-> r.closures, found |-> r.found, owner |-> r.owner]
     ELSE [book |-> after, closures |-> r.closures,
           found |-> IF after.taken = << >> \/ (~expired /\ change.quantity > 0) THEN r.found
                     ELSE Append(r.found, closing),
           owner |-> r.owner]

AttributedChange(r, event, change) ==
  IF ~r.book.ok THEN r
  ELSE IF event.kind = "ASSIGNMENT" /\ change.instrument \in Options
  THEN AssignedOption(r, event, change)
  ELSE OtherChange(r, event, change)

AttributedTrade(start, trade) ==
  LET after[k \in 0..Len(trade.legs)] ==
        IF k = 0 THEN start ELSE AttributedLeg(after[k - 1], trade, trade.legs[k])
  IN after[Len(trade.legs)]

AttributedEvent(start, event) ==
  LET after[k \in 0..Len(event.changes)] ==
        IF k = 0 THEN start ELSE AttributedChange(after[k - 1], event, event.changes[k])
  IN after[Len(event.changes)]

Attributed(item) ==
  LET start == [book |-> book, closures |-> closures, found |-> activities, owner |-> NoCampaign]
  IN IF IsTrade(item) THEN AttributedTrade(start, item) ELSE AttributedEvent(start, item)

\* Both checks are made before any lot is touched: a report that names both
\* roots of a mapping never gets to its first row.
Mixed(reported) == \E i \in DOMAIN input.alias : {i, input.alias[i]} \subseteq reported

AliasAmbiguous ==
  LET represented == { i \in Instruments : input.lots[i] # << >> }
        \cup { leg.instrument : leg \in ToSet(LegsOf(input.trades)) }
        \cup UNION { { c.instrument : c \in ToSet(e.changes) } : e \in ToSet(AttributedEvents) }
  IN DOMAIN input.alias \cap represented # {}

-----------------------------------------------------------------------------
\* The contract an activity of a record has.
Contract(record) ==
  IF record.instrument \in DOMAIN input.alias THEN input.alias[record.instrument]
  ELSE record.instrument

Ordinary(a, record) ==
  /\ a.instrument = Contract(record) /\ Contract(record) \in Options
  /\ ~a.assigned
  /\ record.day \in {a.executed, a.closed}

\* Trade-date and settlement-date activity both match an option's record.
AmbiguousDay(record) ==
  Cardinality({ a.executed : a \in { u \in ToSet(unused) : Ordinary(u, record) } }) > 1

DayMatches(a, record) ==
  \/ a.closed = record.day
  \/ Ordinary(a, record)
  \/ /\ a.assigned
     /\ \/ NextBusinessDay(record.day) = a.closed
        \/ record.day % 7 = 4 /\ a.closed = record.day + 1
        \/ a.closed = record.day + 1 /\ IsHoliday(a.closed)

Matches(a, record) == a.instrument = Contract(record) /\ DayMatches(a, record)

\* _take_allocations and _remaining_allocations, one allocation.
CutPart(r, p) ==
  LET take == Smaller(p.quantity, r.due)
  IN [taken |-> IF take = 0 THEN r.taken ELSE Append(r.taken, [p EXCEPT !.quantity = take]),
      rest |-> IF take = p.quantity THEN r.rest
               ELSE Append(r.rest, [p EXCEPT !.quantity = p.quantity - take]),
      due |-> r.due - take]

Cut(parts, quantity) ==
  LET cut[k \in 0..Len(parts)] ==
        IF k = 0 THEN [taken |-> << >>, rest |-> << >>, due |-> quantity]
        ELSE CutPart(cut[k - 1], parts[k])
  IN cut[Len(parts)]

\* Mutation of Drawn: what is left of an activity keeps all its allocations.
DrawnKeepingAll(r, a, record) ==
  LET take == Smaller(a.quantity, r.due)
      cut == Cut(a.parts, take)
      remaining == Activity(a.closed, a.instrument, a.quantity - take, a.parts, a.assigned, a.executed)
  IN IF r.due = 0 \/ ~Matches(a, record)
     THEN [left |-> Append(r.left, a), due |-> r.due, taken |-> r.taken, consistent |-> r.consistent]
     ELSE [left |-> IF take = a.quantity THEN r.left ELSE Append(r.left, remaining),
           due |-> r.due - take, taken |-> r.taken \o cut.taken,
           consistent |-> r.consistent /\ cut.due = 0]

\* Mutation of Drawn: a row has to find its whole quantity in one activity.
DrawnAtOnce(r, a, record) ==
  IF r.due = 0 \/ ~Matches(a, record) \/ a.quantity < record.quantity
  THEN [left |-> Append(r.left, a), due |-> r.due, taken |-> r.taken, consistent |-> r.consistent]
  ELSE [left |-> r.left, due |-> 0, taken |-> a.parts, consistent |-> TRUE]

\* _consume_matching_activity, one activity: what a record takes of it.
Drawn(r, a, record) ==
  LET take == Smaller(a.quantity, r.due)
      cut == Cut(a.parts, take)
      remaining == Activity(a.closed, a.instrument, a.quantity - take, cut.rest, a.assigned, a.executed)
  IN IF r.due = 0 \/ ~Matches(a, record)
     THEN [left |-> Append(r.left, a), due |-> r.due, taken |-> r.taken, consistent |-> r.consistent]
     ELSE [left |-> IF take = a.quantity THEN r.left ELSE Append(r.left, remaining),
           due |-> r.due - take, taken |-> r.taken \o cut.taken,
           consistent |-> r.consistent /\ cut.due = 0]

\* _consume_matching_activity: first come, first served.
Consumed(record) ==
  LET drawn[k \in 0..Len(unused)] ==
        IF k = 0 THEN [left |-> << >>, due |-> record.quantity, taken |-> << >>, consistent |-> TRUE]
        ELSE Drawn(drawn[k - 1], unused[k], record)
  IN drawn[Len(unused)]

-----------------------------------------------------------------------------
Nowhere == [i \in Instruments |-> [c \in Owners |-> 0]]

OwnedBy(ls, c) ==
  Total([k \in DOMAIN ls |-> IF ls[k].campaign = c THEN ls[k].quantity ELSE 0])

Held(ls, id) == Total([k \in DOMAIN ls |-> IF ls[k].id = id THEN ls[k].quantity ELSE 0])

NamesOf(ls) == { ls[k].id : k \in DOMAIN ls }

\* The campaign of a lot that changes: the one it has afterwards, or had.
Holders(before, after, id) ==
  LET Of(ls) == { ls[k].campaign : k \in { n \in DOMAIN ls : ls[n].id = id } }
  IN IF Of(after) # {} THEN Of(after) ELSE Of(before)

\* What a campaign's lots of an instrument gained, lot by lot.
GainOf(before, after, c) ==
  SumFunction([id \in { n \in NamesOf(before) \cup NamesOf(after) : c \in Holders(before, after, n) }
                 |-> Held(after, id) - Held(before, id)])

\* Mutation of LegGain: a close is entered under the campaign of its order.
GainOfTheOrder(trade, leg, taken, c) == IF CampaignOf(trade) = c THEN Executed(leg) ELSE 0

ClosedFor(taken, c) ==
  Total([k \in DOMAIN taken |-> IF taken[k].campaign = c THEN Magnitude(taken[k].quantity) ELSE 0])

\* A leg's entries: an opening under its own campaign, a close under those of
\* the lots it consumed.
LegGain(trade, leg, taken, c) ==
  IF leg.effect = "OPEN" THEN IF CampaignOf(trade) = c THEN Executed(leg) ELSE 0
  ELSE IF leg.side = "BUY" THEN ClosedFor(taken, c) ELSE -ClosedFor(taken, c)

JournalLeg(r, trade, leg) ==
  LET i == leg.instrument
      after == ApplyLeg([r.book EXCEPT !.taken = << >>], leg, trade.time, CampaignOf(trade))
  IN IF ~r.book.ok THEN r
     ELSE [book |-> after,
           entries |-> [r.entries EXCEPT ![i] =
             [c \in Owners |-> r.entries[i][c] + LegGain(trade, leg, after.taken, c)]]]

JournalTrade(start, trade) ==
  LET after[k \in 0..Len(trade.legs)] ==
        IF k = 0 THEN start ELSE JournalLeg(after[k - 1], trade, trade.legs[k])
  IN after[Len(trade.legs)]

Journaled(item) ==
  LET ended == ApplyEvent(book, item)
  IN IF IsTrade(item) THEN JournalTrade([book |-> book, entries |-> journal], item)
     ELSE [book |-> ended,
           entries |-> [i \in Instruments |->
             IF i \notin { c.instrument : c \in ToSet(item.changes) } THEN journal[i]
             ELSE [c \in Owners |-> journal[i][c] + GainOf(book.lots[i], ended.lots[i], c)]]]

\* lot_signature: the lots of a book, whatever their order.
Signature(b) == [i \in Instruments |-> ToSet(b.lots[i])]

Carried == [i \in Instruments |-> [c \in Owners |-> OwnedBy(input.lots[i], c)]]

-----------------------------------------------------------------------------
Init ==
  /\ input \in Inputs
  /\ stage = "apply" /\ at = 1 /\ book = Fresh /\ ending = Fresh
  /\ transitions = << >>
  /\ planned = << >> /\ closures = << >>
  /\ activities = << >> /\ unused = << >> /\ results = << >>
  /\ journal = Nowhere
  /\ refusal = "none"

Refuse(why) == stage' = "refused" /\ refusal' = why

\* The next loop, or the end when the step under way has raised.
Continue(ok, next, why) ==
  IF ok THEN stage' = next /\ UNCHANGED refusal ELSE Refuse(why)

\* apply_with_lifecycle, one item of the history.
ApplyItem ==
  /\ stage = "apply" /\ at <= Len(PositionItems)
  /\ \E item \in {PositionItems[at]} :
     \E after \in {IF IsTrade(item) THEN ApplyTrade(book, item, CampaignOf(item))
                   ELSE ApplyEvent(book, item)} :
        /\ transitions' = transitions \o TransitionsOf(book, item)
        /\ book' = [after EXCEPT !.taken = << >>]
        /\ Continue(after.ok, "apply", "replay")
  /\ at' = at + 1
  /\ UNCHANGED << input, ending, attribution, journal >>

\* The end of the period; attribute_period_realized_pnl begins.
StartAttribution ==
  /\ stage = "apply" /\ at > Len(PositionItems)
  /\ ending' = book /\ book' = Fresh /\ at' = 1
  /\ closures' = ClosuresOf(AttributedEvents)
  /\ planned' = IF input.variant = "month" THEN Planned ELSE << >>
  /\ \E mixed \in { m \in BOOLEAN : m => DOMAIN input.alias # {} } :
       Continue(~AliasAmbiguous /\ ~mixed, "attribute", "alias")
  /\ UNCHANGED << input, transitions, activities, unused, results, journal >>

AttributeItem ==
  /\ stage = "attribute" /\ at <= Len(AttributedItems)
  /\ \E r \in {Attributed(AttributedItems[at])} :
        /\ book' = [r.book EXCEPT !.taken = << >>]
        /\ closures' = r.closures /\ activities' = r.found
        /\ Continue(r.book.ok, "attribute", "attribution")
  /\ at' = at + 1
  /\ UNCHANGED << input, ending, transitions, planned, unused, results, journal >>

StartMatching ==
  /\ stage = "attribute" /\ at > Len(AttributedItems)
  /\ stage' = "match" /\ unused' = activities
  /\ UNCHANGED << input, at, book, ending, transitions, planned, closures, activities,
                  results, journal, refusal >>

\* What the attribution of a row raises, if anything. LotAllocation refuses a
\* negative basis.
RaisedBy(record) ==
  LET r == Consumed(record)
  IN IF AmbiguousDay(record) THEN "ambiguous"
     ELSE IF ~r.consistent THEN "inconsistent"
     ELSE IF r.due # 0 THEN "unmatched"
     ELSE IF \E share \in ToSet(BasisShares(r.taken, record.basis)) : share < 0 THEN "negative"
     ELSE "none"

\* One row of the realized report.
MatchRecord ==
  /\ stage = "match" /\ Len(results) < MaxRecords
  /\ \E record \in Records :
       LET r == Consumed(record)
           raised == RaisedBy(record)
       IN /\ ~Mixed({ results[k].record.instrument : k \in DOMAIN results } \cup {record.instrument})
          /\ unused' = IF raised = "ambiguous" THEN unused ELSE r.left
          /\ results' = Append(results,
               [record |-> record,
                parts |-> IF raised = "ambiguous" THEN << >> ELSE r.taken,
                basis |-> IF raised = "none" THEN BasisShares(r.taken, record.basis) ELSE << >>])
          /\ Continue(raised = "none", "match", raised)
  /\ UNCHANGED << input, at, book, ending, transitions, planned, closures, activities, journal >>

\* The report ends; capture_position_journal enters the carried positions.
StartJournal ==
  /\ stage = "match"
  /\ stage' = "journal" /\ at' = 1 /\ book' = Fresh /\ journal' = Carried
  /\ UNCHANGED << input, ending, transitions, attribution, refusal >>

JournalItem ==
  /\ stage = "journal" /\ at <= Len(PositionItems)
  /\ \E r \in {Journaled(PositionItems[at])} :
        /\ book' = [r.book EXCEPT !.taken = << >>]
        /\ journal' = r.entries
        /\ Continue(r.book.ok, "journal", "journal")
  /\ at' = at + 1
  /\ UNCHANGED << input, ending, transitions, attribution >>

\* The journal's replay must end where the import's did.
CheckJournal ==
  /\ stage = "journal" /\ at > Len(PositionItems)
  /\ Continue(Signature(book) = Signature(ending), "captured", "journal")
  /\ UNCHANGED << input, at, book, ending, transitions, attribution, journal >>

Finished == stage \in {"captured", "refused"} /\ UNCHANGED vars

Next ==
  \/ ApplyItem \/ StartAttribution \/ AttributeItem \/ StartMatching
  \/ MatchRecord \/ StartJournal \/ JournalItem \/ CheckJournal
  \/ Finished

Spec == Init /\ [][Next]_vars

-----------------------------------------------------------------------------
UnitsIn(parts, id) ==
  Total([n \in DOMAIN parts |-> IF parts[n].id = id THEN parts[n].quantity ELSE 0])

UnitsOf(things, i, id) ==
  Total([k \in DOMAIN things |-> IF things[k].instrument = i THEN UnitsIn(things[k].parts, id) ELSE 0])

Attributions ==
  [k \in DOMAIN results |-> [instrument |-> Contract(results[k].record),
                             parts |-> results[k].parts]]

ClosedLots == { << a.instrument, p.id >> : a \in ToSet(activities), p \in
                  UNION { ToSet(a.parts) : a \in ToSet(activities) } }

\* While records draw on the closing activity, each closed unit of each lot is
\* attributed to one record or still unused: none is used twice or dropped, in
\* whatever order the rows come and however they cut the activities.
ClosedUnitsAreUsedOnce ==
  [][stage = "match" =>
       \A lot \in ClosedLots :
         UnitsOf(Attributions \o unused, lot[1], lot[2])' =
           UnitsOf(Attributions \o unused, lot[1], lot[2])]_vars

\* The shares of a record's basis add up to it, none is negative, and each is
\* its exact proportion up to rounding: half a cent, for the last of n shares
\* (n-1)/2 (a last share that this would leave negative is refused).
BasisDividedInProportion ==
  \A k \in DOMAIN results :
    LET parts == results[k].parts
        basis == results[k].basis
        total == SumQuantities(parts)
        Off(n) == Magnitude(2 * (total * basis[n] - results[k].record.basis * parts[n].quantity))
    IN basis # << >> =>
         /\ Total(basis) = results[k].record.basis
         /\ \A n \in DOMAIN parts :
              basis[n] >= 0 /\ Off(n) <= IF n < Len(parts) THEN total ELSE total * (Len(parts) - 1)

DatedInOrder ==
  \A j, k \in DOMAIN results : j < k => results[j].record.day <= results[k].record.day

\* There is a division of the activity among the rows: no set of rows asks for
\* more than all activity that matches one of them.
Divisible ==
  \A rows \in SUBSET DOMAIN results :
    MapThenSumSet(LAMBDA k : results[k].record.quantity, rows)
      <= MapThenSumSet(LAMBDA a : activities[a].quantity,
           { a \in DOMAIN activities : \E k \in rows : Matches(activities[a], results[k].record) })

\* No option was closed both by a trade and by an event.
Unmixed ==
  \A a, b \in ToSet(activities) :
    a.instrument = b.instrument /\ a.instrument \in Options => a.assigned = b.assigned

\* First come, first served loses nothing: when the report is in the order of
\* dates and no option has closed in two ways, a row is refused as unmatched
\* only if no division of the closing activity could serve all rows so far.
MatchableRecordsAreMatched ==
  refusal = "unmatched" /\ DatedInOrder /\ Unmixed => ~Divisible

\* Between the applied events and those attributed there is no difference, no
\* trade settles an assignment or closes what an event changes, and no trades
\* of two campaigns coincide.
Alike ==
  /\ input.boundary = << >>
  /\ \A e \in ToSet(input.events) : \A c \in ToSet(e.changes) :
       ~ClosedByTrade(c.instrument) \/ (e.kind = "ASSIGNMENT" /\ c.instrument \in Options)
  /\ \A s, t \in ToSet(input.trades) : s.time = t.time => CampaignOf(s) = CampaignOf(t)

\* The replays of the period applier and of the attributor end with the same
\* lots, by identifier, quantity, date and campaign, so that attributions name
\* lots of the ending book.
ReplaysAgree ==
  stage = "match" /\ Alike => Signature(book) = Signature(ending)

\* The journal's replay, which takes a trade leg by leg, neither raises nor ends
\* with other lots than the import's: "Replay must remain identical to the
\* economic pipeline, including events" (position_journal.py:98).
JournalReplaysTheImport == refusal # "journal"

\* Lots of a book have identifiers of their own, counted ones below the counter
\* that is saved with the book.
Identified(b) ==
  \A i \in Instruments :
    /\ \A j, k \in DOMAIN b.lots[i] : b.lots[i][j].id = b.lots[i][k].id => j = k
    /\ \A id \in NamesOf(b.lots[i]) :
         id = LotId("LOT", 0, NoCampaign, id.rank) => id.rank < b.nextId

\* Whose an instrument's lots are is never in doubt: only trades move it and
\* every lot has a campaign, or no trade closes it and no assignment claims it.
Accountable(i) ==
  LET moved == { c \in UNION { ToSet(e.changes) : e \in ToSet(input.events) } : c.instrument = i }
  IN \/ moved = {} /\ \A lot \in ToSet(input.lots[i]) : lot.campaign # NoCampaign
     \/ ~ClosedByTrade(i) /\ (i \in Options \/ \A c \in moved : c.quantity > 0)

\* The journal's entries explain what is left in every instrument, from the
\* carried position to the ending one, if the opening lots are identified: in
\* sum, and campaign by campaign where the lots' owners are never in doubt.
JournalExplainsPositions ==
  stage = "captured" /\ Identified(Fresh) =>
    \A i \in Instruments :
      /\ SumFunction(journal[i]) = SumQuantities(ending.lots[i])
      /\ Accountable(i) => \A c \in Owners : journal[i][c] = OwnedBy(ending.lots[i], c)

\* No trade closes an instrument that it opens: what it closes was there before.
OneWay ==
  \A trade \in ToSet(input.trades) : \A j, k \in DOMAIN trade.legs :
    trade.legs[j].instrument = trade.legs[k].instrument =>
      trade.legs[j].effect = trade.legs[k].effect

\* A symbol with a position at the start and none at the end has left for a
\* reason on record: an exit, an assignment, or an expiration among the events.
\* A trade that closes what it opens is no exit: its closes have to be
\* "supported by authoritative lots" (position_exit.py:93) before it.
FlatSymbolsHaveAReason ==
  stage = "attribute" /\ OneWay =>
    \A s \in Equities :
      Exposed(Fresh, s) # {} /\ Exposed(ending, s) = {} =>
        \/ \E k \in DOMAIN transitions :
             transitions[k].symbol = s /\ transitions[k].kind \in {"EXIT", "ASSIGNMENT"}
        \/ \E e \in ToSet(input.events) :
             e.kind = "EXPIRATION" /\ \E c \in ToSet(e.changes) : SymbolOf(c.instrument) = s

\* Shares of one assignment leave the attributor's book once, whether the event
\* or settlement trades at the strike, or both in part, deliver them.
Delivery(i) ==
  LET e == CHOOSE e \in ToSet(AttributedEvents) :
             \E c \in ToSet(e.changes) : c.instrument = i
  IN -(CHOOSE c \in ToSet(e.changes) : c.instrument = i).quantity

Settling(i) ==
  { tk \in UNION { {t} \X DOMAIN t.legs : t \in ToSet(input.trades) } :
      /\ tk[1].legs[tk[2]].instrument = i
      /\ Settled(tk[1].legs[tk[2]], Day(tk[1].time), ClosuresOf(AttributedEvents)) # {} }

\* The events that deliver an equity, and those whose contracts would.
Touching(i) ==
  { e \in ToSet(AttributedEvents) :
      \E c \in ToSet(e.changes) : i \in {c.instrument, SymbolOf(c.instrument)} }

SharesLeaveOnce ==
  stage = "match" /\ input.variant = "month" =>
    \A i \in Equities :
      LET settled == MapThenSumSet(LAMBDA tk : tk[1].legs[tk[2]].quantity, Settling(i))
      IN /\ Cardinality(Touching(i)) = 1
         /\ \A e \in Touching(i) : e.kind = "ASSIGNMENT" /\ Len(e.changes) = 2
         /\ Delivery(i) > 0
         => SumQuantities(book.lots[i]) =
              SumQuantities(input.lots[i]) + NetOf(input.trades, i)
                - (IF settled < Delivery(i) THEN Delivery(i) - settled ELSE 0)
=============================================================================
