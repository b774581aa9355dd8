---------------------------- MODULE CampaignTrades ---------------------------
(***************************************************************************)
(* Trades, their direction, the campaigns they are grouped into, and a     *)
(* whole trade or event applied to a lot book (campaign_reconstructor.py,  *)
(* domain/trade.py, domain/option_directional_bias.py, domain/lot_book.py, *)
(* domain/lot_book_period_applier.py).                                     *)
(*                                                                         *)
(* A trade is [time, legs], a leg [instrument, effect, side, quantity]     *)
(* with a positive quantity; its execution is signed by its side, as the   *)
(* broker's files are.  An event is [time, kind, changes] and a change     *)
(* [instrument, quantity].  Time is counted in days.  A book is            *)
(* [lots, nextId, ok]; ok is FALSE once a call has raised.                 *)
(***************************************************************************)
EXTENDS LotBook, FiniteSets

CONSTANTS
  JoinDays,     \* 30 in the code: the longest pause inside a campaign
  PerContract,  \* shares of one contract, 100 in the code
  Strike        \* the strike price of an option

ASSUME TradeAssumption ==
  /\ JoinDays \in Nat /\ PerContract \in Nat \ {0}
  /\ Strike \in [Options -> Nat]

\* The quantity column of a broker row has the sign of its side.
Executed(leg) == IF leg.side = "BUY" THEN leg.quantity ELSE -leg.quantity

SymbolOf(i) == IF i \in Options THEN Underlying[i] ELSE i

LegsOf(trades) == FlattenSeq([k \in DOMAIN trades |-> trades[k].legs])

Quantity(legs) == FoldSeq(LAMBDA leg, sum : leg.quantity + sum, 0, legs)

\* Signed executions of an instrument in a sequence of trades.
NetOf(trades, i) ==
  FoldSeq(LAMBDA leg, sum : IF leg.instrument = i THEN Executed(leg) + sum ELSE sum,
          0, LegsOf(trades))

ClosesOf(trades, i) ==
  Quantity(SelectSeq(LegsOf(trades),
                     LAMBDA leg : leg.effect = "CLOSE" /\ leg.instrument = i))

Closing(trades) == { leg.instrument : leg \in
                       { l \in ToSet(LegsOf(trades)) : l.effect = "CLOSE" } }

-----------------------------------------------------------------------------
\* option_leg_directional_bias
LegBias(leg) ==
  IF (leg.instrument \in Calls) = (leg.side = "BUY") THEN "BULLISH" ELSE "BEARISH"

\* A vertical: the leg at the lower strike decides.  The signed executions of
\* its two legs are compared as they are.
IsVertical(trade) ==
  /\ Len(trade.legs) = 2
  /\ LET a == trade.legs[1]
         b == trade.legs[2]
     IN /\ a.instrument \in Options /\ b.instrument \in Options
        /\ (a.instrument \in Calls) = (b.instrument \in Calls)
        /\ SymbolOf(a.instrument) = SymbolOf(b.instrument)
        /\ Executed(a) = Executed(b)
        /\ a.effect = "OPEN" /\ b.effect = "OPEN"
        /\ Strike[a.instrument] # Strike[b.instrument] /\ a.side # b.side

VerticalBias(trade) ==
  LET a == trade.legs[1]
      b == trade.legs[2]
  IN LegBias(IF Strike[a.instrument] < Strike[b.instrument] THEN a ELSE b)

\* Trade.directional_bias
Bias(trade) ==
  LET biases == { LegBias(leg) : leg \in
                    { l \in ToSet(trade.legs) :
                        l.effect = "OPEN" /\ l.instrument \in Options } }
  IN IF Cardinality(biases) = 1 THEN CHOOSE b \in biases : TRUE
     ELSE IF biases # {} /\ IsVertical(trade) THEN VerticalBias(trade)
     ELSE "NEUTRAL"

\* _campaign_directional_bias: the latest bias that says anything.
LastBias(trades) ==
  LET said == { k \in DOMAIN trades : Bias(trades[k]) # "NEUTRAL" }
  IN IF said = {} THEN "NEUTRAL" ELSE Bias(trades[Max(said)])

TradeSymbol(trade) == SymbolOf(trade.legs[1].instrument)

\* The test of reconstruct's inner loop.
Joins(trades, trade) ==
  /\ TradeSymbol(trade) = TradeSymbol(Last(trades))
  /\ trade.time - Last(trades).time <= JoinDays
  /\ \/ Bias(trade) = "NEUTRAL" \/ LastBias(trades) = "NEUTRAL"
     \/ Bias(trade) = LastBias(trades)

\* CampaignReconstructor.reconstruct: each trade joins the first campaign that
\* takes it, or founds one; a campaign is the sequence of its trades.
Joined(found, trade) ==
  LET takers == { k \in DOMAIN found : Joins(found[k], trade) }
  IN IF takers = {} THEN Append(found, << trade >>)
     ELSE [found EXCEPT ![Min(takers)] = Append(found[Min(takers)], trade)]

Reconstruct(trades) ==
  LET found[k \in 0..Len(trades)] ==
        IF k = 0 THEN << >> ELSE Joined(found[k - 1], trades[k])
  IN found[Len(trades)]

StartedBefore(trades) == \A leg \in ToSet(trades[1].legs) : leg.effect # "OPEN"

-----------------------------------------------------------------------------
\* Lot identifiers of this level: "LOT" ones are counted, a snapshot row's is
\* its instrument's, a reconstructed one names kind, time and rank.
LotId(kind, at, of, rank) == [kind |-> kind, at |-> at, of |-> of, rank |-> rank]

LotNames == [kind : {"LOT", "ROW", "TRADE", "EXPIRATION", "COVERED"}, at : Nat,
             of : Instruments \cup {NoCampaign}, rank : Nat]

NewId(book) == LotId("LOT", 0, NoCampaign, book.nextId)

\* seed, and _append_lot when the identifier is a new one.
Seed(book, i, lot) ==
  [book EXCEPT !.lots = [book.lots EXCEPT ![i] = Append(book.lots[i], lot)]]

AppendNew(book, i, quantity, now, campaign) ==
  [lots |-> [book.lots EXCEPT ![i] =
               Append(book.lots[i], BuildLot(NewId(book), quantity, now, campaign))],
   nextId |-> book.nextId + 1, ok |-> book.ok, taken |-> book.taken]

\* _close, one iteration of its loop: what is left open, what is still due, and
\* the allocations in the order they were made.
CloseLot(run, lot, campaign) ==
  LET part == Taken(lot, run.due)
  IN IF run.due = 0 \/ Sign(lot.quantity) = Sign(run.due)
     THEN [open |-> Append(run.open, lot), due |-> run.due, taken |-> run.taken]
     ELSE [open |-> IF lot.quantity + part = 0 THEN run.open
                    ELSE Append(run.open, [lot EXCEPT !.quantity = lot.quantity + part]),
           due |-> run.due - part,
           taken |-> Append(run.taken, AllocationOf(lot, part, campaign))]

\* _close over the lots of one instrument.
CloseRun(ls, due, campaign) ==
  LET run[k \in 0..Len(ls)] ==
        IF k = 0 THEN [open |-> << >>, due |-> due, taken |-> << >>]
        ELSE CloseLot(run[k - 1], ls[k], campaign)
  IN run[Len(ls)]

\* A leg: an opening is a lot of its own, a close consumes lots or raises.
ApplyLeg(b, leg, now, campaign) ==
  LET i == leg.instrument
      run == CloseRun(b.lots[i], Executed(leg), campaign)
  IN IF ~b.ok THEN b
     ELSE IF leg.effect = "OPEN" THEN AppendNew(b, i, Executed(leg), now, campaign)
     ELSE [lots |-> [b.lots EXCEPT ![i] = run.open], nextId |-> b.nextId,
           ok |-> run.due = 0, taken |-> b.taken \o run.taken]

\* apply_trade; the allocations of all its closing legs are kept in "taken".
ApplyTrade(book, trade, campaign) ==
  LET after[k \in 0..Len(trade.legs)] ==
        IF k = 0 THEN book ELSE ApplyLeg(after[k - 1], trade.legs[k], trade.time, campaign)
  IN after[Len(trade.legs)]

\* apply_signed_change: lots of the other side are closed, the rest is opened.
ApplyChange(book, change, now, campaign) ==
  LET run == CloseRun(book.lots[change.instrument], change.quantity, NoCampaign)
      closed == [lots |-> [book.lots EXCEPT ![change.instrument] = run.open],
                 nextId |-> book.nextId, ok |-> book.ok, taken |-> book.taken \o run.taken]
  IN IF run.due = 0 THEN closed
     ELSE AppendNew(closed, change.instrument, run.due, now, campaign)

\* assign_unassigned_lots_to_campaign, one iteration of its loop.
ClaimLot(r, lot, campaign) ==
  LET part == Smaller(lot.quantity, r.due)
      mine == BuildLot(lot.id, part, lot.opened, campaign)
      rest == BuildLot(LotId("LOT", 0, NoCampaign, r.nextId), lot.quantity - part,
                       lot.opened, lot.campaign)
  IN IF r.due = 0 \/ lot.campaign # NoCampaign \/ lot.quantity < 0
     THEN [open |-> Append(r.open, lot), due |-> r.due, nextId |-> r.nextId]
     ELSE [open |-> r.open \o (IF part = lot.quantity THEN << mine >> ELSE << mine, rest >>),
           due |-> r.due - part,
           nextId |-> IF part = lot.quantity THEN r.nextId ELSE r.nextId + 1]

ClaimRun(ls, quantity, nextId, campaign) ==
  LET run[k \in 0..Len(ls)] ==
        IF k = 0 THEN [open |-> << >>, due |-> quantity, nextId |-> nextId]
        ELSE ClaimLot(run[k - 1], ls[k], campaign)
  IN run[Len(ls)]

\* assign_unassigned_lots_to_campaign: nothing to claim is accepted, too
\* little is not.
ClaimUnassigned(book, i, quantity, campaign) ==
  LET run == ClaimRun(book.lots[i], quantity, book.nextId, campaign)
  IN IF Unclaimed(book.lots[i]) = {} THEN book
     ELSE [lots |-> [book.lots EXCEPT ![i] = run.open], nextId |-> run.nextId,
           ok |-> run.due = 0, taken |-> book.taken]

\* The campaign of an assignment's option change, when it is a single one.
OwnerOf(taken, kind, otherwise) ==
  LET named == { a.campaign : a \in ToSet(taken) } \ {NoCampaign}
  IN IF kind = "ASSIGNMENT" /\ Cardinality(named) = 1
     THEN CHOOSE c \in named : TRUE ELSE otherwise

\* _apply_event, one change: the equity an assignment takes is bound to the
\* campaign of the option the change before it closed.
EventChange(r, event, change) ==
  LET i == change.instrument
      bound == IF r.owner # NoCampaign /\ change.quantity < 0
               THEN ClaimUnassigned(r.book, i, -change.quantity, r.owner) ELSE r.book
      closed == ApplyChange([r.book EXCEPT !.taken = << >>], change, event.time, NoCampaign)
  IN IF ~r.book.ok THEN r
     ELSE IF i \in Options
     THEN [book |-> closed, owner |-> OwnerOf(closed.taken, event.kind, r.owner)]
     ELSE [book |-> IF bound.ok THEN ApplyChange(bound, change, event.time, r.owner) ELSE bound,
           owner |-> r.owner]

ApplyEvent(book, event) ==
  LET after[k \in 0..Len(event.changes)] ==
        IF k = 0 THEN [book |-> book, owner |-> NoCampaign]
        ELSE EventChange(after[k - 1], event, event.changes[k])
  IN after[Len(event.changes)].book

Book(lots) == [lots |-> lots, nextId |-> 1, ok |-> TRUE, taken |-> << >>]
=============================================================================
