------------------------------ MODULE MCOpening ------------------------------
EXTENDS CampaignContinuity

CONSTANTS C1, C2, P, S

MCUnderlying == [o \in Options |-> S]
MCNamesake == << >>
MCStrike == [o \in Options |-> IF o = C1 THEN 50 ELSE 60]
MCCampaigns == { CampaignId(scope, k) : scope \in {"CAMP", "LEGACY", "HIST", "MONTH"}, k \in 1..3 }

Leg(side, effect, i, q) == [instrument |-> i, effect |-> effect, side |-> side, quantity |-> q]
TradeAt(time, legs) == [time |-> time, legs |-> legs]
Change(i, q) == [instrument |-> i, quantity |-> q]

MCArchive ==
  { TradeAt(5, << Leg("SELL", "OPEN", C1, 1) >>),
    TradeAt(36, << Leg("SELL", "OPEN", C1, 1), Leg("BUY", "OPEN", S, 2) >>),
    TradeAt(40, << Leg("SELL", "OPEN", P, 1) >>),
    TradeAt(45, << Leg("BUY", "CLOSE", P, 1) >>),
    TradeAt(50, << Leg("BUY", "CLOSE", C1, 1), Leg("SELL", "OPEN", C2, 1) >>) }

MCPeriod ==
  { TradeAt(62, << Leg("BUY", "CLOSE", C1, 1), Leg("SELL", "CLOSE", S, 2) >>),
    TradeAt(64, << Leg("BUY", "CLOSE", C1, 1), Leg("SELL", "OPEN", C2, 1) >>),
    TradeAt(66, << Leg("SELL", "CLOSE", S, 2) >>),
    TradeAt(68, << Leg("BUY", "CLOSE", P, 1) >>),
    TradeAt(70, << Leg("SELL", "OPEN", C1, 1) >>),
    TradeAt(72, << Leg("BUY", "CLOSE", C1, 1) >>) }

Delivery(time, o) ==
  [time |-> time, kind |-> "ASSIGNMENT", row |-> 0, changes |-> << Change(o, 1), Change(S, -2) >>]
Row(time, row, q) ==
  [time |-> time, kind |-> "EXPIRATION", row |-> row, changes |-> << Change(S, q) >>]

\* At most one kind of event in an input.
Events(assigned, pending, expired) ==
  [assigned |-> assigned, pending |-> pending, expired |-> expired]
MCEvents ==
  { Events({}, {}, {}), Events({Delivery(75, C1)}, {}, {}), Events({}, {Delivery(92, C1)}, {}),
    Events({}, {}, {Row(55, 1, 2)}), Events({}, {}, {Row(56, 1, -2)}),
    Events({}, {}, {Row(55, 1, 2), Row(55, 2, 2)}) }

Rows(i, quantities, campaign) ==
  [k \in DOMAIN quantities |->
     BuildLot(LotId("ROW", k, i, 0), quantities[k], 10 + k, campaign)]

SourceOf(shares, calls, puts, campaign) ==
  [lots |-> [i \in Instruments |-> CASE i = S -> Rows(S, shares, campaign)
                                     [] i = C1 -> Rows(C1, calls, campaign)
                                     [] i = P -> Rows(P, puts, campaign)
                                     [] OTHER -> << >>],
   nextId |-> 1, carried |-> campaign # NoCampaign]

MCSources ==
  { SourceOf(s, c, << >>, NoCampaign) : s \in { << >>, << 2 >>, << 4 >> },
                                        c \in { << >>, << -1 >>, << -2 >> } }
  \cup { SourceOf(<< 2 >>, c, << -1 >>, NoCampaign) : c \in { << >>, << -1 >> } }
  \cup { SourceOf(s, << -1 >>, << >>, CampaignId("CAMP", 1)) : s \in { << 2 >>, << 2, 2 >> } }

UpTo(n, items) == { s \in SUBSET items : Cardinality(s) <= n }

\* Events are combined with history given by hand; a run that looks for history
\* on disk has none, or one delivery out of the account.
MCInputs ==
  { [source |-> source, archive |-> archive, period |-> period, root |-> root,
     assigned |-> e.assigned, pending |-> e.pending, expired |-> e.expired] :
      << root, e >> \in ({FALSE} \X MCEvents) \cup
                        ({TRUE} \X { Events({}, {}, {}), Events({}, {}, {Row(56, 1, -2)}) }),
      source \in MCSources, archive \in UpTo(2, MCArchive),
      period \in UpTo(2, MCPeriod) \ {{}} }

-----------------------------------------------------------------------------
\* A month on the lots carried from the month before: shares and options of two
\* campaigns or of none.
A == CampaignId("CAMP", 1)
B == CampaignId("CAMP", 2)

CarriedRows(i, owners, q) ==
  [k \in DOMAIN owners |-> BuildLot(LotId("ROW", k, i, 0), q, 10 + k, owners[k])]

CarriedSource(shares, calls, puts) ==
  [lots |-> [i \in Instruments |-> CASE i = S -> CarriedRows(S, shares, 2)
                                     [] i = C1 -> CarriedRows(C1, calls, -1)
                                     [] i = P -> CarriedRows(P, puts, -1)
                                     [] OTHER -> << >>],
   nextId |-> 1, carried |-> TRUE]

PutSources == { CarriedSource(<< >>, << >>, puts) : puts \in { << A >>, << A, A >>, << A, B >> } }
ShareSources ==
  { CarriedSource(shares, calls, << >>) :
      shares \in { << A >>, << A, B >>, << A, A, NoCampaign >> },
      calls \in { << >>, << A >>, << A, B >>, << NoCampaign >> } }

MCCarriedPeriod ==
  { TradeAt(61, << Leg("SELL", "OPEN", P, 1) >>),
    TradeAt(64, << Leg("SELL", "OPEN", C1, 1) >>),
    TradeAt(65, << Leg("SELL", "OPEN", C1, 1) >>),
    TradeAt(66, << Leg("SELL", "OPEN", C2, 1) >>),
    TradeAt(68, << Leg("BUY", "CLOSE", C1, 1), Leg("SELL", "OPEN", C2, 1) >>),
    TradeAt(70, << Leg("BUY", "CLOSE", C1, 1) >>),
    TradeAt(72, << Leg("SELL", "CLOSE", S, 2) >>),
    TradeAt(76, << Leg("SELL", "CLOSE", S, 2) >>) }

PutDelivery(time, q) ==
  [time |-> time, kind |-> "ASSIGNMENT", row |-> 0, changes |-> << Change(P, q), Change(S, q * 2) >>]
CallDelivery(time, q) ==
  [time |-> time, kind |-> "ASSIGNMENT", row |-> 0, changes |-> << Change(C1, q), Change(S, q * (-2)) >>]
Expiry(time) ==
  [time |-> time, kind |-> "EXPIRATION", row |-> 0, changes |-> << Change(C1, 1) >>]

MCCarriedInputs ==
  { [source |-> start[1], archive |-> {}, period |-> period, root |-> FALSE,
     assigned |-> start[2], pending |-> {}, expired |-> {}, origins |-> origins] :
      start \in (PutSources \X { {PutDelivery(62, 1)}, {PutDelivery(62, 2)} }) \cup
               (ShareSources \X { {}, {CallDelivery(74, 1)}, {CallDelivery(74, 2)}, {Expiry(74)} }),
      period \in UpTo(3, MCCarriedPeriod),
      origins \in { NoOrigins, { LotId("ROW", 3, S, 0) } } }
=============================================================================
