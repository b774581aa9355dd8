------------------------------ MODULE MCEvidence -----------------------------
EXTENDS PeriodEvidence

CONSTANTS C1, C2, P, S, S2

MCUnderlying == [o \in Options |-> S]
MCNamesake == << >>
MCStrike == [o \in Options |-> IF o = C1 THEN 50 ELSE 60]
MCCampaigns == { [scope |-> s, number |-> k] : s \in {"OLD", "MONTH"}, k \in 1..3 }
Old(k) == [scope |-> "OLD", number |-> k]

Leg(side, effect, i, q, price) ==
  [instrument |-> i, effect |-> effect, side |-> side, quantity |-> q, price |-> price]
TradeAt(time, legs) == [time |-> time, legs |-> legs]
EventAt(time, kind, changes) == [time |-> time, kind |-> kind, changes |-> changes]
Change(i, q) == [instrument |-> i, quantity |-> q]

\* A week and the Monday and Tuesday after it; two ticks to a day.
MCTrades ==
  { TradeAt(4, << Leg("SELL", "OPEN", C1, 1, 3) >>),
    TradeAt(6, << Leg("BUY", "OPEN", S, 1, 49) >>),
    TradeAt(7, << Leg("BUY", "CLOSE", C1, 1, 2), Leg("SELL", "OPEN", C2, 1, 4) >>),
    TradeAt(7, << Leg("BUY", "OPEN", S2, 1, 9) >>),
    TradeAt(7, << Leg("BUY", "OPEN", S, 1, 48) >>),
    TradeAt(8, << Leg("SELL", "CLOSE", S, 1, 51) >>),
    TradeAt(8, << Leg("BUY", "OPEN", S, 1, 51), Leg("SELL", "CLOSE", S, 3, 51) >>),
    TradeAt(9, << Leg("BUY", "CLOSE", C1, 1, 1) >>),
    TradeAt(14, << Leg("SELL", "CLOSE", S, 1, 50) >>),
    TradeAt(16, << Leg("SELL", "CLOSE", S, 3, 50) >>) }

MCEvents ==
  { << >>,
    << EventAt(8, "ASSIGNMENT", << Change(C1, 1), Change(S, -2) >>) >>,
    << EventAt(8, "ASSIGNMENT", << Change(P, 1), Change(S, 2) >>) >>,
    << EventAt(9, "EXPIRATION", << Change(C1, 1) >>) >>,
    << EventAt(7, "EXPIRATION", << Change(C1, 1) >>),
       EventAt(9, "ASSIGNMENT", << Change(C1, 1), Change(S, -2) >>) >> }

Rows(i, quantities, campaign) ==
  [k \in DOMAIN quantities |-> BuildLot(LotId("ROW", k, i, 0), quantities[k], k, campaign)]

Lots(shares, calls, puts) ==
  [i \in Instruments |-> CASE i = S -> shares [] i = C1 -> calls [] i = P -> puts [] OTHER -> << >>]

MCLots ==
  { Lots(Rows(S, << 2 >>, NoCampaign), Rows(C1, << -1 >>, Old(1)), << >>),
    Lots(Rows(S, << 1, 3 >>, NoCampaign), Rows(C1, << -1, -1 >>, Old(1)), << >>),
    Lots(Rows(S, << 1 >>, Old(2)) \o << BuildLot(LotId("ROW", 2, S, 0), 2, 2, NoCampaign) >>,
         Rows(C1, << -2 >>, Old(1)), << >>),
    Lots(Rows(S, << 1, 1 >>, Old(2)), << >>, << >>),
    Lots(<< >>, Rows(C1, << -1 >>, NoCampaign), Rows(P, << -1 >>, Old(1))) }

UpTo(n, items) == { s \in SUBSET items : Cardinality(s) <= n }

\* A file lists what coincides in either order.
Files(trades) ==
  { f \in SetToAllKPermutations(trades) :
      Len(f) = Cardinality(trades) /\ \A k \in DOMAIN f : k > 1 => f[k - 1].time <= f[k].time }

Boundary == << EventAt(16, "ASSIGNMENT", << Change(C1, 1), Change(S, -2) >>) >>

\* The least number of lots of which the last may be left with a negative share.
FourLots ==
  [lots |-> Lots(Rows(S, << 2, 2, 2, 1 >>, NoCampaign), << >>, << >>), nextId |-> 1,
   trades |-> << TradeAt(8, << Leg("SELL", "CLOSE", S, 7, 51) >>) >>, events |-> << >>,
   boundary |-> << >>, alias |-> << >>, variant |-> "month"]

\* The rehearsal's variant, an assignment of the next business day, and a
\* contract mapping, are combined with at most one trade.
MCInputs ==
  { [lots |-> lots, nextId |-> 1, trades |-> f, events |-> e, boundary |-> << >>,
     alias |-> << >>, variant |-> "month"] :
      lots \in MCLots, f \in UNION { Files(t) : t \in UpTo(2, MCTrades) }, e \in MCEvents }
  \cup
  { [lots |-> lots, nextId |-> 1, trades |-> f, events |-> e, boundary |-> << >>,
     alias |-> << >>, variant |-> "rehearsal"] :
      lots \in MCLots, f \in UNION { Files(t) : t \in UpTo(1, MCTrades) }, e \in MCEvents }
  \cup
  { [lots |-> lots, nextId |-> 1, trades |-> f, events |-> << >>, boundary |-> x[1],
     alias |-> x[2], variant |-> x[3]] :
      lots \in MCLots, f \in UNION { Files(t) : t \in UpTo(1, MCTrades) },
      x \in { << Boundary, << >>, "month" >>, << << >>, C2 :> C1, "rehearsal" >> } }
  \cup { FourLots }

MCRecords ==
  { [day |-> d, instrument |-> S, quantity |-> q, basis |-> 5] : d \in {4, 8}, q \in 1..3 }
  \cup { [day |-> d, instrument |-> C1, quantity |-> q, basis |-> 5] : d \in {3, 4}, q \in {1, 2} }
  \cup { [day |-> 4, instrument |-> C2, quantity |-> 1, basis |-> 5],
         [day |-> 4, instrument |-> S, quantity |-> 7, basis |-> 2] }
=============================================================================
