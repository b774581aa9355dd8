--------------------------- MODULE AnalyticsViews ---------------------------
(***************************************************************************)
(* What the dashboard computes from the published attributions             *)
(* (analytics/*.py, domain/campaign_realized_pnl.py, campaign_identity.py, *)
(* ui/dashboard_campaigns.py).  "monthly" maps each selected month to its  *)
(* realized attributions, "forex" to its forex settlements, both in file   *)
(* order.  A file may hold records closed in an adjacent month.            *)
(*                                                                         *)
(* A record is [day, symbol, gain, parts, ok]: parts are the campaigns its *)
(* allocations name, NoCampaign for one without provenance; ok says that   *)
(* basis and gain reconcile.  A campaign is [month, symbol, number]: its   *)
(* import month and underlying, or NoMonth and NoSymbol when the number    *)
(* is local to one month.  Amounts are whole; averages are sum and count.  *)
(***************************************************************************)
EXTENDS Integers, Sequences, FiniteSetsExt, SequencesExt

CONSTANTS
  Days,         \* Days[m]: the days of month m
  Futures,      \* symbols that start with "/"
  NoMonth, NoSymbol, NoCampaign, NoDay

-----------------------------------------------------------------------------
(***************************************************************************)
(* Records, campaigns and their names.                                     *)
(***************************************************************************)
Campaigns(r) == r.parts \ {NoCampaign}

\* One known campaign, and nothing unassigned beside it.
Unambiguous(r) == NoCampaign \notin r.parts /\ Cardinality(r.parts) = 1

CampaignOf(r) == CHOOSE c \in r.parts : TRUE

ImportScoped(c) == c.month # NoMonth

\* Every record of the files, adjacent months included.
Records(monthly) ==
  UNION { { << m, i >> : i \in DOMAIN monthly[m] } : m \in DOMAIN monthly }

Rec(monthly, at) == monthly[at[1]][at[2]]

\* The records closed within the month whose file holds them.
Closes(monthly) == { at \in Records(monthly) : Rec(monthly, at).day \in Days[at[1]] }

GainOf(monthly, S) == SumFunction([at \in S |-> Rec(monthly, at).gain])

\* A list of results summed.
PnlOf(rows) == SumFunction([row \in rows |-> row.pnl])

\* separate_campaign_collisions: the underlyings one campaign name stands for.
SymbolsNamed(monthly, m, c) ==
  { Rec(monthly, at).symbol : at \in { x \in Closes(monthly) :
      x[1] = m /\ c \in Campaigns(Rec(monthly, x)) } }

\* Mutation of RowName: a colliding number is not told apart.
RowNameKeepingCollisions(monthly, at) ==
  [month |-> at[1], campaign |-> CampaignOf(Rec(monthly, at)), at |-> NoSymbol]

\* The name qualified by its reporting month and, in a collision, its symbol.
RowName(monthly, at) ==
  LET r == Rec(monthly, at)
      c == CampaignOf(r)
  IN [month |-> at[1], campaign |-> c,
      at |-> IF Cardinality(SymbolsNamed(monthly, at[1], c)) > 1 THEN r.symbol ELSE NoSymbol]

-----------------------------------------------------------------------------
(***************************************************************************)
(* The Campaigns page: one row per campaign and reporting month.           *)
(***************************************************************************)
Attributed(monthly) == { at \in Closes(monthly) : Unambiguous(Rec(monthly, at)) }

\* campaign_realized_attributions: what the detail of a row lists.
DetailRecords(monthly, name) == { at \in Attributed(monthly) : RowName(monthly, at) = name }

\* summarize_campaign_drilldowns.
Row(monthly, name, S) ==
  [name |-> name,
   symbols |-> { Rec(monthly, at).symbol : at \in S },
   pnl |-> GainOf(monthly, S),
   records |-> Cardinality(S),
   first |-> Min({ Rec(monthly, at).day : at \in S }),
   last |-> Max({ Rec(monthly, at).day : at \in S }),
   reconciled |-> \A at \in S : Rec(monthly, at).ok]

Drilldowns(monthly) ==
  LET names == [at \in Attributed(monthly) |-> RowName(monthly, at)]
  IN { Row(monthly, n, { at \in DOMAIN names : names[at] = n }) :
         n \in { names[at] : at \in DOMAIN names } }

\* forex_drilldowns: settlements carry a pair and a campaign of their own; a
\* settlement belongs to the month whose file holds it.
ForexName(forex, at) ==
  [month |-> at[1], campaign |-> Rec(forex, at).campaign, at |-> Rec(forex, at).pair]

ForexDrilldowns(forex) ==
  LET names == [at \in Records(forex) |-> ForexName(forex, at)]
      Day(at) == Rec(forex, at).day
      Line(n, S) ==
        [name |-> n, symbols |-> {Rec(forex, at).pair : at \in S}, pnl |-> GainOf(forex, S),
         records |-> Cardinality(S), first |-> Min({Day(at) : at \in S}),
         last |-> Max({Day(at) : at \in S}), reconciled |-> TRUE]
  IN { Line(n, { at \in DOMAIN names : names[at] = n }) : n \in { names[at] : at \in DOMAIN names } }

\* aggregate_campaign_realized_pnl over the selected months: forex settlements
\* of one campaign and month are one result, whatever their pair.
CampaignResults(monthly, forex) ==
  { [name |-> row.name, pnl |-> row.pnl, reconciled |-> row.reconciled] : row \in Drilldowns(monthly) }
  \cup { [name |-> n, reconciled |-> TRUE,
          pnl |-> GainOf(forex, {at \in Records(forex) : [ForexName(forex, at) EXCEPT !.at = NoSymbol] = n})] :
           n \in { [ForexName(forex, at) EXCEPT !.at = NoSymbol] : at \in Records(forex) } }

\* summarize_campaign_outcomes: the fully reconciled results and their extremes.
Included(results) == { c \in results : c.reconciled }

Worst(results) == IF Included(results) = {} THEN 0 ELSE Min({ c.pnl : c \in Included(results) })

Best(results) == IF Included(results) = {} THEN 0 ELSE Max({ c.pnl : c \in Included(results) })

\* The sum of the three largest winners, or of the three largest losers.
TopThree(ranked) ==
  FoldLeft(LAMBDA sum, c : sum + c.pnl, 0, SubSeq(ranked, 1, Min({3, Len(ranked)})))

WinnersFirst(c, d) == c.pnl > d.pnl
LosersFirst(c, d) == c.pnl < d.pnl

Outcomes(monthly, forex) ==
  LET results == CampaignResults(monthly, forex)
  IN [count |-> Cardinality(Included(results)),
      excluded |-> Cardinality(results \ Included(results)),
      best |-> Best(results), worst |-> Worst(results),
      top |-> TopThree(SetToSortSeq({ c \in Included(results) : c.pnl > 0 }, WinnersFirst)),
      bottom |-> TopThree(SetToSortSeq({ c \in Included(results) : c.pnl < 0 }, LosersFirst))]

-----------------------------------------------------------------------------
(***************************************************************************)
(* Monthly summaries and the totals over the selected months.              *)
(***************************************************************************)
OfMonth(monthly, m, S) == { at \in S : at[1] = m }

\* summarize_realized_pnl and the month's settled forex.
MonthSummary(monthly, forex, m) ==
  LET closed == OfMonth(monthly, m, Closes(monthly))
      attributed == OfMonth(monthly, m, Attributed(monthly))
      settled == GainOf(forex, OfMonth(forex, m, Records(forex)))
  IN [broker |-> GainOf(monthly, closed),
      attributed |-> GainOf(monthly, attributed),
      unattributed |-> GainOf(monthly, closed \ attributed),
      loose |-> Cardinality(closed \ attributed),
      forex |-> settled,
      combined |-> GainOf(monthly, closed) + settled]

\* summarize_campaign_performance of one month: forex campaigns do not take part.
Performance(monthly, m) ==
  LET results == { row \in Drilldowns(monthly) : row.name.month = m }
      wins == { row \in Included(results) : row.pnl > 0 }
      losses == { row \in Included(results) : row.pnl < 0 }
  IN [count |-> Cardinality(Included(results)),
      excluded |-> Cardinality(results) - Cardinality(Included(results)),
      wins |-> Cardinality(wins), losses |-> Cardinality(losses),
      won |-> PnlOf(wins), lost |-> PnlOf(losses)]

\* summarize_multi_month_campaign_performance: averages weighted by their counts.
TotalPerformance(monthly) ==
  LET of == [m \in DOMAIN monthly |-> Performance(monthly, m)]
  IN [count |-> SumFunction([m \in DOMAIN of |-> of[m].count]),
      excluded |-> SumFunction([m \in DOMAIN of |-> of[m].excluded]),
      wins |-> SumFunction([m \in DOMAIN of |-> of[m].wins]),
      losses |-> SumFunction([m \in DOMAIN of |-> of[m].losses]),
      won |-> SumFunction([m \in DOMAIN of |-> of[m].won]),
      lost |-> SumFunction([m \in DOMAIN of |-> of[m].lost])]

\* summarize_multi_month_performance: the total and the extreme months.
MonthResults(monthly, forex) ==
  LET Combined(m) == MonthSummary(monthly, forex, m).combined
      M == DOMAIN monthly
      First(P(_)) == Min({ m \in M : P(m) })
  IN [total |-> SumFunction([m \in M |-> Combined(m)]),
      profitable |-> Cardinality({ m \in M : Combined(m) > 0 }),
      losing |-> Cardinality({ m \in M : Combined(m) < 0 }),
      best |-> First(LAMBDA m : \A n \in M : Combined(m) >= Combined(n)),
      worst |-> First(LAMBDA m : \A n \in M : Combined(m) =< Combined(n))]

-----------------------------------------------------------------------------
(***************************************************************************)
(* The realized curve (realized_drawdown.py, drawdown_contribution.py).    *)
(***************************************************************************)
CloseDays(monthly) == { Rec(monthly, at).day : at \in Closes(monthly) }

ClosedOn(monthly, d) == { at \in Closes(monthly) : Rec(monthly, at).day = d }

FlatCurve ==
  [points |-> << >>, total |-> 0, high |-> 0, highDay |-> NoDay,
   deepest |-> 0, peakDay |-> NoDay, peak |-> 0, troughDay |-> NoDay]

\* Mutation of Extend: an equal cumulative value counts as a new high.
ExtendAtTheOldHigh(monthly, curve, d) ==
  LET total == curve.total + GainOf(monthly, ClosedOn(monthly, d))
      higher == total >= curve.high
      high == IF higher THEN total ELSE curve.high
      highDay == IF higher THEN d ELSE curve.highDay
      extended == [curve EXCEPT !.total = total, !.high = high, !.highDay = highDay,
                                !.points = Append(@, [day |-> d, total |-> total])]
  IN IF total - high < curve.deepest
     THEN [extended EXCEPT !.deepest = total - high, !.peakDay = highDay,
                           !.peak = high, !.troughDay = d]
     ELSE extended

\* One date of the loop of summarize_realized_drawdown.
Extend(monthly, curve, d) ==
  LET total == curve.total + GainOf(monthly, ClosedOn(monthly, d))
      higher == total > curve.high
      high == IF higher THEN total ELSE curve.high
      highDay == IF higher THEN d ELSE curve.highDay
      extended == [curve EXCEPT !.total = total, !.high = high, !.highDay = highDay,
                                !.points = Append(@, [day |-> d, total |-> total])]
  IN IF total - high < curve.deepest
     THEN [extended EXCEPT !.deepest = total - high, !.peakDay = highDay,
                           !.peak = high, !.troughDay = d]
     ELSE extended

\* The loop over the sorted dates, upto[D] after the dates of D.
Curve(monthly) ==
  LET upto[D \in SUBSET CloseDays(monthly)] ==
        IF D = {} THEN FlatCurve ELSE Extend(monthly, upto[D \ {Max(D)}], Max(D))
  IN upto[CloseDays(monthly)]

\* The first point after the trough that is back at the peak it fell from.
RecoveryDay(curve) ==
  LET back == { i \in DOMAIN curve.points :
                  curve.points[i].day > curve.troughDay /\ curve.points[i].total >= curve.peak }
  IN IF curve.deepest = 0 \/ back = {} THEN NoDay ELSE curve.points[Min(back)].day

\* summarize_maximum_drawdown_contributions: the closes of the interval after
\* the peak and through the trough, by underlying.
DrawdownInterval(monthly) ==
  LET curve == Curve(monthly)
  IN IF curve.deepest = 0 THEN {}
     ELSE { at \in Closes(monthly) :
              /\ curve.peakDay # NoDay => Rec(monthly, at).day > curve.peakDay
              /\ Rec(monthly, at).day =< curve.troughDay }

BySymbol(monthly, S) ==
  [s \in { Rec(monthly, at).symbol : at \in S } |->
     GainOf(monthly, { at \in S : Rec(monthly, at).symbol = s })]

Contributions(monthly) == BySymbol(monthly, DrawdownInterval(monthly))

-----------------------------------------------------------------------------
(***************************************************************************)
(* Profit concentration, campaign economics, underlying performance.       *)
(***************************************************************************)
\* summarize_profit_concentration takes reconciled closes of one campaign, no
\* futures, and import-scoped campaigns on their own underlying only.
Concentrated(monthly) ==
  { at \in Attributed(monthly) :
      LET r == Rec(monthly, at)
      IN /\ r.ok
         /\ r.symbol \notin Futures
         /\ ImportScoped(CampaignOf(r)) => CampaignOf(r).symbol = r.symbol }

ConcentrationKey(monthly, at) ==
  LET r == Rec(monthly, at)
  IN [symbol |-> r.symbol, campaign |-> CampaignOf(r),
      month |-> IF ImportScoped(CampaignOf(r)) THEN NoMonth ELSE at[1]]

\* A row per key; it opens the detail of its latest reporting month.
ConcentrationRow(monthly, key, S) ==
  LET latest == { at \in S : \A other \in S : other[1] =< at[1] }
  IN [key |-> key, pnl |-> GainOf(monthly, S),
      opens |-> RowName(monthly, CHOOSE at \in latest : TRUE)]

Concentration(monthly) ==
  LET keys == [at \in Concentrated(monthly) |-> ConcentrationKey(monthly, at)]
  IN { ConcentrationRow(monthly, k, { at \in DOMAIN keys : keys[at] = k }) :
         k \in { keys[at] : at \in DOMAIN keys } }

\* Mutation of Excluded: only records without a campaign are reported.
ExcludedUnattributed(monthly) == Closes(monthly) \ Attributed(monthly)

Excluded(monthly) == Closes(monthly) \ Concentrated(monthly)

\* campaign_record_scope: a scoped identity is followed through all published
\* months, a local number stays within its reporting month.
EconomicsScope(history, name) ==
  { at \in Attributed(history) :
      LET n == RowName(history, at)
      IN /\ ImportScoped(name.campaign) => Rec(history, at).symbol = name.campaign.symbol
         /\ n.campaign = name.campaign /\ n.at = name.at
         /\ ImportScoped(name.campaign) \/ n.month = name.month }

\* summarize_underlying_performance and summarize_repeated_campaign_performance
\* qualify by the file's month and take its raw contents.
Reconciled(monthly) ==
  { at \in Records(monthly) : Unambiguous(Rec(monthly, at)) /\ Rec(monthly, at).ok }

UnderlyingCampaigns(monthly) ==
  LET key == [at \in Reconciled(monthly) |->
                << Rec(monthly, at).symbol, at[1], CampaignOf(Rec(monthly, at)) >>]
      Of(k) == { at \in DOMAIN key : key[at] = k }
  IN { [symbol |-> k[1], month |-> k[2], campaign |-> k[3], pnl |-> GainOf(monthly, Of(k)),
        first |-> Min({ Rec(monthly, at).day : at \in Of(k) })] : k \in { key[at] : at \in DOMAIN key } }

UnderlyingPnl(monthly, s) ==
  PnlOf({ c \in UnderlyingCampaigns(monthly) : c.symbol = s })
=============================================================================
