------------------------------ MODULE MCViews -------------------------------
\* TLC instances of AnalyticsSession: two months of one year and one of the
\* next, two days each.
EXTENDS AnalyticsSession

CONSTANTS S, T, F, EurUsd, LastMonth, MaxClicks

MCMonths == 1..LastMonth
MCDays == [m \in MCMonths |-> {2 * m - 1, 2 * m}]
MCYear == [m \in MCMonths |-> IF m =< 2 THEN 1 ELSE 2]
MCQuarter == [m \in MCMonths |-> IF m = 2 THEN "Q2" ELSE "Q1"]
MCPresets == {"YTD", "All", "Q1", "Q2"}
MCFutures == {F}
MCPairs == {EurUsd}

Local(n) == [month |-> NoMonth, symbol |-> NoSymbol, number |-> n]
Scoped(m, s, n) == [month |-> m, symbol |-> s, number |-> n]

Record(day, symbol, gain, parts, ok) ==
  [day |-> day, symbol |-> symbol, gain |-> gain, parts |-> parts, ok |-> ok]

Settlement(day, gain, n) == [day |-> day, pair |-> EurUsd, gain |-> gain, campaign |-> Local(n)]

File(realized, forex) == [realized |-> realized, forex |-> forex]

\* One close a day: every curve over four days with these gains.
Gains == {-2, 1, 2}

CurveFile(m, a, b) ==
  File(<< Record(2 * m - 1, S, a, {Scoped(1, S, 1)}, TRUE), Record(2 * m, T, b, {Local(1)}, TRUE) >>, << >>)

Curves ==
  { [m \in MCMonths |-> CASE m = 1 -> CurveFile(1, g[1], g[2]) [] m = 2 -> CurveFile(2, g[3], g[4])
                          [] OTHER -> NoFile] : g \in [1..4 -> Gains] }

\* A local number on two underlyings, and a record of the next month.
Colliding ==
  File(<< Record(1, S, 2, {Local(1)}, TRUE), Record(2, T, -3, {Local(1)}, TRUE),
          Record(2, S, 1, {Scoped(1, S, 1)}, TRUE), Record(3, S, -4, {Scoped(1, S, 1)}, TRUE) >>,
       << Settlement(2, 1, 1) >>)

\* Ambiguous, unassigned, unreconciled and futures records.
Doubtful ==
  File(<< Record(3, S, -4, {Scoped(1, S, 1)}, TRUE), Record(3, T, 2, {Local(1), Local(2)}, TRUE),
          Record(4, S, 3, {NoCampaign, Local(1)}, TRUE), Record(4, T, -1, {Local(1)}, FALSE),
          Record(4, F, 2, {Local(2)}, TRUE) >>,
       << Settlement(4, -2, 1), Settlement(4, 1, 2) >>)

Later == File(<< Record(5, S, 5, {Scoped(1, S, 1)}, TRUE), Record(6, T, 1, {Scoped(3, T, 1)}, TRUE) >>, << >>)

Unattributed == File(<< Record(5, S, -1, {NoCampaign}, TRUE) >>, << >>)

MCFiles == [m \in MCMonths |-> CASE m = 1 -> {Colliding} [] m = 2 -> {Doubtful} [] OTHER -> {Later, Unattributed}]

Mixtures ==
  { << Colliding, Doubtful, NoFile >>, << Colliding, Doubtful, Later >>,
    << Colliding, NoFile, Unattributed >>, << NoFile, NoFile, Unattributed >> }

\* Kept addresses: a month that is not published, a page of another release.
Bookmarks ==
  { [NewSession EXCEPT !.view = "Elsewhere", !.from = 3, !.through = 1],
    [NewSession EXCEPT !.view = "Campaigns", !.result = "Gone", !.from = 1, !.through = 3,
                       !.campaign = [month |-> 1, campaign |-> Scoped(1, S, 1), at |-> NoSymbol]] }

Start(f, address, c, p) == [files |-> f, url |-> address, clicks |-> c, publications |-> p]

\* Curves are drawn over the default and one other range; two small files leave
\* room for two more clicks, which reach ways back that are too long.
MCStarts ==
  { Start(f, NewSession, 1, 0) : f \in Curves } \cup
  { Start(f, NewSession, MaxClicks, 1) : f \in Mixtures } \cup
  { Start(<< CurveFile(1, 1, -2), NoFile, Unattributed >>, NewSession, MaxClicks + 2, 0) } \cup
  { Start(f, address, 1, 1) : f \in Mixtures, address \in Bookmarks }
=============================================================================
