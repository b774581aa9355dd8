-------------------------- MODULE AnalyticsSession --------------------------
(***************************************************************************)
(* One browser tab on the Overview, Campaigns and Performance pages        *)
(* (ui/dashboard.py, analytics_navigation.py, campaign_interactions.py,    *)
(* profit_concentration_view.py).  A click runs its callback and then the  *)
(* whole script; another click may come before the script has drawn, on    *)
(* the widgets of the page drawn before.  Meanwhile months are published.  *)
(*                                                                         *)
(* The row order of a table is left out: a callback holds the rows of the  *)
(* page it belongs to, so a clicked row is one of those.                   *)
(***************************************************************************)
EXTENDS AnalyticsViews

CONSTANTS
  Months,       \* calendar months, in order
  YearOf, QuarterOf,   \* of a month; quarters are among Presets
  Pairs,        \* currency pairs, which no realized record names
  Presets,      \* "YTD", "All" and the quarters
  Preference,   \* the operator's default reporting period
  Starts,       \* the files and the address at hand, and the bounds left
  Files,        \* Files[m]: what may be published of month m later
  NoFile,
  RouteLength,  \* characters of a route as JSON, its own way back left out
  RouteQuotes,  \* those among them that are escaped when it is kept
  MaxLength     \* the longest way back that apply_route takes over

ASSUME PresetAssumption == "YTD" \in Presets /\ "All" \in Presets /\ Preference \in Presets

ASSUME LengthAssumption == RouteLength \in Nat /\ RouteQuotes \in Nat /\ MaxLength \in Nat

ASSUME MonthAssumption == Months # {} /\ Months \subseteq Int /\ IsFiniteSet(Months)

ASSUME DayAssumption == \A m \in Months : Days[m] \subseteq Int \ {NoDay}

\* The session keys of FIELDS, which are also the parameters of an address.
IsRoute(s) ==
  s = [view |-> s.view, from |-> s.from, through |-> s.through, year |-> s.year,
       month |-> s.month, symbol |-> s.symbol, result |-> s.result, campaign |-> s.campaign,
       back |-> s.back]

\* An import-scoped campaign holds lots of its own underlying only
\* (scope_import_campaigns); a settlement has a pair (ForexPair).
IsFile(file) ==
  /\ IsFiniteSet(DOMAIN file.realized) /\ IsFiniteSet(DOMAIN file.forex)
  /\ \A i \in DOMAIN file.realized :
       LET r == file.realized[i]
       IN /\ r.gain \in Int /\ r.symbol \notin Pairs
          /\ IsFiniteSet(r.parts) /\ \A c \in Campaigns(r) : ImportScoped(c) => c.symbol = r.symbol
  /\ \A i \in DOMAIN file.forex : file.forex[i].gain \in Int /\ file.forex[i].pair \in Pairs \ {NoSymbol}

\* A kept address holds no way back: those live in the session that made them.
ASSUME StartAssumption ==
  \A start \in Starts :
    /\ start.files = [m \in Months |-> start.files[m]]
    /\ \A m \in Months : start.files[m] = NoFile \/ IsFile(start.files[m])
    /\ IsRoute(start.url) /\ start.url.back = 0

\* A month once published stays published.
ASSUME FileAssumption == \A m \in Months : \A file \in Files[m] : file # NoFile /\ IsFile(file)

VARIABLES
  files,     \* files[m]: the month's published attributions, or NoFile
  session,   \* the session state behind the widgets
  url,       \* the route in the browser's address
  visited,   \* the addresses Back and Forward of the browser reach
  trail,     \* the routes a return leads to, each with the page that was left
             \* and the characters of its JSON, all of them and the escaped ones
  screen,    \* the page last drawn
  drawn,     \* the page shows the session
  clicks, publications   \* how many are left

vars == << files, session, url, visited, trail, screen, drawn, clicks, publications >>

Views == {"Overview", "Campaigns", "Performance"}
Results == {"All", "Profit", "Loss", "Breakeven"}

\* What a page shows is a function of the files it was drawn from.
Published(f) == { m \in Months : f[m] # NoFile }

Realized(f, S) == [m \in S |-> f[m].realized]
Settled(f, S) == [m \in S |-> f[m].forex]

NewSession ==
  [view |-> "Overview", from |-> NoMonth, through |-> NoMonth, year |-> NoMonth,
   month |-> NoMonth, symbol |-> NoSymbol, result |-> "All", campaign |-> NoCampaign,
   back |-> 0]

BlankScreen ==
  [view |-> "none", offered |-> {}, months |-> {}, rows |-> {}, symbols |-> {}, links |-> {},
   campaign |-> NoCampaign, back |-> 0, files |-> << >>]

\* A way back is a number in the trail, 0 for none.
LengthOf(way) == IF way = 0 THEN 0 ELSE trail[way].length

EscapesOf(way) == IF way = 0 THEN 0 ELSE trail[way].escapes

\* apply_route: only known values of an address are taken over, and no way back
\* that has grown too long.  The names of campaigns and symbols are short.
ApplyRoute(route) ==
  [route EXCEPT !.view = IF @ \in Views THEN @ ELSE "Overview",
                !.result = IF @ \in Results THEN @ ELSE "All",
                !.back = IF LengthOf(@) > MaxLength THEN 0 ELSE @]

\* A tab opened at the bare address or at one the operator kept.
Init ==
  /\ \E start \in Starts :
       /\ files = start.files /\ url = start.url
       /\ clicks = start.clicks /\ publications = start.publications
  /\ trail = << >> /\ session = ApplyRoute(url) /\ visited = {url}
  /\ screen = BlankScreen /\ drawn = FALSE

-----------------------------------------------------------------------------
(***************************************************************************)
(* The reporting range.                                                    *)
(***************************************************************************)
\* preset_range; << >> when the year has no such month.
PresetRange(months, preset, year) ==
  LET candidates == { m \in months :
        preset = "All" \/ (YearOf[m] = year /\ preset \in {"YTD", QuarterOf[m]}) }
  IN IF candidates = {} THEN << >> ELSE << Min(candidates), Max(candidates) >>

\* default_range: year to date of the latest published year.
DefaultRange(months) ==
  LET preferred == PresetRange(months, Preference, YearOf[Max(months)])
  IN IF preferred # << >> THEN preferred ELSE PresetRange(months, "YTD", YearOf[Max(months)])

\* render_date_range, before its widgets are drawn.
WithRange(f, s) ==
  LET default == DefaultRange(Published(f))
      from == IF s.from \in Published(f) THEN s.from ELSE default[1]
      chosen == IF s.through \in Published(f) THEN s.through ELSE default[2]
      through == IF from > chosen THEN from ELSE chosen
      year == IF s.year \in { YearOf[m] : m \in Published(f) } THEN s.year ELSE YearOf[through]
  IN [s EXCEPT !.from = from, !.through = through, !.year = year]

Selected(f, s) == { m \in Published(f) : s.from =< m /\ m =< s.through }

-----------------------------------------------------------------------------
(***************************************************************************)
(* Drawing a page.                                                         *)
(***************************************************************************)
MatchesResult(row, result) ==
  CASE result = "Profit" -> row.pnl > 0
    [] result = "Loss" -> row.pnl < 0
    [] result = "Breakeven" -> row.pnl = 0
    [] OTHER -> TRUE

AllRows(f, S) == Drilldowns(Realized(f, S)) \cup ForexDrilldowns(Settled(f, S))

Symbols(f, s) == UNION { row.symbols : row \in AllRows(f, Selected(f, s)) }

\* A filter that names nothing on offer is reset.
WithFilters(f, s) ==
  [s EXCEPT !.month = IF @ \in Selected(f, s) THEN @ ELSE NoMonth,
            !.symbol = IF @ \in Symbols(f, s) THEN @ ELSE NoSymbol]

VisibleRows(f, s) ==
  { row \in AllRows(f, Selected(f, s)) :
      /\ s.symbol # NoSymbol => s.symbol \in row.symbols
      /\ MatchesResult(row, s.result)
      /\ s.month # NoMonth => row.name.month = s.month }

Page(f, s) ==
  [BlankScreen EXCEPT !.view = s.view, !.offered = Published(f), !.months = Selected(f, s),
                      !.back = s.back, !.files = f]

\* Overview and Performance; the latter lists the concentrated campaigns.
SummaryPage(f, s) ==
  [Page(f, s) EXCEPT !.links = IF s.view = "Performance"
                               THEN Concentration(Realized(f, Selected(f, s))) ELSE {}]

Shown(f, s) ==
  IF s.campaign \in { row.name : row \in VisibleRows(f, s) } THEN s.campaign ELSE NoCampaign

CampaignsPage(f, s) ==
  [Page(f, s) EXCEPT !.rows = VisibleRows(f, s), !.symbols = Symbols(f, s), !.campaign = Shown(f, s)]

\* The script leaves the session at s and the address at its route.
Publishes(s) == session' = s /\ url' = s /\ visited' = visited \cup {s}

DrawSummary ==
  LET s == WithRange(files, session)
  IN /\ s.view # "Campaigns"
     /\ Publishes(s) /\ screen' = SummaryPage(files, s)

\* Without a single campaign the page stops before its filters.
DrawNoCampaigns ==
  LET s == WithRange(files, session)
  IN /\ s.view = "Campaigns" /\ AllRows(files, Selected(files, s)) = {}
     /\ Publishes(s) /\ screen' = Page(files, s)

\* The route is published before a campaign that is not visible is dropped.
DrawCampaigns ==
  LET s == WithFilters(files, WithRange(files, session))
  IN /\ s.view = "Campaigns" /\ AllRows(files, Selected(files, s)) # {}
     /\ session' = [s EXCEPT !.campaign = Shown(files, s)]
     /\ url' = s /\ visited' = visited \cup {s}
     /\ screen' = CampaignsPage(files, s)

Draw ==
  /\ ~drawn /\ Published(files) # {}
  /\ DrawSummary \/ DrawNoCampaigns \/ DrawCampaigns
  /\ drawn' = TRUE
  /\ UNCHANGED << files, trail, clicks, publications >>

-----------------------------------------------------------------------------
(***************************************************************************)
(* Callbacks.  A widget that has its own callback publishes the route.     *)
(***************************************************************************)
Click ==
  /\ clicks > 0 /\ clicks' = clicks - 1
  /\ drawn' = FALSE
  /\ UNCHANGED << files, screen, publications >>

\* remember_return: keep the way back and point the session at it.  The route's
\* own way back is JSON inside the JSON, each of its quotes and backslashes escaped.
Keep(route) ==
  trail' = Append(trail,
    [route |-> route, left |-> IF drawn THEN screen ELSE BlankScreen,
     length |-> RouteLength + LengthOf(route.back) + EscapesOf(route.back),
     escapes |-> RouteQuotes + 2 * EscapesOf(route.back)])

Returning(s) == [s EXCEPT !.back = Len(trail) + 1]

\* The radio goes back by the route published last, if that is another page.
ChooseView(v) ==
  /\ Click /\ v # session.view
  /\ LET s == [session EXCEPT !.view = v]
     IN IF url.view \in Views \ {v} THEN Keep(url) /\ Publishes(Returning(s))
        ELSE Publishes(s) /\ UNCHANGED trail

\* A new range clears the month and the campaign looked at.
AfterRange(s) == Publishes([s EXCEPT !.month = NoMonth, !.campaign = NoCampaign])

ChooseFrom(m) ==
  /\ Click /\ m \in screen.offered \ {session.from}
  /\ AfterRange([session EXCEPT !.from = m, !.through = IF m > @ THEN m ELSE @])
  /\ UNCHANGED trail

ChooseThrough(m) ==
  /\ Click /\ m \in screen.offered \ {session.through}
  /\ AfterRange([session EXCEPT !.through = m, !.from = IF @ > m THEN m ELSE @])
  /\ UNCHANGED trail

ChooseYear(y) ==
  /\ Click /\ y \in { YearOf[m] : m \in screen.offered } \ {session.year}
  /\ session' = [session EXCEPT !.year = y]
  /\ UNCHANGED << url, visited, trail >>

Shortcut(preset) ==
  /\ Click /\ screen.offered # {}
  /\ LET range == PresetRange(screen.offered, preset, session.year)
     IN /\ range # << >>
        /\ AfterRange([session EXCEPT !.from = range[1], !.through = range[2]])
  /\ UNCHANGED trail

ChooseFilter(s) ==
  /\ Click /\ screen.view = "Campaigns" /\ s # session
  /\ Publishes([s EXCEPT !.campaign = NoCampaign])
  /\ UNCHANGED trail

FilterMonth(m) == m \in screen.months \cup {NoMonth} /\ ChooseFilter([session EXCEPT !.month = m])

FilterResult(result) == ChooseFilter([session EXCEPT !.result = result])

FilterSymbol(s) ==
  /\ s \in screen.symbols \cup {NoSymbol}
  /\ ChooseFilter([session EXCEPT !.symbol = s])

\* Mutation of OpenMonth: the way back is kept after the month was opened.
OpenMonthThenKeep(m) ==
  /\ Click /\ screen.view \in {"Overview", "Performance"} /\ m \in screen.months
  /\ LET s == [session EXCEPT !.view = "Campaigns", !.month = m, !.symbol = NoSymbol,
                              !.result = "All", !.campaign = NoCampaign]
     IN Keep(s) /\ Publishes(Returning(s))

\* The bar or the row of a month opens its campaigns.
OpenMonth(m) ==
  /\ Click /\ screen.view \in {"Overview", "Performance"} /\ m \in screen.months
  /\ Keep(session)
  /\ Publishes(Returning([session EXCEPT !.view = "Campaigns", !.month = m, !.symbol = NoSymbol,
                                         !.result = "All", !.campaign = NoCampaign]))

\* A row of the concentration opens a campaign whatever the filters were.
OpenConcentrated(link) ==
  /\ Click /\ link \in screen.links /\ link.pnl # 0
  /\ Keep(session)
  /\ Publishes(Returning([session EXCEPT !.view = "Campaigns", !.month = NoMonth,
                 !.symbol = link.key.symbol, !.result = "All", !.campaign = link.opens]))

OpenCampaign(name) ==
  /\ Click /\ name \in { row.name : row \in screen.rows }
  /\ IF name # session.campaign
     THEN Keep(session) /\ Publishes(Returning([session EXCEPT !.campaign = name]))
     ELSE Publishes(session) /\ UNCHANGED trail

CloseCampaign ==
  /\ Click /\ screen.rows # {} /\ session.campaign # NoCampaign
  /\ Publishes([session EXCEPT !.campaign = NoCampaign])
  /\ UNCHANGED trail

\* The button was drawn for the route the session held then.
GoBack ==
  /\ Click /\ screen.back # 0
  /\ Publishes(ApplyRoute(trail[screen.back].route))
  /\ UNCHANGED trail

\* restore_browser_route: the address is no longer the one published last.
BrowserTo(route) ==
  /\ Click /\ route \in visited \ {url}
  /\ session' = ApplyRoute(route) /\ url' = route
  /\ UNCHANGED << visited, trail >>

\* Another session finalizes a month, or finalizes it again.
Publish(m) ==
  /\ publications > 0 /\ publications' = publications - 1
  /\ \E file \in Files[m] \ {files[m]} : files' = [files EXCEPT ![m] = file]
  /\ UNCHANGED << session, url, visited, trail, screen, drawn, clicks >>

-----------------------------------------------------------------------------
ChooseRange ==
  \/ \E m \in Months : ChooseFrom(m) \/ ChooseThrough(m) \/ ChooseYear(YearOf[m])
  \/ \E preset \in Presets : Shortcut(preset)

ChooseFilters ==
  \/ \E m \in Months \cup {NoMonth} : FilterMonth(m)
  \/ \E result \in Results : FilterResult(result)
  \/ \E s \in screen.symbols \cup {NoSymbol} : FilterSymbol(s)

Open ==
  \/ \E m \in Months : OpenMonth(m)
  \/ \E link \in screen.links : OpenConcentrated(link)
  \/ \E row \in screen.rows : OpenCampaign(row.name)

Next ==
  \/ Draw
  \/ \E v \in Views : ChooseView(v)
  \/ ChooseRange \/ ChooseFilters \/ Open \/ CloseCampaign \/ GoBack
  \/ \E route \in visited : BrowserTo(route)
  \/ \E m \in Months : Publish(m)

Spec == Init /\ [][Next]_vars

-----------------------------------------------------------------------------
(***************************************************************************)
(* Properties                                                              *)
(***************************************************************************)
Shares(monthly, s) == PnlOf({ line \in Concentration(monthly) : line.key.symbol = s })

\* The deepest fall of the running total below its running maximum, zero at first.
ShowsDeepestFall(monthly) ==
  LET days == CloseDays(monthly)
      total == [d \in days |-> GainOf(monthly, { at \in Closes(monthly) : Rec(monthly, at).day =< d })]
      high == [d \in days |-> Max({0} \cup { total[e] : e \in { x \in days : x =< d } })]
      deepest == Min({0} \cup { total[d] - high[d] : d \in days })
      FirstDay(S) == IF S = {} THEN NoDay ELSE Min(S)
      trough == FirstDay({ d \in days : total[d] - high[d] = deepest })
      curve == Curve(monthly)
  IN /\ curve.deepest = deepest
     /\ deepest < 0 =>
          /\ curve.troughDay = trough
          /\ curve.peakDay = IF high[trough] = 0 THEN NoDay
                             ELSE FirstDay({ d \in days : total[d] = high[trough] })
          /\ RecoveryDay(curve) = FirstDay({ d \in days : d > trough /\ total[d] >= high[trough] })
          /\ SumFunction(Contributions(monthly)) = deepest

\* The maximum drawdown is the deepest fall; its peak, trough and recovery are
\* the first days that qualify, and the closes it is attributed to sum to it
\* (summarize_realized_drawdown, summarize_maximum_drawdown_contributions).
DrawdownIsTheDeepestFall == drawn => ShowsDeepestFall(Realized(files, screen.months))

\* Every view accounts for the same dollars: the months' results, the realized
\* curve, the campaign rows with the records that have none, and the
\* concentration with what it excludes.  The underlyings agree with the
\* concentration as long as no selected file holds an adjacent month's record.
EveryDollarIsShownOnce ==
  LET months == screen.months
      monthly == Realized(files, months)
      forex == Settled(files, months)
      total == MonthResults(monthly, forex).total
      settled == GainOf(forex, Records(forex))
      loose == [m \in months |-> MonthSummary(monthly, forex, m).unattributed]
      all == TotalPerformance(monthly)
      outcomes == Outcomes(monthly, forex)
      symbols == { Rec(monthly, at).symbol : at \in Records(monthly) } \ Futures
  IN drawn =>
       /\ total = Curve(monthly).total + settled
       /\ total = PnlOf(AllRows(files, months)) + SumFunction(loose)
       /\ total = PnlOf(Concentration(monthly)) + GainOf(monthly, Excluded(monthly)) + settled
       /\ all.count + all.excluded = Cardinality(Drilldowns(monthly))
       /\ Included(Drilldowns(monthly)) # {} /\ Records(forex) = {} =>
            outcomes.worst = Min({ row.pnl : row \in Included(AllRows(files, months)) })
       /\ Records(monthly) = Closes(monthly) =>
            \A s \in symbols : UnderlyingPnl(monthly, s) = Shares(monthly, s)

\* A row of the Campaigns page sums the records its detail lists, whatever range
\* it was opened from; a row of the concentration opens such a row, and the
\* campaign's economics hold the closes the row combines.
RowsAgreeWithTheirDetail ==
  LET monthly == Realized(files, screen.months)
      history == Realized(files, Published(files))
  IN drawn =>
     /\ \A row \in Drilldowns(monthly) :
          LET detail == DetailRecords(history, row.name)
          IN row.pnl = GainOf(history, detail) /\ row.records = Cardinality(detail)
     /\ \A line \in Concentration(monthly) :
          /\ line.opens \in { row.name : row \in Drilldowns(monthly) }
          /\ line.pnl = GainOf(history, { at \in EconomicsScope(history, line.opens) :
                                             at[1] \in screen.months /\ Rec(history, at).ok })

\* The page as a session would be drawn.
PageOf(f, session0) ==
  LET s == WithRange(f, session0)
  IN IF s.view # "Campaigns" THEN SummaryPage(f, s)
     ELSE IF AllRows(f, Selected(f, s)) = {} THEN Page(f, s) ELSE CampaignsPage(f, WithFilters(f, s))

\* "Back" leads to the page that was left, with its range, filters and campaign,
\* unless a month was published since (remember_return, apply_route).  That page
\* has its own Back button again as long as the way back it was drawn with,
\* which about doubles with each page on it, is not longer than MaxLength.
BackRestoresThePage ==
  \A i \in DOMAIN trail :
    trail[i].left.files = files =>
      PageOf(files, ApplyRoute(trail[i].route)) =
        [trail[i].left EXCEPT !.back = IF LengthOf(@) > MaxLength THEN 0 ELSE @]

=============================================================================
