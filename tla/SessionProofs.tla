--------------------------- MODULE SessionProofs ---------------------------
(***************************************************************************)
(* Theorems about the dashboard tab of AnalyticsSession.                   *)
(***************************************************************************)
EXTENDS AnalyticsSession, TotalsProofs, FiniteSetTheorems

-----------------------------------------------------------------------------
(***************************************************************************)
(* Least and greatest months.                                              *)
(***************************************************************************)
\* A finite set of numbers that is not empty has a least and a greatest one.
LEMMA Extremes ==
  ASSUME NEW S \in SUBSET Int, IsFiniteSet(S), S # {}
  PROVE  Min(S) \in S /\ Max(S) \in S /\ \A x \in S : Min(S) <= x /\ x <= Max(S)
<1> DEFINE Bounded(T) == \E lo, hi \in T : \A x \in T : lo <= x /\ x <= hi
           N == { n \in Nat : \A T \in SUBSET S :
                    T # {} /\ IsFiniteSet(T) /\ Cardinality(T) = n => Bounded(T) }
<1>1. 0 \in N
  BY FS_EmptySet
<1>2. ASSUME NEW n \in Nat, n \in N PROVE n + 1 \in N
  <2> SUFFICES ASSUME NEW T \in SUBSET S, T # {}, IsFiniteSet(T), Cardinality(T) = n + 1
               PROVE  Bounded(T)
    OBVIOUS
  <2>1. PICK y \in T : TRUE
    OBVIOUS
  <2>2. IsFiniteSet(T \ {y}) /\ Cardinality(T \ {y}) = n
    <3>1. IsFiniteSet(T \ {y}) /\ Cardinality(T \ {y}) = Cardinality(T) - 1
      BY ONLY <2>1, IsFiniteSet(T), FS_RemoveElement
    <3> QED BY <3>1
  <2>3. CASE T \ {y} = {}
    <3>1. \A x \in T : x = y
      BY <2>3
    <3> QED BY <2>1, <3>1
  <2>4. CASE T \ {y} # {}
    <3>1. PICK lo \in T \ {y}, hi \in T \ {y} : \A x \in T \ {y} : lo <= x /\ x <= hi
      BY <1>2, <2>2, <2>4
    <3> DEFINE l == IF y < lo THEN y ELSE lo
               h == IF y > hi THEN y ELSE hi
    <3>2. l \in T /\ h \in T
      BY <2>1, <3>1
    <3>3. \A x \in T : l <= x /\ x <= h
      BY <2>1, <3>1
    <3> QED BY <3>2, <3>3
  <2> QED BY <2>3, <2>4
<1>3. Nat \subseteq N
  <2> HIDE DEF N
  <2> QED BY <1>1, <1>2, EveryNumber
<1>4. Cardinality(S) \in Nat
  BY FS_CardinalityType
<1>5. Bounded(S)
  BY <1>3, <1>4
<1> QED BY <1>5 DEF Min, Max

\* The range of a preset lies within the months it was asked of.
LEMMA PresetOf ==
  ASSUME NEW M \in SUBSET Months, NEW preset, NEW year, PresetRange(M, preset, year) # << >>
  PROVE  PresetRange(M, preset, year)[1] \in M /\ PresetRange(M, preset, year)[2] \in M
<1> DEFINE candidates == { m \in M :
             preset = "All" \/ (YearOf[m] = year /\ preset \in {"YTD", QuarterOf[m]}) }
<1>1. candidates # {}
  BY DEF PresetRange
<1>2. candidates \in SUBSET Int /\ IsFiniteSet(candidates)
  BY MonthAssumption, FS_Subset
<1>3. Min(candidates) \in candidates /\ Max(candidates) \in candidates
  BY <1>1, <1>2, Extremes
<1>4. PresetRange(M, preset, year) = << Min(candidates), Max(candidates) >>
  BY <1>1 DEF PresetRange
<1> QED BY <1>3, <1>4

LEMMA DefaultOf ==
  ASSUME NEW M \in SUBSET Months, M # {}
  PROVE  DefaultRange(M)[1] \in M /\ DefaultRange(M)[2] \in M
<1>1. CASE PresetRange(M, Preference, YearOf[Max(M)]) # << >>
  BY <1>1, PresetOf DEF DefaultRange
<1>2. CASE PresetRange(M, Preference, YearOf[Max(M)]) = << >>
  <2>1. Max(M) \in M
    BY MonthAssumption, FS_Subset, Extremes
  <2>2. PresetRange(M, "YTD", YearOf[Max(M)]) # << >>
    BY <2>1 DEF PresetRange
  <2>3. DefaultRange(M) = PresetRange(M, "YTD", YearOf[Max(M)])
    BY <1>2 DEF DefaultRange
  <2> QED BY <2>2, <2>3, PresetOf
<1> QED BY <1>1, <1>2

-----------------------------------------------------------------------------
(***************************************************************************)
(* Pages are redrawn as they were: what drawing does to a session it does  *)
(* once.                                                                   *)
(***************************************************************************)
\* A route, or a page, with another way back.
WithBack(x, b) == [x EXCEPT !.back = b]

\* What apply_route makes of the page of a route, whatever its way back.
Known(r) ==
  [r EXCEPT !.view = IF @ \in Views THEN @ ELSE "Overview",
            !.result = IF @ \in Results THEN @ ELSE "All"]

\* A known route is taken over whole.
LEMMA RouteKnown ==
  ASSUME NEW r, IsRoute(r)
  PROVE  /\ IsRoute(Known(r)) /\ Known(r).back = r.back
         /\ Known(r).view \in Views /\ Known(r).result \in Results
         /\ r.view \in Views /\ r.result \in Results => Known(r) = r
<1> DEFINE v == IF r.view \in Views THEN r.view ELSE "Overview"
           e == IF r.result \in Results THEN r.result ELSE "All"
<1>1. PICK t : t = [r EXCEPT !.view = v, !.result = e]
  OBVIOUS
<1>2. Known(r) = t
  BY <1>1 DEF Known
<1>3. v \in Views /\ e \in Results
  BY DEF Views, Results
<1>4. r.view \in Views /\ r.result \in Results => v = r.view /\ e = r.result
  OBVIOUS
<1> HIDE DEF v, e
<1>5. t = [view |-> v, from |-> r.from, through |-> r.through, year |-> r.year,
           month |-> r.month, symbol |-> r.symbol, result |-> e, campaign |-> r.campaign,
           back |-> r.back]
  BY <1>1 DEF IsRoute
<1> QED BY <1>2, <1>3, <1>4, <1>5 DEF IsRoute

\* The way back of a route is kept or dropped.
LEMMA RouteApplied ==
  ASSUME NEW r, IsRoute(r)
  PROVE  /\ IsRoute(ApplyRoute(r)) /\ ApplyRoute(r).back \in {r.back, 0}
         /\ ApplyRoute(r).view \in Views /\ ApplyRoute(r).result \in Results
         /\ ApplyRoute(r) = WithBack(Known(r), IF LengthOf(r.back) > MaxLength THEN 0 ELSE r.back)
<1> DEFINE v == IF r.view \in Views THEN r.view ELSE "Overview"
           e == IF r.result \in Results THEN r.result ELSE "All"
           b == IF LengthOf(r.back) > MaxLength THEN 0 ELSE r.back
<1>1. PICK t : t = [r EXCEPT !.view = v, !.result = e, !.back = b]
  OBVIOUS
<1>2. PICK k : k = [r EXCEPT !.view = v, !.result = e]
  OBVIOUS
<1>3. ApplyRoute(r) = t /\ Known(r) = k
  BY <1>1, <1>2 DEF ApplyRoute, Known
<1>4. v \in Views /\ e \in Results /\ b \in {r.back, 0}
  BY DEF Views, Results
<1> HIDE DEF v, e
<1>5. b = IF LengthOf(r.back) > MaxLength THEN 0 ELSE r.back
  OBVIOUS
<1> HIDE DEF b
<1>6. t = [view |-> v, from |-> r.from, through |-> r.through, year |-> r.year,
           month |-> r.month, symbol |-> r.symbol, result |-> e, campaign |-> r.campaign,
           back |-> b]
  BY <1>1 DEF IsRoute
<1>7. k = [view |-> v, from |-> r.from, through |-> r.through, year |-> r.year,
           month |-> r.month, symbol |-> r.symbol, result |-> e, campaign |-> r.campaign,
           back |-> r.back]
  BY <1>2 DEF IsRoute
<1>8. t = WithBack(k, b)
  BY <1>6, <1>7 DEF WithBack
<1>9. IsRoute(t) /\ t.back = b /\ t.view = v /\ t.result = e
  BY <1>6 DEF IsRoute
<1> QED BY <1>3, <1>4, <1>5, <1>8, <1>9

\* The range of a drawn session is published, and drawing it again keeps it.
Ranged(f, s) ==
  /\ s.from \in Published(f) /\ s.through \in Published(f) /\ s.from <= s.through
  /\ s.year \in { YearOf[m] : m \in Published(f) }

LEMMA RangeKept ==
  ASSUME NEW f, NEW s, IsRoute(s), Ranged(f, s)
  PROVE  WithRange(f, s) = s
<1>1. ~(s.from > s.through)
  <2>1. s.from \in Int /\ s.through \in Int /\ s.from <= s.through
    BY MonthAssumption DEF Ranged, Published
  <2> QED BY <2>1
<1>2. PICK t : t = [s EXCEPT !.from = s.from, !.through = s.through, !.year = s.year]
  OBVIOUS
<1>3. t = s
  BY <1>2 DEF IsRoute
<1>4. WithRange(f, s) = t
  BY <1>1, <1>2 DEF WithRange, Ranged
<1> QED BY <1>3, <1>4

LEMMA RangeChosen ==
  ASSUME NEW f, NEW s, IsRoute(s), Published(f) # {}
  PROVE  /\ IsRoute(WithRange(f, s)) /\ Ranged(f, WithRange(f, s))
         /\ WithRange(f, s).view = s.view /\ WithRange(f, s).month = s.month
         /\ WithRange(f, s).symbol = s.symbol /\ WithRange(f, s).result = s.result
         /\ WithRange(f, s).campaign = s.campaign /\ WithRange(f, s).back = s.back
<1> DEFINE P == Published(f)
           default == DefaultRange(P)
           from == IF s.from \in P THEN s.from ELSE default[1]
           chosen == IF s.through \in P THEN s.through ELSE default[2]
           through == IF from > chosen THEN from ELSE chosen
           year == IF s.year \in { YearOf[m] : m \in P } THEN s.year ELSE YearOf[through]
<1>1. P \in SUBSET Months /\ P \in SUBSET Int
  BY MonthAssumption DEF Published
<1>2. default[1] \in P /\ default[2] \in P
  BY <1>1, DefaultOf
<1>3. from \in P /\ through \in P /\ from <= through
  BY <1>1, <1>2
<1>4. year \in { YearOf[m] : m \in P }
  BY <1>3
<1>5. PICK t : t = [s EXCEPT !.from = from, !.through = through, !.year = year]
  OBVIOUS
<1>6. WithRange(f, s) = t
  BY <1>5 DEF WithRange
<1> HIDE DEF P, default, from, chosen, through, year
<1>7. t = [view |-> s.view, from |-> from, through |-> through, year |-> year,
           month |-> s.month, symbol |-> s.symbol, result |-> s.result, campaign |-> s.campaign,
           back |-> s.back]
  BY <1>5 DEF IsRoute
<1>8. IsRoute(t)
  BY <1>7 DEF IsRoute
<1>9. Ranged(f, t)
  BY <1>3, <1>4, <1>7 DEF Ranged, P
<1> QED BY <1>6, <1>7, <1>8, <1>9

\* The months shown and the symbols on offer depend on the range alone.
SameRange(s, t) == s.from = t.from /\ s.through = t.through

LEMMA SameMonths ==
  ASSUME NEW f, NEW s, NEW t, SameRange(s, t)
  PROVE  Selected(f, s) = Selected(f, t) /\ Symbols(f, s) = Symbols(f, t)
<1>1. Selected(f, s) = Selected(f, t)
  BY DEF Selected, SameRange
<1> QED BY <1>1 DEF Symbols

\* The filters of a drawn session name what is on offer or nothing.
Filtered(f, s) ==
  /\ s.month \in Selected(f, s) \cup {NoMonth}
  /\ s.symbol \in Symbols(f, s) \cup {NoSymbol}

LEMMA FiltersKept ==
  ASSUME NEW f, NEW s, IsRoute(s), Filtered(f, s)
  PROVE  WithFilters(f, s) = s
<1>1. PICK t : t = [s EXCEPT !.month = s.month, !.symbol = s.symbol]
  OBVIOUS
<1>2. t = s
  BY <1>1 DEF IsRoute
<1>3. WithFilters(f, s) = t
  BY <1>1 DEF WithFilters, Filtered
<1> QED BY <1>2, <1>3

LEMMA FiltersChosen ==
  ASSUME NEW f, NEW s, IsRoute(s)
  PROVE  LET t == WithFilters(f, s)
         IN /\ IsRoute(t) /\ Filtered(f, t) /\ SameRange(s, t)
            /\ t.year = s.year /\ t.view = s.view /\ t.result = s.result
            /\ t.campaign = s.campaign /\ t.back = s.back
<1> DEFINE month == IF s.month \in Selected(f, s) THEN s.month ELSE NoMonth
           symbol == IF s.symbol \in Symbols(f, s) THEN s.symbol ELSE NoSymbol
<1>1. PICK t : t = [s EXCEPT !.month = month, !.symbol = symbol]
  OBVIOUS
<1>2. WithFilters(f, s) = t
  BY <1>1 DEF WithFilters
<1>3. month \in Selected(f, s) \cup {NoMonth} /\ symbol \in Symbols(f, s) \cup {NoSymbol}
  OBVIOUS
<1> HIDE DEF month, symbol
<1>4. t = [view |-> s.view, from |-> s.from, through |-> s.through, year |-> s.year,
           month |-> month, symbol |-> symbol, result |-> s.result, campaign |-> s.campaign,
           back |-> s.back]
  BY <1>1 DEF IsRoute
<1>5. IsRoute(t) /\ SameRange(s, t)
  BY <1>4 DEF IsRoute, SameRange
<1>6. Filtered(f, t)
  BY <1>3, <1>4, <1>5, SameMonths DEF Filtered
<1> QED BY <1>2, <1>4, <1>5, <1>6

\* The campaign shown is visible or none, and is shown again.
LEMMA CampaignKept ==
  ASSUME NEW f, NEW s, NEW t, IsRoute(s), t = [s EXCEPT !.campaign = Shown(f, s)]
  PROVE  /\ IsRoute(t) /\ SameRange(s, t) /\ t.year = s.year /\ t.view = s.view
         /\ t.month = s.month /\ t.symbol = s.symbol /\ t.result = s.result /\ t.back = s.back
         /\ CampaignsPage(f, t) = CampaignsPage(f, s)
<1> DEFINE c == Shown(f, s)
<1>1. c = s.campaign \/ c = NoCampaign
  BY DEF Shown
<1> HIDE DEF c
<1>2. t = [view |-> s.view, from |-> s.from, through |-> s.through, year |-> s.year,
           month |-> s.month, symbol |-> s.symbol, result |-> s.result, campaign |-> c,
           back |-> s.back]
  BY DEF IsRoute, c
<1>3. IsRoute(t) /\ SameRange(s, t) /\ t.campaign = c
  BY <1>2 DEF IsRoute, SameRange
<1>4. Selected(f, t) = Selected(f, s) /\ Symbols(f, t) = Symbols(f, s)
  BY <1>3, SameMonths
<1>5. VisibleRows(f, t) = VisibleRows(f, s)
  BY <1>2, <1>4 DEF VisibleRows
<1>6. Page(f, t) = Page(f, s)
  BY <1>2, <1>4 DEF Page
<1>7. Shown(f, t) = Shown(f, s)
  BY <1>1, <1>3, <1>5 DEF Shown, c
<1>8. CampaignsPage(f, t) = CampaignsPage(f, s)
  BY <1>4, <1>5, <1>6, <1>7 DEF CampaignsPage
<1> QED BY <1>2, <1>3, <1>8

\* A page is the page of the session and of the route its drawing leaves.
DrawnAs(f, s, page) == PageOf(f, Known(s)) = page

LEMMA DrawnFiles ==
  ASSUME NEW f, NEW s
  PROVE  /\ Page(f, s).files = f /\ SummaryPage(f, s).files = f /\ CampaignsPage(f, s).files = f
         /\ Page(f, s).back = s.back /\ SummaryPage(f, s).back = s.back
         /\ CampaignsPage(f, s).back = s.back
<1>1. PICK page : page = Page(f, s)
  OBVIOUS
<1>2. page = [view |-> s.view, offered |-> Published(f), months |-> Selected(f, s), rows |-> {},
              symbols |-> {}, links |-> {}, campaign |-> NoCampaign, back |-> s.back, files |-> f]
  BY <1>1 DEF Page, BlankScreen
<1>3. PICK links : SummaryPage(f, s) = [page EXCEPT !.links = links]
  BY <1>1 DEF SummaryPage
<1>4. PICK rows, symbols, shown :
        CampaignsPage(f, s) = [page EXCEPT !.rows = rows, !.symbols = symbols, !.campaign = shown]
  BY <1>1 DEF CampaignsPage
<1>5. SummaryPage(f, s).files = f /\ SummaryPage(f, s).back = s.back
  BY <1>2, <1>3
<1>6. PICK c : c = [page EXCEPT !.rows = rows, !.symbols = symbols, !.campaign = shown]
  OBVIOUS
<1>7. c.files = f /\ c.back = s.back
  BY <1>2, <1>6
<1> QED BY <1>1, <1>2, <1>4, <1>5, <1>6, <1>7

LEMMA DrawnMonths ==
  ASSUME NEW f, NEW s
  PROVE  /\ Page(f, s).months \subseteq Published(f) /\ SummaryPage(f, s).months \subseteq Published(f)
         /\ CampaignsPage(f, s).months \subseteq Published(f)
<1>1. PICK page : page = Page(f, s)
  OBVIOUS
<1>2. page = [view |-> s.view, offered |-> Published(f), months |-> Selected(f, s), rows |-> {},
              symbols |-> {}, links |-> {}, campaign |-> NoCampaign, back |-> s.back, files |-> f]
  BY <1>1 DEF Page, BlankScreen
<1>3. PICK links : SummaryPage(f, s) = [page EXCEPT !.links = links]
  BY <1>1 DEF SummaryPage
<1>4. PICK rows, symbols, shown :
        CampaignsPage(f, s) = [page EXCEPT !.rows = rows, !.symbols = symbols, !.campaign = shown]
  BY <1>1 DEF CampaignsPage
<1>5. SummaryPage(f, s).months = Selected(f, s)
  BY <1>2, <1>3
<1>6. PICK c : c = [page EXCEPT !.rows = rows, !.symbols = symbols, !.campaign = shown]
  OBVIOUS
<1>7. c.months = Selected(f, s)
  BY <1>2, <1>6
<1>8. Selected(f, s) \subseteq Published(f)
  BY DEF Selected
<1> QED BY <1>1, <1>2, <1>4, <1>5, <1>6, <1>7, <1>8

\* A page depends on the way back of its session in its button only.
LEMMA RangeOfBack ==
  ASSUME NEW f, NEW s, NEW b, IsRoute(s)
  PROVE  /\ WithRange(f, WithBack(s, b)) = WithBack(WithRange(f, s), b)
         /\ IsRoute(WithRange(f, s)) /\ WithRange(f, s).back = s.back
<1> DEFINE P == Published(f)
           default == DefaultRange(P)
           from == IF s.from \in P THEN s.from ELSE default[1]
           chosen == IF s.through \in P THEN s.through ELSE default[2]
           through == IF from > chosen THEN from ELSE chosen
           year == IF s.year \in { YearOf[m] : m \in P } THEN s.year ELSE YearOf[through]
<1>1. PICK t : t = WithBack(s, b)
  OBVIOUS
<1>2. /\ t = [view |-> s.view, from |-> s.from, through |-> s.through, year |-> s.year,
              month |-> s.month, symbol |-> s.symbol, result |-> s.result, campaign |-> s.campaign,
              back |-> b]
      /\ t.from = s.from /\ t.through = s.through /\ t.year = s.year
  BY <1>1 DEF IsRoute, WithBack
<1>3. /\ WithRange(f, s) = [s EXCEPT !.from = from, !.through = through, !.year = year]
      /\ WithRange(f, t) = [t EXCEPT !.from = from, !.through = through, !.year = year]
  BY <1>2 DEF WithRange
<1> HIDE DEF P, default, from, chosen, through, year
<1>4. PICK u : u = [t EXCEPT !.from = from, !.through = through, !.year = year]
  OBVIOUS
<1>5. PICK w : w = [s EXCEPT !.from = from, !.through = through, !.year = year]
  OBVIOUS
<1>6. u = [view |-> s.view, from |-> from, through |-> through, year |-> year,
           month |-> s.month, symbol |-> s.symbol, result |-> s.result, campaign |-> s.campaign,
           back |-> b]
  BY <1>2, <1>4
<1>7. w = [view |-> s.view, from |-> from, through |-> through, year |-> year,
           month |-> s.month, symbol |-> s.symbol, result |-> s.result, campaign |-> s.campaign,
           back |-> s.back]
  BY <1>5 DEF IsRoute
<1>8. u = WithBack(w, b) /\ IsRoute(w) /\ w.back = s.back
  BY <1>6, <1>7 DEF IsRoute, WithBack
<1> QED BY <1>1, <1>3, <1>4, <1>5, <1>8

LEMMA FiltersOfBack ==
  ASSUME NEW f, NEW s, NEW b, IsRoute(s)
  PROVE  /\ WithFilters(f, WithBack(s, b)) = WithBack(WithFilters(f, s), b)
         /\ IsRoute(WithFilters(f, s))
<1>1. PICK t : t = WithBack(s, b)
  OBVIOUS
<1>2. /\ t = [view |-> s.view, from |-> s.from, through |-> s.through, year |-> s.year,
              month |-> s.month, symbol |-> s.symbol, result |-> s.result, campaign |-> s.campaign,
              back |-> b]
      /\ t.from = s.from /\ t.through = s.through /\ t.month = s.month /\ t.symbol = s.symbol
  BY <1>1 DEF IsRoute, WithBack
<1>3. Selected(f, t) = Selected(f, s) /\ Symbols(f, t) = Symbols(f, s)
  BY <1>2, SameMonths DEF SameRange
<1>4. PICK month, symbol :
        /\ WithFilters(f, s) = [s EXCEPT !.month = month, !.symbol = symbol]
        /\ WithFilters(f, t) = [t EXCEPT !.month = month, !.symbol = symbol]
  BY <1>2, <1>3 DEF WithFilters
<1>5. PICK u : u = [t EXCEPT !.month = month, !.symbol = symbol]
  OBVIOUS
<1>6. PICK w : w = [s EXCEPT !.month = month, !.symbol = symbol]
  OBVIOUS
<1>7. u = [view |-> s.view, from |-> s.from, through |-> s.through, year |-> s.year,
           month |-> month, symbol |-> symbol, result |-> s.result, campaign |-> s.campaign,
           back |-> b]
  BY <1>2, <1>5
<1>8. w = [view |-> s.view, from |-> s.from, through |-> s.through, year |-> s.year,
           month |-> month, symbol |-> symbol, result |-> s.result, campaign |-> s.campaign,
           back |-> s.back]
  BY <1>6 DEF IsRoute
<1>9. u = WithBack(w, b) /\ IsRoute(w)
  BY <1>7, <1>8 DEF IsRoute, WithBack
<1> QED BY <1>1, <1>4, <1>5, <1>6, <1>9

\* The three pages of a session and of the session with another way back.
LEMMA PagesOfBack ==
  ASSUME NEW f, NEW s, NEW b, NEW t, IsRoute(s), t = WithBack(s, b)
  PROVE  /\ Selected(f, t) = Selected(f, s) /\ t.view = s.view
         /\ Page(f, t) = WithBack(Page(f, s), b)
         /\ SummaryPage(f, t) = WithBack(SummaryPage(f, s), b)
         /\ CampaignsPage(f, t) = WithBack(CampaignsPage(f, s), b)
<1>1. t = [view |-> s.view, from |-> s.from, through |-> s.through, year |-> s.year,
           month |-> s.month, symbol |-> s.symbol, result |-> s.result, campaign |-> s.campaign,
           back |-> b]
  BY DEF IsRoute, WithBack
<1>2. /\ t.from = s.from /\ t.through = s.through /\ t.view = s.view /\ t.back = b
      /\ t.symbol = s.symbol /\ t.result = s.result /\ t.month = s.month /\ t.campaign = s.campaign
  BY <1>1
<1>3. Selected(f, t) = Selected(f, s) /\ Symbols(f, t) = Symbols(f, s)
  BY <1>2, SameMonths DEF SameRange
<1>4. VisibleRows(f, t) = VisibleRows(f, s)
  BY <1>2, <1>3 DEF VisibleRows
<1>5. Shown(f, t) = Shown(f, s)
  BY <1>2, <1>4 DEF Shown
<1>6. PICK page, other : page = Page(f, s) /\ other = Page(f, t)
  OBVIOUS
<1>7. /\ page = [view |-> s.view, offered |-> Published(f), months |-> Selected(f, s), rows |-> {},
                 symbols |-> {}, links |-> {}, campaign |-> NoCampaign, back |-> s.back, files |-> f]
      /\ other = [view |-> s.view, offered |-> Published(f), months |-> Selected(f, s), rows |-> {},
                  symbols |-> {}, links |-> {}, campaign |-> NoCampaign, back |-> b, files |-> f]
  BY <1>2, <1>3, <1>6 DEF Page, BlankScreen
<1>8. other = WithBack(page, b)
  BY <1>7 DEF WithBack
<1>9. SummaryPage(f, t) = WithBack(SummaryPage(f, s), b)
  <2> DEFINE links == IF s.view = "Performance"
                      THEN Concentration(Realized(f, Selected(f, s))) ELSE {}
  <2>1. /\ SummaryPage(f, s) = [page EXCEPT !.links = links]
        /\ SummaryPage(f, t) = [other EXCEPT !.links = links]
    BY <1>2, <1>3, <1>6 DEF SummaryPage
  <2> HIDE DEF links
  <2>2. PICK x, y : x = [page EXCEPT !.links = links] /\ y = [other EXCEPT !.links = links]
    OBVIOUS
  <2>3. /\ x = [view |-> s.view, offered |-> Published(f), months |-> Selected(f, s), rows |-> {},
                symbols |-> {}, links |-> links, campaign |-> NoCampaign, back |-> s.back, files |-> f]
        /\ y = [view |-> s.view, offered |-> Published(f), months |-> Selected(f, s), rows |-> {},
                symbols |-> {}, links |-> links, campaign |-> NoCampaign, back |-> b, files |-> f]
    BY <1>7, <2>2
  <2>4. y = WithBack(x, b)
    BY <2>3 DEF WithBack
  <2> QED BY <2>1, <2>2, <2>4
<1>10. CampaignsPage(f, t) = WithBack(CampaignsPage(f, s), b)
  <2> DEFINE rows == VisibleRows(f, s)
             symbols == Symbols(f, s)
             shown == Shown(f, s)
  <2>1. /\ CampaignsPage(f, s) = [page EXCEPT !.rows = rows, !.symbols = symbols, !.campaign = shown]
        /\ CampaignsPage(f, t) = [other EXCEPT !.rows = rows, !.symbols = symbols, !.campaign = shown]
    BY <1>3, <1>4, <1>5, <1>6 DEF CampaignsPage
  <2> HIDE DEF rows, symbols, shown
  <2>2. PICK x, y : /\ x = [page EXCEPT !.rows = rows, !.symbols = symbols, !.campaign = shown]
                    /\ y = [other EXCEPT !.rows = rows, !.symbols = symbols, !.campaign = shown]
    OBVIOUS
  <2>3. /\ x = [view |-> s.view, offered |-> Published(f), months |-> Selected(f, s), rows |-> rows,
                symbols |-> symbols, links |-> {}, campaign |-> shown, back |-> s.back, files |-> f]
        /\ y = [view |-> s.view, offered |-> Published(f), months |-> Selected(f, s), rows |-> rows,
                symbols |-> symbols, links |-> {}, campaign |-> shown, back |-> b, files |-> f]
    BY <1>7, <2>2
  <2>4. y = WithBack(x, b)
    BY <2>3 DEF WithBack
  <2> QED BY <2>1, <2>2, <2>4
<1> QED BY <1>2, <1>3, <1>6, <1>8, <1>9, <1>10

LEMMA PageOfBack ==
  ASSUME NEW f, NEW s, NEW b, IsRoute(s)
  PROVE  /\ PageOf(f, WithBack(s, b)) = WithBack(PageOf(f, s), b)
         /\ PageOf(f, s).back = s.back
<1>1. PICK t, u, w : t = WithBack(s, b) /\ u = WithRange(f, s) /\ w = WithRange(f, t)
  OBVIOUS
<1>2. w = WithBack(u, b)
  BY <1>1, RangeOfBack
<1>3. IsRoute(u) /\ u.back = s.back
  BY <1>1, RangeOfBack
<1>4. /\ Selected(f, w) = Selected(f, u) /\ w.view = u.view
      /\ Page(f, w) = WithBack(Page(f, u), b)
      /\ SummaryPage(f, w) = WithBack(SummaryPage(f, u), b)
  BY <1>2, <1>3, PagesOfBack
<1>5. PICK v : v = WithFilters(f, u)
  OBVIOUS
<1>6. IsRoute(v) /\ WithFilters(f, w) = WithBack(v, b)
  BY <1>2, <1>3, <1>5, FiltersOfBack
<1>7. CampaignsPage(f, WithFilters(f, w)) = WithBack(CampaignsPage(f, v), b)
  BY <1>6, PagesOfBack
<1>8. PageOf(f, t) = WithBack(PageOf(f, s), b)
  BY <1>1, <1>4, <1>5, <1>7 DEF PageOf
<1>9. v.back = u.back
  BY <1>3, <1>5, FiltersChosen
<1>10. PageOf(f, s).back = s.back
  BY <1>1, <1>3, <1>5, <1>9, DrawnFiles DEF PageOf
<1> QED BY <1>1, <1>8, <1>10

\* Drawing leaves a session and a route that are drawn as the same page.
LEMMA DrawnAgain ==
  ASSUME IsRoute(session), session.view \in Views, session.result \in Results, Draw
  PROVE  /\ screen'.files = files /\ screen'.back = session.back
         /\ DrawnAs(files, session', screen') /\ DrawnAs(files, url', screen')
         /\ \E u : /\ IsRoute(u) /\ u.back = session.back
                  /\ url' = u /\ visited' = visited \cup {u}
         /\ IsRoute(session') /\ session'.back = session.back
         /\ session'.view \in Views /\ session'.result \in Results
<1>1. PICK s : s = WithRange(files, session)
  OBVIOUS
<1>2. IsRoute(s) /\ Ranged(files, s) /\ s.view = session.view /\ s.result = session.result
      /\ s.back = session.back
  BY <1>1, RangeChosen DEF Draw
<1>3. Known(s) = s /\ WithRange(files, s) = s
  BY <1>2, RouteKnown, RangeKept
<1>4. CASE s.view # "Campaigns"
  <2>1. WithFilters(files, s).view # "Campaigns"
    BY <1>2, <1>4, FiltersChosen
  <2>2. Publishes(s) /\ screen' = SummaryPage(files, s)
    BY <1>1, <1>4, <2>1 DEF Draw, DrawSummary, DrawNoCampaigns, DrawCampaigns
  <2>3. DrawnAs(files, s, screen')
    BY <1>3, <1>4, <2>2 DEF DrawnAs, PageOf
  <2> QED BY <1>2, <2>2, <2>3, DrawnFiles DEF Publishes
<1>5. CASE s.view = "Campaigns" /\ AllRows(files, Selected(files, s)) = {}
  <2>1. s.view = WithFilters(files, s).view
        /\ Selected(files, s) = Selected(files, WithFilters(files, s))
    BY <1>2, FiltersChosen, SameMonths
  <2>2. Publishes(s) /\ screen' = Page(files, s)
    BY <1>1, <1>5, <2>1 DEF Draw, DrawSummary, DrawNoCampaigns, DrawCampaigns
  <2>3. DrawnAs(files, s, screen')
    BY <1>3, <1>5, <2>2 DEF DrawnAs, PageOf
  <2> QED BY <1>2, <2>2, <2>3, DrawnFiles DEF Publishes
<1>6. CASE s.view = "Campaigns" /\ AllRows(files, Selected(files, s)) # {}
  <2>1. PICK u : u = WithFilters(files, s)
    OBVIOUS
  <2>2. IsRoute(u) /\ Filtered(files, u) /\ SameRange(s, u) /\ u.year = s.year
        /\ u.view = s.view /\ u.result = s.result /\ u.back = s.back
    BY <1>2, <2>1, FiltersChosen
  <2>3. Selected(files, u) = Selected(files, s)
    BY <2>2, SameMonths
  <2>4. session' = [u EXCEPT !.campaign = Shown(files, u)] /\ url' = u
        /\ visited' = visited \cup {u} /\ screen' = CampaignsPage(files, u)
    BY <1>1, <1>2, <1>6, <2>1, <2>2, <2>3 DEF Draw, DrawSummary, DrawNoCampaigns, DrawCampaigns
  <2>5. PICK t : t = [u EXCEPT !.campaign = Shown(files, u)]
    OBVIOUS
  <2>6. /\ IsRoute(t) /\ SameRange(u, t) /\ t.year = u.year /\ t.view = u.view
        /\ t.month = u.month /\ t.symbol = u.symbol /\ t.result = u.result /\ t.back = u.back
        /\ CampaignsPage(files, t) = CampaignsPage(files, u)
    BY <2>2, <2>5, CampaignKept
  <2>7. Selected(files, t) = Selected(files, u) /\ Symbols(files, t) = Symbols(files, u)
    BY <2>6, SameMonths
  <2>8. Ranged(files, u) /\ Ranged(files, t) /\ Filtered(files, t)
    BY <1>2, <2>2, <2>6, <2>7 DEF Ranged, SameRange, Filtered
  <2>9. Known(u) = u /\ WithRange(files, u) = u /\ WithFilters(files, u) = u
    BY <1>2, <2>2, <2>8, RouteKnown, RangeKept, FiltersKept
  <2>10. Known(t) = t /\ WithRange(files, t) = t /\ WithFilters(files, t) = t
    BY <1>2, <2>2, <2>6, <2>8, RouteKnown, RangeKept, FiltersKept
  <2>11. DrawnAs(files, u, screen')
    BY <1>6, <2>2, <2>3, <2>4, <2>9 DEF DrawnAs, PageOf
  <2>12. DrawnAs(files, t, screen')
    BY <1>6, <2>2, <2>3, <2>4, <2>6, <2>7, <2>10 DEF DrawnAs, PageOf
  <2>13. screen'.files = files /\ screen'.back = session.back
    BY <1>2, <2>2, <2>4, DrawnFiles
  <2> QED BY <1>2, <2>2, <2>4, <2>5, <2>6, <2>11, <2>12, <2>13
<1> QED BY <1>4, <1>5, <1>6

-----------------------------------------------------------------------------
(***************************************************************************)
(* The ways back of a session.                                             *)
(***************************************************************************)
\* Everywhere the tab may be sent: its session, its address, the addresses of
\* the browser and the ways back.
Held == {session, url} \cup visited \cup { trail[i].route : i \in DOMAIN trail }

IsTrail == \E S : trail \in Seq(S)

\* Every way back leads to a page left earlier.
SessionInv ==
  /\ IsTrail
  /\ files = [m \in Months |-> files[m]]
  /\ session.view \in Views /\ session.result \in Results
  /\ \A r \in Held : IsRoute(r) /\ r.back \in 0..Len(trail)
  /\ screen.back \in 0..Len(trail)

\* The page drawn last is the page of the session and of the address, under the
\* files it was drawn from.
ScreenInv ==
  drawn => DrawnAs(screen.files, session, screen) /\ DrawnAs(screen.files, url, screen)

\* A way back leads to the page that was left, under the files it was drawn from.
TrailInv ==
  \A i \in DOMAIN trail :
    \/ trail[i].left = BlankScreen
    \/ DrawnAs(trail[i].left.files, trail[i].route, trail[i].left)

BackInv == SessionInv /\ ScreenInv /\ TrailInv

LEMMA InitBack == Init => BackInv
<1> SUFFICES ASSUME Init PROVE BackInv
  OBVIOUS
<1>1. PICK start \in Starts : files = start.files /\ url = start.url
  BY DEF Init
<1>2. IsRoute(url) /\ url.back = 0 /\ files = [m \in Months |-> files[m]]
  BY <1>1, StartAssumption
<1>3. IsRoute(session) /\ session.back = 0 /\ session.view \in Views /\ session.result \in Results
  BY <1>2, RouteApplied DEF Init
<1>4. trail = << >> /\ trail \in Seq({}) /\ Len(trail) = 0 /\ DOMAIN trail = {}
  BY DEF Init
<1>5. screen.back = 0
  BY DEF Init, BlankScreen
<1>6. Held = {session, url}
  BY <1>4 DEF Held, Init
<1>7. SessionInv
  BY <1>2, <1>3, <1>4, <1>5, <1>6 DEF SessionInv, IsTrail
<1> QED BY <1>4, <1>7 DEF BackInv, ScreenInv, TrailInv, Init

\* A click leaves the trail or keeps a way back that leads to the page drawn.
KeepsTrail == UNCHANGED trail \/ Keep(session) \/ Keep(url)

LEMMA TrailGrows ==
  ASSUME BackInv, KeepsTrail
  PROVE  /\ IsTrail' /\ TrailInv' /\ Len(trail') \in {Len(trail), Len(trail) + 1}
         /\ Len(trail) \in Nat
         /\ Keep(session) \/ Keep(url) => Len(trail') = Len(trail) + 1
         /\ { trail'[i].route : i \in DOMAIN trail' } \subseteq Held
<1>1. PICK S : trail \in Seq(S)
  BY DEF BackInv, SessionInv, IsTrail
<1>2. Len(trail) \in Nat /\ DOMAIN trail = 1..Len(trail)
  BY <1>1
<1>3. ASSUME UNCHANGED trail
      PROVE  /\ IsTrail' /\ TrailInv' /\ Len(trail') = Len(trail)
             /\ { trail'[i].route : i \in DOMAIN trail' } \subseteq Held
  <2>1. IsTrail' /\ TrailInv' /\ Len(trail') = Len(trail)
    BY <1>1, <1>3 DEF IsTrail, TrailInv, BackInv
  <2> QED BY <1>3, <2>1 DEF Held
<1>4. ASSUME NEW r \in {session, url}, Keep(r)
      PROVE  /\ IsTrail' /\ TrailInv' /\ Len(trail') = Len(trail) + 1
             /\ { trail'[i].route : i \in DOMAIN trail' } \subseteq Held
  <2>1. PICK entry :
          /\ trail' = Append(trail, entry)
          /\ entry.route = r /\ entry.left = IF drawn THEN screen ELSE BlankScreen
    BY <1>4 DEF Keep
  <2>2. trail' = Append(trail, entry)
    BY <2>1
  <2>3. trail \in Seq(S \cup {entry}) /\ entry \in S \cup {entry}
    BY <1>1
  <2>4. trail' \in Seq(S \cup {entry}) /\ Len(trail') = Len(trail) + 1
        /\ trail'[Len(trail) + 1] = entry /\ \A i \in 1..Len(trail) : trail'[i] = trail[i]
    BY <2>2, <2>3
  <2>5. DOMAIN trail' = 1..(Len(trail) + 1)
    BY <2>4
  <2>6. entry.left = BlankScreen \/ DrawnAs(entry.left.files, entry.route, entry.left)
    BY <1>4, <2>1 DEF BackInv, ScreenInv
  <2>7. ASSUME NEW i \in DOMAIN trail'
        PROVE  /\ \/ trail'[i].left = BlankScreen
                  \/ DrawnAs(trail'[i].left.files, trail'[i].route, trail'[i].left)
               /\ trail'[i].route \in Held
    <3>1. CASE i = Len(trail) + 1
      BY <1>4, <2>1, <2>4, <2>6, <3>1 DEF Held
    <3>2. CASE i \in 1..Len(trail)
      <4>1. trail'[i] = trail[i] /\ i \in DOMAIN trail
        BY <1>2, <2>4, <3>2
      <4> QED BY <4>1 DEF BackInv, TrailInv, Held
    <3> QED BY <1>2, <2>5, <3>1, <3>2
  <2>8. TrailInv'
    BY <2>7 DEF TrailInv
  <2> QED BY <2>4, <2>7, <2>8 DEF IsTrail
<1> QED BY <1>2, <1>3, <1>4 DEF KeepsTrail

\* A click that moves the tab to a route that fits the trail.
LEMMA Moved ==
  ASSUME BackInv, Click, KeepsTrail,
         IsRoute(session'), session'.back \in 0..Len(trail'),
         session'.view \in Views, session'.result \in Results,
         url' \in Held \cup {session'}, visited' \subseteq Held \cup {session'}
  PROVE  BackInv'
<1>1. /\ IsTrail' /\ TrailInv' /\ Len(trail) \in Nat /\ Len(trail') \in {Len(trail), Len(trail) + 1}
      /\ { trail'[i].route : i \in DOMAIN trail' } \subseteq Held
  BY TrailGrows
<1>2. 0..Len(trail) \subseteq 0..Len(trail')
  BY <1>1
<1>3. Held' \subseteq Held \cup {session'}
  BY <1>1 DEF Held
<1>4. \A r \in Held' : IsRoute(r) /\ r.back \in 0..Len(trail')
  BY <1>2, <1>3 DEF BackInv, SessionInv
<1>5. files' = files /\ screen' = screen /\ drawn' = FALSE
  BY DEF Click
<1>6. screen'.back \in 0..Len(trail')
  BY <1>2, <1>5 DEF BackInv, SessionInv
<1>7. SessionInv'
  BY <1>1, <1>4, <1>5, <1>6 DEF BackInv, SessionInv
<1> QED BY <1>1, <1>5, <1>7 DEF BackInv, ScreenInv

\* What is held is a route that fits the trail; so is what replaces its fields.
LEMMA HeldRoutes ==
  ASSUME BackInv
  PROVE  /\ IsRoute(session) /\ session.back \in 0..Len(trail)
         /\ IsRoute(url) /\ url.back \in 0..Len(trail) /\ Len(trail) \in Nat
         /\ session.view \in Views /\ session.result \in Results
  BY DEF BackInv, SessionInv, Held, IsTrail

LEMMA PublishesRoute ==
  ASSUME BackInv, Click, KeepsTrail, NEW s, Publishes(s), IsRoute(s), s.back \in 0..Len(trail'),
         s.view \in Views, s.result \in Results
  PROVE  BackInv'
<1>1. session' = s /\ url' \in Held \cup {session'} /\ visited' \subseteq Held \cup {session'}
  BY DEF Publishes, Held
<1> QED BY <1>1, Moved

\* The same for a click that keeps a way back and points the new route at it.
LEMMA PublishesReturn ==
  ASSUME BackInv, Click, Keep(session) \/ Keep(url), NEW s, Publishes(Returning(s)), IsRoute(s),
         s.view \in Views, s.result \in Results
  PROVE  BackInv'
<1>1. PICK t : t = [s EXCEPT !.back = Len(trail) + 1]
  OBVIOUS
<1>2. IsRoute(t) /\ t.back = Len(trail) + 1 /\ t.view = s.view /\ t.result = s.result
  BY <1>1 DEF IsRoute
<1>3. KeepsTrail /\ Len(trail') = Len(trail) + 1 /\ Len(trail) \in Nat
  BY TrailGrows DEF KeepsTrail
<1>4. Publishes(t) /\ t.back \in 0..Len(trail')
  BY <1>1, <1>2, <1>3 DEF Returning
<1> QED BY <1>2, <1>3, <1>4, PublishesRoute

LEMMA BackChooseView == ASSUME BackInv, NEW v \in Views, ChooseView(v) PROVE BackInv'
<1>1. PICK s : s = [session EXCEPT !.view = v]
  OBVIOUS
<1>2. IsRoute(s) /\ s.view = v /\ s.result = session.result /\ s.back = session.back
  BY <1>1, HeldRoutes DEF IsRoute
<1>3. Click /\ IF url.view \in Views \ {v} THEN Keep(url) /\ Publishes(Returning(s))
               ELSE Publishes(s) /\ UNCHANGED trail
  BY <1>1 DEF ChooseView
<1>4. CASE url.view \in Views \ {v}
  BY <1>2, <1>3, <1>4, HeldRoutes, PublishesReturn
<1>5. CASE url.view \notin Views \ {v}
  <2>1. KeepsTrail /\ Publishes(s) /\ s.back \in 0..Len(trail')
    BY <1>2, <1>3, <1>5, HeldRoutes DEF KeepsTrail
  <2> QED BY <1>2, <1>3, <2>1, HeldRoutes, PublishesRoute
<1> QED BY <1>4, <1>5

\* A click that leaves the trail, the page and the result looked at alone.
Turned(s) ==
  /\ IsRoute(s) /\ s.view = session.view /\ s.back = session.back /\ s.result \in Results

LEMMA PublishesTurned ==
  ASSUME BackInv, Click, UNCHANGED trail, NEW s, Publishes(s), Turned(s)
  PROVE  BackInv'
<1>1. KeepsTrail /\ s.back \in 0..Len(trail') /\ s.view \in Views
  BY HeldRoutes DEF Turned, KeepsTrail
<1> QED BY <1>1, PublishesRoute DEF Turned

LEMMA AfterRangeTurned ==
  ASSUME BackInv, Click, UNCHANGED trail, NEW s, AfterRange(s), Turned(s)
  PROVE  BackInv'
<1>1. PICK t : t = [s EXCEPT !.month = NoMonth, !.campaign = NoCampaign]
  OBVIOUS
<1>2. Turned(t)
  BY <1>1 DEF Turned, IsRoute
<1>3. Publishes(t)
  BY <1>1 DEF AfterRange
<1> QED BY <1>2, <1>3, PublishesTurned

LEMMA RangeTurned ==
  ASSUME BackInv, Click, UNCHANGED trail, NEW from, NEW through,
         AfterRange([session EXCEPT !.from = from, !.through = through])
  PROVE  BackInv'
<1>1. PICK s : s = [session EXCEPT !.from = from, !.through = through]
  OBVIOUS
<1>2. Turned(s)
  BY <1>1, HeldRoutes DEF Turned, IsRoute
<1> QED BY <1>1, <1>2, AfterRangeTurned

LEMMA BackChooseRange == ASSUME BackInv, ChooseRange PROVE BackInv'
<1>1. ASSUME NEW m, ChooseFrom(m) PROVE BackInv'
  <2> DEFINE through == IF m > session.through THEN m ELSE session.through
  <2>1. /\ Click /\ UNCHANGED trail
        /\ AfterRange([session EXCEPT !.from = m, !.through = through])
    BY <1>1 DEF ChooseFrom
  <2> HIDE DEF through
  <2> QED BY <2>1, RangeTurned
<1>2. ASSUME NEW m, ChooseThrough(m) PROVE BackInv'
  <2> DEFINE from == IF session.from > m THEN m ELSE session.from
  <2>1. PICK s : s = [session EXCEPT !.through = m, !.from = from]
    OBVIOUS
  <2>2. Click /\ UNCHANGED trail /\ AfterRange(s)
    BY <1>2, <2>1 DEF ChooseThrough
  <2>3. Turned(s)
    <3> HIDE DEF from
    <3> QED BY <2>1, HeldRoutes DEF Turned, IsRoute
  <2> QED BY <2>2, <2>3, AfterRangeTurned
<1>3. ASSUME NEW y, ChooseYear(y) PROVE BackInv'
  <2>1. session' = [session EXCEPT !.year = y] /\ Click /\ UNCHANGED << url, visited, trail >>
    BY <1>3 DEF ChooseYear
  <2>2. PICK s : s = [session EXCEPT !.year = y]
    OBVIOUS
  <2>3. IsRoute(s) /\ s.view = session.view /\ s.back = session.back /\ s.result = session.result
    BY <2>2, HeldRoutes DEF IsRoute
  <2>4. session' = s /\ KeepsTrail
    BY <2>1, <2>2 DEF KeepsTrail
  <2>5. url' \in Held \cup {session'} /\ visited' \subseteq Held \cup {session'}
    BY <2>1 DEF Held
  <2> QED BY <2>1, <2>3, <2>4, <2>5, HeldRoutes, Moved
<1>4. ASSUME NEW preset, Shortcut(preset) PROVE BackInv'
  <2>1. PICK from, through :
          AfterRange([session EXCEPT !.from = from, !.through = through])
    BY <1>4 DEF Shortcut
  <2> QED BY <1>4, <2>1, RangeTurned DEF Shortcut
<1> QED BY <1>1, <1>2, <1>3, <1>4 DEF ChooseRange

LEMMA FilterTurned ==
  ASSUME BackInv, NEW s, ChooseFilter(s), Turned(s)
  PROVE  BackInv'
<1>1. PICK t : t = [s EXCEPT !.campaign = NoCampaign]
  OBVIOUS
<1>2. Turned(t) /\ Publishes(t) /\ Click /\ UNCHANGED trail
  BY <1>1 DEF Turned, IsRoute, ChooseFilter
<1> QED BY <1>2, PublishesTurned

LEMMA BackChooseFilters == ASSUME BackInv, ChooseFilters PROVE BackInv'
<1>1. ASSUME NEW m, FilterMonth(m) PROVE BackInv'
  <2>1. PICK s : s = [session EXCEPT !.month = m]
    OBVIOUS
  <2>2. Turned(s) /\ ChooseFilter(s)
    BY <1>1, <2>1, HeldRoutes DEF FilterMonth, Turned, IsRoute
  <2> QED BY <2>2, FilterTurned
<1>2. ASSUME NEW result \in Results, FilterResult(result) PROVE BackInv'
  <2>1. PICK s : s = [session EXCEPT !.result = result]
    OBVIOUS
  <2>2. Turned(s) /\ ChooseFilter(s)
    BY <1>2, <2>1, HeldRoutes DEF FilterResult, Turned, IsRoute
  <2> QED BY <2>2, FilterTurned
<1>3. ASSUME NEW symbol, FilterSymbol(symbol) PROVE BackInv'
  <2>1. PICK s : s = [session EXCEPT !.symbol = symbol]
    OBVIOUS
  <2>2. Turned(s) /\ ChooseFilter(s)
    BY <1>3, <2>1, HeldRoutes DEF FilterSymbol, Turned, IsRoute
  <2> QED BY <2>2, FilterTurned
<1> QED BY <1>1, <1>2, <1>3 DEF ChooseFilters

LEMMA BackOpen == ASSUME BackInv, Open PROVE BackInv'
<1> USE HeldRoutes
<1>1. ASSUME NEW m, OpenMonth(m) PROVE BackInv'
  <2>1. PICK s : s = [session EXCEPT !.view = "Campaigns", !.month = m, !.symbol = NoSymbol,
                                     !.result = "All", !.campaign = NoCampaign]
    OBVIOUS
  <2>2. IsRoute(s) /\ s.view \in Views /\ s.result \in Results
    BY <2>1 DEF IsRoute, Views, Results
  <2>3. Click /\ Keep(session) /\ Publishes(Returning(s))
    BY <1>1, <2>1 DEF OpenMonth
  <2> QED BY <2>2, <2>3, PublishesReturn
<1>2. ASSUME NEW link, OpenConcentrated(link) PROVE BackInv'
  <2>1. PICK s : s = [session EXCEPT !.view = "Campaigns", !.month = NoMonth,
                        !.symbol = link.key.symbol, !.result = "All", !.campaign = link.opens]
    OBVIOUS
  <2>2. IsRoute(s) /\ s.view \in Views /\ s.result \in Results
    BY <2>1 DEF IsRoute, Views, Results
  <2>3. Click /\ Keep(session) /\ Publishes(Returning(s))
    BY <1>2, <2>1 DEF OpenConcentrated
  <2> QED BY <2>2, <2>3, PublishesReturn
<1>3. ASSUME NEW name, OpenCampaign(name) PROVE BackInv'
  <2>1. CASE name # session.campaign
    <3>1. PICK s : s = [session EXCEPT !.campaign = name]
      OBVIOUS
    <3>2. IsRoute(s) /\ s.view \in Views /\ s.result \in Results
      BY <3>1 DEF IsRoute
    <3>3. Click /\ Keep(session) /\ Publishes(Returning(s))
      BY <1>3, <2>1, <3>1 DEF OpenCampaign
    <3> QED BY <3>2, <3>3, PublishesReturn
  <2>2. CASE name = session.campaign
    BY <1>3, <2>2, PublishesTurned DEF OpenCampaign, Turned
  <2> QED BY <2>1, <2>2
<1> QED BY <1>1, <1>2, <1>3 DEF Open

LEMMA BackCloseCampaign == ASSUME BackInv, CloseCampaign PROVE BackInv'
<1>1. PICK s : s = [session EXCEPT !.campaign = NoCampaign]
  OBVIOUS
<1>2. Turned(s)
  BY <1>1, HeldRoutes DEF Turned, IsRoute
<1>3. Publishes(s) /\ Click /\ UNCHANGED trail
  BY <1>1 DEF CloseCampaign
<1> QED BY <1>2, <1>3, PublishesTurned

LEMMA BackGoBack == ASSUME BackInv, GoBack PROVE BackInv'
<1>1. Len(trail) \in Nat /\ DOMAIN trail = 1..Len(trail) /\ screen.back \in 1..Len(trail)
  BY DEF BackInv, SessionInv, IsTrail, GoBack
<1>2. PICK r : r = trail[screen.back].route
  OBVIOUS
<1>3. IsRoute(r) /\ r.back \in 0..Len(trail)
  BY <1>1, <1>2 DEF BackInv, SessionInv, Held
<1>4. Click /\ KeepsTrail /\ Publishes(ApplyRoute(r)) /\ Len(trail') = Len(trail)
  BY <1>2 DEF GoBack, KeepsTrail
<1> QED BY <1>3, <1>4, RouteApplied, PublishesRoute

LEMMA BackBrowserTo == ASSUME BackInv, NEW r \in visited, BrowserTo(r) PROVE BackInv'
<1>1. IsRoute(r) /\ r.back \in 0..Len(trail) /\ r \in Held
  BY DEF BackInv, SessionInv, Held
<1>2. /\ Click /\ KeepsTrail /\ Len(trail') = Len(trail)
      /\ session' = ApplyRoute(r) /\ url' = r /\ visited' = visited
  BY DEF BrowserTo, KeepsTrail
<1>3. visited' \subseteq Held
  BY <1>2 DEF Held
<1> QED BY <1>1, <1>2, <1>3, RouteApplied, Moved

LEMMA BackDraw == ASSUME BackInv, Draw PROVE BackInv'
<1>1. /\ screen'.files = files /\ screen'.back = session.back
      /\ DrawnAs(files, session', screen') /\ DrawnAs(files, url', screen')
      /\ \E u : IsRoute(u) /\ u.back = session.back /\ url' = u /\ visited' = visited \cup {u}
      /\ IsRoute(session') /\ session'.back = session.back
      /\ session'.view \in Views /\ session'.result \in Results
  BY HeldRoutes, DrawnAgain
<1>2. files' = files /\ trail' = trail
  BY DEF Draw
<1>3. PICK u : IsRoute(u) /\ u.back = session.back /\ url' = u /\ visited' = visited \cup {u}
  BY <1>1
<1>4. Held' \subseteq Held \cup {session', u}
  BY <1>2, <1>3 DEF Held
<1>5. \A r \in Held' : IsRoute(r) /\ r.back \in 0..Len(trail')
  BY <1>1, <1>2, <1>3, <1>4, HeldRoutes DEF BackInv, SessionInv
<1>6. SessionInv'
  BY <1>1, <1>2, <1>5, HeldRoutes DEF BackInv, SessionInv, IsTrail
<1>7. ScreenInv'
  BY <1>1 DEF ScreenInv
<1>8. TrailInv'
  BY <1>2 DEF BackInv, TrailInv
<1> QED BY <1>6, <1>7, <1>8 DEF BackInv

LEMMA BackPublish == ASSUME BackInv, NEW m \in Months, Publish(m) PROVE BackInv'
<1>1. /\ UNCHANGED << session, url, visited, trail, screen, drawn >>
      /\ \E file : files' = [files EXCEPT ![m] = file]
  BY DEF Publish
<1>2. files' = [n \in Months |-> files'[n]]
  BY <1>1 DEF BackInv, SessionInv
<1>3. Held' = Held
  BY <1>1 DEF Held
<1>4. SessionInv'
  BY <1>1, <1>2, <1>3 DEF BackInv, SessionInv, IsTrail
<1>5. ScreenInv' /\ TrailInv'
  BY <1>1 DEF BackInv, ScreenInv, TrailInv
<1> QED BY <1>4, <1>5 DEF BackInv

LEMMA BackStep == BackInv /\ [Next]_vars => BackInv'
<1> SUFFICES ASSUME BackInv, [Next]_vars PROVE BackInv'
  OBVIOUS
<1>1. CASE UNCHANGED vars
  <2>1. UNCHANGED << files, session, url, visited, trail, screen, drawn >>
    BY <1>1 DEF vars
  <2>2. Held' = Held
    BY <2>1 DEF Held
  <2>3. SessionInv'
    BY <2>1, <2>2 DEF BackInv, SessionInv, IsTrail
  <2>4. ScreenInv' /\ TrailInv'
    BY <2>1 DEF BackInv, ScreenInv, TrailInv
  <2> QED BY <2>3, <2>4 DEF BackInv
<1> QED
  BY <1>1, BackDraw, BackChooseView, BackChooseRange, BackChooseFilters, BackOpen,
     BackCloseCampaign, BackGoBack, BackBrowserTo, BackPublish DEF Next

LEMMA BackHolds == Spec => []BackInv
  BY InitBack, BackStep, PTL DEF Spec

\* "Back" leads to the page that was left, unless a month was published since,
\* and to its Back button as long as that page's own way back fits, whatever was
\* clicked before a page was drawn, kept addresses and the browser's own Back
\* included, however long a route is and wherever apply_route cuts
\* (remember_return, apply_route, go_back).
THEOREM ReturnsRestore == Spec => []BackRestoresThePage
<1>1. BackInv => BackRestoresThePage
  <2> SUFFICES ASSUME BackInv, NEW i \in DOMAIN trail, trail[i].left.files = files
               PROVE  PageOf(files, ApplyRoute(trail[i].route)) =
                        [trail[i].left EXCEPT !.back = IF LengthOf(@) > MaxLength THEN 0 ELSE @]
    BY DEF BackRestoresThePage
  <2>1. trail[i].left # BlankScreen
    <3>1. DOMAIN files = Months /\ Months # {}
      BY MonthAssumption DEF BackInv, SessionInv
    <3>2. BlankScreen.files = << >> /\ DOMAIN << >> = {}
      BY DEF BlankScreen
    <3> QED BY <3>1, <3>2
  <2>2. PICK r, left : r = trail[i].route /\ left = trail[i].left
    OBVIOUS
  <2>3. IsRoute(r)
    BY <2>2 DEF BackInv, SessionInv, Held
  <2>4. PageOf(files, Known(r)) = left
    BY <2>1, <2>2 DEF BackInv, TrailInv, DrawnAs
  <2>5. IsRoute(Known(r)) /\ Known(r).back = r.back
    BY <2>3, RouteKnown
  <2>6. left.back = r.back
    BY <2>4, <2>5, PageOfBack
  <2>7. PICK b : b = IF LengthOf(r.back) > MaxLength THEN 0 ELSE r.back
    OBVIOUS
  <2>8. ApplyRoute(r) = WithBack(Known(r), b)
    BY <2>3, <2>7, RouteApplied
  <2>9. PageOf(files, ApplyRoute(r)) = WithBack(left, b)
    BY <2>4, <2>5, <2>8, PageOfBack
  <2> QED BY <2>2, <2>6, <2>7, <2>9 DEF WithBack
<1> QED BY <1>1, BackHolds, PTL

-----------------------------------------------------------------------------
(***************************************************************************)
(* The records of a part of the published months.                          *)
(***************************************************************************)
LEMMA RecordsAre ==
  ASSUME NEW monthly, NEW at
  PROVE  at \in Records(monthly) <=>
           \E m \in DOMAIN monthly : \E i \in DOMAIN monthly[m] : at = << m, i >>
  BY DEF Records

\* Cutting the published months to a selection takes whole months away.
LEMMA Sliced ==
  ASSUME NEW f, NEW H, NEW M \in SUBSET H
  PROVE  LET part == Realized(f, M)
             whole == Realized(f, H)
         IN /\ \A at : at[1] \in M => Rec(part, at) = Rec(whole, at)
            /\ \A at : at \in Records(part) <=> at \in Records(whole) /\ at[1] \in M
            /\ \A at : at \in Closes(part) <=> at \in Closes(whole) /\ at[1] \in M
            /\ \A at : at \in Attributed(part) <=> at \in Attributed(whole) /\ at[1] \in M
            /\ \A at : at[1] \in M => RowName(part, at) = RowName(whole, at)
            /\ \A S : (\A at \in S : at[1] \in M) => GainOf(part, S) = GainOf(whole, S)
<1> DEFINE part == Realized(f, M)
           whole == Realized(f, H)
<1>1. /\ DOMAIN part = M /\ DOMAIN whole = H
      /\ \A m \in M : part[m] = f[m].realized /\ whole[m] = f[m].realized
  BY DEF Realized
<1> HIDE DEF part, whole
<1>2. ASSUME NEW at, at[1] \in M PROVE Rec(part, at) = Rec(whole, at)
  BY <1>1, <1>2 DEF Rec
<1>3. ASSUME NEW at PROVE at \in Records(part) <=> at \in Records(whole) /\ at[1] \in M
  <2>1. ASSUME at \in Records(part) PROVE at \in Records(whole) /\ at[1] \in M
    <3>1. PICK m \in M : \E i \in DOMAIN part[m] : at = << m, i >>
      BY <1>1, <2>1, RecordsAre
    <3> QED BY <1>1, <3>1, RecordsAre
  <2>2. ASSUME at \in Records(whole), at[1] \in M PROVE at \in Records(part)
    <3>1. PICK m \in H : \E i \in DOMAIN whole[m] : at = << m, i >>
      BY <1>1, <2>2, RecordsAre
    <3>2. m \in M
      BY <2>2, <3>1
    <3> QED BY <1>1, <3>1, <3>2, RecordsAre
  <2> QED BY <2>1, <2>2
<1>4. ASSUME NEW at PROVE at \in Closes(part) <=> at \in Closes(whole) /\ at[1] \in M
  BY <1>2, <1>3 DEF Closes
<1>5. ASSUME NEW at PROVE at \in Attributed(part) <=> at \in Attributed(whole) /\ at[1] \in M
  BY <1>2, <1>4 DEF Attributed
<1>6. ASSUME NEW m \in M, NEW c PROVE SymbolsNamed(part, m, c) = SymbolsNamed(whole, m, c)
  <2> DEFINE P == { x \in Closes(part) : x[1] = m /\ c \in Campaigns(Rec(part, x)) }
             W == { x \in Closes(whole) : x[1] = m /\ c \in Campaigns(Rec(whole, x)) }
  <2>1. P = W
    BY <1>2, <1>4
  <2>2. \A x \in P : Rec(part, x).symbol = Rec(whole, x).symbol
    BY <1>2
  <2>3. SymbolsNamed(part, m, c) = { Rec(part, x).symbol : x \in P }
        /\ SymbolsNamed(whole, m, c) = { Rec(whole, x).symbol : x \in W }
    BY DEF SymbolsNamed
  <2> HIDE DEF P, W
  <2> QED BY <2>1, <2>2, <2>3
<1>7. ASSUME NEW at, at[1] \in M PROVE RowName(part, at) = RowName(whole, at)
  BY <1>2, <1>6, <1>7 DEF RowName
<1>8. ASSUME NEW S, \A at \in S : at[1] \in M PROVE GainOf(part, S) = GainOf(whole, S)
  <2>1. [at \in S |-> Rec(part, at).gain] = [at \in S |-> Rec(whole, at).gain]
    BY <1>2, <1>8
  <2> QED BY <2>1 DEF GainOf
<1> QED BY <1>2, <1>3, <1>4, <1>5, <1>7, <1>8 DEF part, whole

\* The rows of the Campaigns page and of the concentration.
LEMMA DrilldownsAre ==
  ASSUME NEW monthly, NEW row
  PROVE  row \in Drilldowns(monthly) <=>
           \E at \in Attributed(monthly) :
             row = Row(monthly, RowName(monthly, at), DetailRecords(monthly, RowName(monthly, at)))
<1> DEFINE names == [at \in Attributed(monthly) |-> RowName(monthly, at)]
<1>1. \A n : { at \in DOMAIN names : names[at] = n } = DetailRecords(monthly, n)
  BY DEF DetailRecords
<1>2. { names[at] : at \in DOMAIN names } = { RowName(monthly, at) : at \in Attributed(monthly) }
  OBVIOUS
<1>3. Drilldowns(monthly) =
        { Row(monthly, n, { at \in DOMAIN names : names[at] = n }) : n \in { names[at] : at \in DOMAIN names } }
  BY DEF Drilldowns
<1> HIDE DEF names
<1> QED BY <1>1, <1>2, <1>3, ZenonT(60)

WithKey(monthly, k) == { at \in Concentrated(monthly) : ConcentrationKey(monthly, at) = k }

LEMMA ConcentrationIs ==
  ASSUME NEW monthly, NEW line
  PROVE  line \in Concentration(monthly) <=>
           \E at \in Concentrated(monthly) :
             line = ConcentrationRow(monthly, ConcentrationKey(monthly, at),
                                     WithKey(monthly, ConcentrationKey(monthly, at)))
<1> DEFINE keys == [at \in Concentrated(monthly) |-> ConcentrationKey(monthly, at)]
<1>1. \A k : { at \in DOMAIN keys : keys[at] = k } = WithKey(monthly, k)
  BY DEF WithKey
<1>2. { keys[at] : at \in DOMAIN keys } = { ConcentrationKey(monthly, at) : at \in Concentrated(monthly) }
  OBVIOUS
<1>3. Concentration(monthly) =
        { ConcentrationRow(monthly, k, { at \in DOMAIN keys : keys[at] = k }) :
            k \in { keys[at] : at \in DOMAIN keys } }
  BY DEF Concentration
<1> HIDE DEF keys
<1> QED BY <1>1, <1>2, <1>3, ZenonT(60)

\* The published files of the months H.
Kept(f, H) == H \in SUBSET Months /\ \A m \in H : IsFile(f[m])

LEMMA RecordFits ==
  ASSUME NEW f, NEW H, Kept(f, H), NEW at, at \in Records(Realized(f, H))
  PROVE  LET r == Rec(Realized(f, H), at)
         IN /\ at[1] \in H /\ at[2] \in DOMAIN f[at[1]].realized /\ at = << at[1], at[2] >>
            /\ r = f[at[1]].realized[at[2]] /\ IsFiniteSet(r.parts)
            /\ \A c \in Campaigns(r) : ImportScoped(c) => c.symbol = r.symbol
<1>1. PICK m \in H : \E i \in DOMAIN f[m].realized : at = << m, i >>
  BY RecordsAre DEF Realized
<1>2. PICK i \in DOMAIN f[m].realized : at = << m, i >>
  BY <1>1
<1>3. at[1] = m /\ at[2] = i
  BY <1>2
<1>4. Rec(Realized(f, H), at) = f[m].realized[i]
  BY <1>1, <1>3 DEF Rec, Realized
<1>5. IsFile(f[m])
  BY <1>1 DEF Kept
<1> QED BY <1>1, <1>2, <1>3, <1>4, <1>5 DEF IsFile

\* An attributed close names one campaign.
LEMMA OwnCampaign ==
  ASSUME NEW f, NEW H, Kept(f, H), NEW at \in Attributed(Realized(f, H))
  PROVE  LET r == Rec(Realized(f, H), at)
         IN Campaigns(r) = {CampaignOf(r)} /\ at \in Closes(Realized(f, H))
<1> DEFINE r == Rec(Realized(f, H), at)
<1>1. at \in Closes(Realized(f, H)) /\ at \in Records(Realized(f, H)) /\ Unambiguous(r)
  BY DEF Attributed, Closes
<1>2. IsFiniteSet(r.parts)
  BY <1>1, RecordFits
<1>3. Cardinality(r.parts) = 1 /\ NoCampaign \notin r.parts
  BY <1>1 DEF Unambiguous
<1> HIDE DEF r
<1>4. PICK c : r.parts = {c}
  BY <1>2, <1>3, FS_Singleton
<1>5. CampaignOf(r) = c
  BY <1>4 DEF CampaignOf
<1>6. Campaigns(r) = {c}
  BY <1>3, <1>4 DEF Campaigns
<1> QED BY <1>1, <1>5, <1>6 DEF r

LEMMA SymbolsFinite ==
  ASSUME NEW f, NEW H, Kept(f, H), NEW m \in H, NEW c
  PROVE  IsFiniteSet(SymbolsNamed(Realized(f, H), m, c))
<1> DEFINE history == Realized(f, H)
           T == SymbolsNamed(history, m, c)
           chosen == { x \in Closes(history) : x[1] = m /\ c \in Campaigns(Rec(history, x)) }
           S == { i \in DOMAIN f[m].realized : << m, i >> \in chosen }
           g == [i \in S |-> f[m].realized[i].symbol]
<1>1. T = { Rec(history, x).symbol : x \in chosen }
  BY DEF SymbolsNamed
<1>2. ASSUME NEW x \in chosen
      PROVE  x = << m, x[2] >> /\ x[2] \in S /\ Rec(history, x).symbol = g[x[2]]
  <2>1. x \in Records(history) /\ x[1] = m
    BY DEF Closes
  <2>2. x[2] \in DOMAIN f[m].realized /\ x = << m, x[2] >> /\ Rec(history, x) = f[m].realized[x[2]]
    BY <2>1, RecordFits
  <2> HIDE DEF chosen, history
  <2> QED BY <2>2
<1>3. ASSUME NEW i \in S PROVE g[i] \in T
  <2>1. << m, i >> \in chosen
    OBVIOUS
  <2>2. << m, i >> \in Records(history)
    BY <2>1 DEF Closes
  <2>3. Rec(history, << m, i >>) = f[m].realized[i]
    BY <2>2, RecordFits
  <2> HIDE DEF chosen, history, T
  <2> QED BY <1>1, <2>1, <2>3
<1>4. \A t \in T : \E i \in S : g[i] = t
  <2> HIDE DEF chosen, history, T, S, g
  <2> QED BY <1>1, <1>2
<1>5. g \in Surjection(S, T)
  <2>1. g \in [S -> T]
    BY <1>3
  <2> HIDE DEF T, S, g
  <2> QED BY <1>4, <2>1 DEF Surjection
<1>6. IsFiniteSet(S)
  <2>1. IsFiniteSet(DOMAIN f[m].realized)
    BY DEF Kept, IsFile
  <2>2. S \in SUBSET DOMAIN f[m].realized
    OBVIOUS
  <2> HIDE DEF S
  <2> QED BY <2>1, <2>2, FS_Subset
<1> HIDE DEF T, S, g
<1>7. IsFiniteSet(T)
  BY <1>5, <1>6, FS_Surjection
<1> QED BY <1>7 DEF T

\* An import-scoped campaign keeps its name: all its records are of one symbol.
LEMMA ScopedName ==
  ASSUME NEW f, NEW H, Kept(f, H), NEW at \in Attributed(Realized(f, H)),
         ImportScoped(CampaignOf(Rec(Realized(f, H), at)))
  PROVE  /\ RowName(Realized(f, H), at).at = NoSymbol
         /\ Rec(Realized(f, H), at).symbol = CampaignOf(Rec(Realized(f, H), at)).symbol
<1> DEFINE history == Realized(f, H)
           c == CampaignOf(Rec(history, at))
           T == SymbolsNamed(history, at[1], c)
<1>1. /\ at \in Closes(history) /\ at \in Records(history) /\ c \in Campaigns(Rec(history, at))
      /\ ImportScoped(c)
  BY OwnCampaign DEF Closes
<1>2. at[1] \in H /\ Rec(history, at).symbol = c.symbol
  BY <1>1, RecordFits
<1>3. T \in SUBSET {c.symbol}
  <2>1. ASSUME NEW x \in Closes(history), c \in Campaigns(Rec(history, x))
        PROVE  Rec(history, x).symbol = c.symbol
    BY <1>1, <2>1, RecordFits DEF Closes
  <2> HIDE DEF c, history
  <2> QED BY <2>1 DEF SymbolsNamed
<1>4. Cardinality(T) <= 1 /\ Cardinality(T) \in Nat
  <2>1. IsFiniteSet({c.symbol}) /\ Cardinality({c.symbol}) = 1
    BY FS_Singleton
  <2> HIDE DEF T, c
  <2> QED BY <1>3, <2>1, FS_Subset, FS_CardinalityType
<1>5. ~(Cardinality(T) > 1)
  BY <1>4
<1> QED BY <1>2, <1>5 DEF RowName

\* Two closes of one month, campaign and name are of one symbol.
LEMMA SameName ==
  ASSUME NEW f, NEW H, Kept(f, H),
         NEW at \in Attributed(Realized(f, H)), NEW other \in Attributed(Realized(f, H)),
         RowName(Realized(f, H), at) = RowName(Realized(f, H), other)
  PROVE  Rec(Realized(f, H), at).symbol = Rec(Realized(f, H), other).symbol
<1> DEFINE history == Realized(f, H)
           c == CampaignOf(Rec(history, at))
           T == SymbolsNamed(history, at[1], c)
<1> USE DEF RowName
<1>1. at[1] = other[1] /\ c = CampaignOf(Rec(history, other))
  OBVIOUS
<1>2. at \in Closes(history) /\ c \in Campaigns(Rec(history, at))
  BY OwnCampaign
<1>3. other \in Closes(history) /\ c \in Campaigns(Rec(history, other))
  BY <1>1, OwnCampaign
<1>4. at[1] \in H
  BY <1>2, RecordFits DEF Closes
<1>5. Rec(history, at).symbol \in T /\ Rec(history, other).symbol \in T
  BY <1>1, <1>2, <1>3 DEF SymbolsNamed
<1>6. IsFiniteSet(T) /\ Cardinality(T) \in Nat
  BY <1>4, SymbolsFinite, FS_CardinalityType
<1>7. CASE Cardinality(T) > 1
  BY <1>1, <1>7
<1>8. CASE ~(Cardinality(T) > 1)
  <2>1. Cardinality(T) = 1
    <3> HIDE DEF T
    <3> QED BY <1>5, <1>6, <1>8, FS_EmptySet
  <2>2. \E x : T = {x}
    <3> HIDE DEF T
    <3> QED BY <1>6, <2>1, FS_Singleton
  <2> HIDE DEF T
  <2> QED BY <1>5, <2>2
<1> QED BY <1>7, <1>8

\* A row of the selection combines what its detail lists in all months.
LEMMA RowAgrees ==
  ASSUME NEW f, NEW H, NEW M \in SUBSET H, NEW row \in Drilldowns(Realized(f, M))
  PROVE  LET detail == DetailRecords(Realized(f, H), row.name)
         IN row.pnl = GainOf(Realized(f, H), detail) /\ row.records = Cardinality(detail)
<1> DEFINE part == Realized(f, M)
           whole == Realized(f, H)
<1>1. PICK at \in Attributed(part) :
        row = Row(part, RowName(part, at), DetailRecords(part, RowName(part, at)))
  BY DrilldownsAre
<1>2. PICK n : n = RowName(part, at)
  OBVIOUS
<1>3. row.name = n /\ row.pnl = GainOf(part, DetailRecords(part, n))
      /\ row.records = Cardinality(DetailRecords(part, n))
  BY <1>1, <1>2 DEF Row
<1>4. n.month = at[1] /\ at[1] \in M
  BY <1>1, <1>2, Sliced DEF RowName
<1>5. ASSUME NEW x PROVE x \in DetailRecords(part, n) <=> x \in DetailRecords(whole, n)
  <2>1. x \in Attributed(part) <=> x \in Attributed(whole) /\ x[1] \in M
    BY Sliced
  <2>2. x[1] \in M => RowName(part, x) = RowName(whole, x)
    BY Sliced
  <2>3. RowName(whole, x) = n => x[1] = n.month
    BY DEF RowName
  <2> HIDE DEF part, whole
  <2> QED BY <1>4, <2>1, <2>2, <2>3 DEF DetailRecords
<1>6. DetailRecords(part, n) = DetailRecords(whole, n)
  BY <1>5 DEF DetailRecords
<1>7. \A x \in DetailRecords(part, n) : x[1] \in M
  BY Sliced DEF DetailRecords
<1>8. GainOf(part, DetailRecords(part, n)) = GainOf(whole, DetailRecords(part, n))
  BY <1>7, Sliced
<1> QED BY <1>3, <1>6, <1>8

\* A line of the concentration opens a row of its own, and combines what the
\* economics of that row hold of the selection.
LEMMA LineAgrees ==
  ASSUME NEW f, NEW H, Kept(f, H), NEW M \in SUBSET H, NEW line \in Concentration(Realized(f, M))
  PROVE  /\ line.opens \in { row.name : row \in Drilldowns(Realized(f, M)) }
         /\ line.pnl = GainOf(Realized(f, H), { at \in EconomicsScope(Realized(f, H), line.opens) :
                                                at[1] \in M /\ Rec(Realized(f, H), at).ok })
<1> DEFINE part == Realized(f, M)
           whole == Realized(f, H)
<1>1. PICK at0 \in Concentrated(part) :
        line = ConcentrationRow(part, ConcentrationKey(part, at0), WithKey(part, ConcentrationKey(part, at0)))
  BY ConcentrationIs
<1>2. PICK k, S : k = ConcentrationKey(part, at0) /\ S = WithKey(part, k)
  OBVIOUS
<1> DEFINE latest == { at \in S : \A other \in S : other[1] <= at[1] }
           chosen == CHOOSE at \in latest : TRUE
           scope == { at \in EconomicsScope(whole, line.opens) : at[1] \in M /\ Rec(whole, at).ok }
<1>3. line.pnl = GainOf(part, S) /\ line.opens = RowName(part, chosen)
  BY <1>1, <1>2 DEF ConcentrationRow
<1>4. \A at \in S : at \in Attributed(part) /\ at \in Attributed(whole) /\ at[1] \in M
  BY <1>2, Sliced DEF WithKey, Concentrated
<1>5. chosen \in S
  <2>1. at0 \in S
    BY <1>2 DEF WithKey
  <2> DEFINE months == { at[1] : at \in S }
  <2>2. months \in SUBSET Months
    BY <1>4 DEF Kept
  <2>3. months # {}
    BY <2>1
  <2>4. months \in SUBSET Int /\ IsFiniteSet(months) /\ months # {}
    <3> HIDE DEF months
    <3> QED BY <2>2, <2>3, MonthAssumption, FS_Subset
  <2>5. Max(months) \in months /\ \A m \in months : m <= Max(months)
    <3> HIDE DEF months
    <3> QED BY <2>4, Extremes
  <2>6. PICK at \in S : at[1] = Max(months)
    BY <2>5
  <2>7. at \in latest
    BY <2>5, <2>6
  <2> QED BY <2>7
<1>6. chosen \in Attributed(part)
  BY <1>4, <1>5
<1>7. line.opens \in { row.name : row \in Drilldowns(part) }
  <2> DEFINE row == Row(part, RowName(part, chosen), DetailRecords(part, RowName(part, chosen)))
  <2>1. row \in Drilldowns(part)
    BY <1>6, DrilldownsAre
  <2>2. row.name = line.opens
    BY <1>3 DEF Row
  <2> HIDE DEF row, part
  <2> QED BY <2>1, <2>2
<1>8. PICK c : c = CampaignOf(Rec(whole, chosen))
  OBVIOUS
<1>9. /\ chosen \in Attributed(whole) /\ chosen[1] \in M
      /\ Rec(part, chosen) = Rec(whole, chosen)
      /\ line.opens = RowName(whole, chosen)
      /\ ConcentrationKey(part, chosen) = k /\ chosen \in Concentrated(part)
  BY <1>2, <1>3, <1>4, <1>5, Sliced DEF WithKey
<1>10. line.opens.campaign = c /\ line.opens.month = chosen[1]
  BY <1>8, <1>9 DEF RowName
<1>11. /\ k.symbol = Rec(whole, chosen).symbol /\ k.campaign = c
       /\ k.month = IF ImportScoped(c) THEN NoMonth ELSE chosen[1]
  BY <1>8, <1>9 DEF ConcentrationKey
<1>12. Rec(whole, chosen).symbol \notin Futures
  BY <1>9 DEF Concentrated
<1>13. ASSUME NEW at \in Attributed(whole), at[1] \in M
       PROVE  at \in S <=> at \in scope
  <2> DEFINE r == Rec(whole, at)
  <2>1. at \in Attributed(part) /\ Rec(part, at) = r
    BY <1>13, Sliced
  <2>2. at \in S <=> /\ r.ok /\ r.symbol \notin Futures
                     /\ ImportScoped(CampaignOf(r)) => CampaignOf(r).symbol = r.symbol
                     /\ r.symbol = k.symbol /\ CampaignOf(r) = k.campaign
                     /\ k.month = IF ImportScoped(CampaignOf(r)) THEN NoMonth ELSE at[1]
    <3>1. at \in Concentrated(part) <=>
            /\ r.ok /\ r.symbol \notin Futures
            /\ ImportScoped(CampaignOf(r)) => CampaignOf(r).symbol = r.symbol
      BY <2>1 DEF Concentrated
    <3>2. ConcentrationKey(part, at) =
            [symbol |-> r.symbol, campaign |-> CampaignOf(r),
             month |-> IF ImportScoped(CampaignOf(r)) THEN NoMonth ELSE at[1]]
      BY <2>1 DEF ConcentrationKey
    <3>3. k = [symbol |-> k.symbol, campaign |-> k.campaign, month |-> k.month]
      BY <1>2 DEF ConcentrationKey
    <3> HIDE DEF part, whole, r
    <3> QED BY <1>2, <3>1, <3>2, <3>3 DEF WithKey
  <2>3. at \in scope <=>
          /\ r.ok
          /\ ImportScoped(c) => r.symbol = c.symbol
          /\ CampaignOf(r) = c /\ RowName(whole, at).at = RowName(whole, chosen).at
          /\ ImportScoped(c) \/ at[1] = chosen[1]
    <3>1. RowName(whole, at).campaign = CampaignOf(r) /\ RowName(whole, at).month = at[1]
      BY DEF RowName
    <3>2. at \in EconomicsScope(whole, line.opens) <=>
            /\ ImportScoped(c) => r.symbol = c.symbol
            /\ CampaignOf(r) = c /\ RowName(whole, at).at = RowName(whole, chosen).at
            /\ ImportScoped(c) \/ at[1] = chosen[1]
      BY <1>9, <1>10, <3>1 DEF EconomicsScope
    <3>3. at \in scope <=> at \in EconomicsScope(whole, line.opens) /\ r.ok
      BY <1>13
    <3> HIDE DEF r, whole, scope
    <3> QED BY <3>2, <3>3
  <2>4. ASSUME CampaignOf(r) = c, ImportScoped(c) PROVE at \in S <=> at \in scope
    <3>1. RowName(whole, at).at = NoSymbol /\ r.symbol = c.symbol
      BY <2>4, ScopedName
    <3>2. RowName(whole, chosen).at = NoSymbol /\ Rec(whole, chosen).symbol = c.symbol
      BY <1>8, <1>9, <2>4, ScopedName
    <3> HIDE DEF r, whole, part, scope, chosen
    <3> QED BY <1>11, <1>12, <2>2, <2>3, <2>4, <3>1, <3>2
  <2>5. ASSUME CampaignOf(r) = c, ~ImportScoped(c) PROVE at \in S <=> at \in scope
    <3>1. ASSUME at[1] = chosen[1], RowName(whole, at).at = RowName(whole, chosen).at
          PROVE  r.symbol = Rec(whole, chosen).symbol
      <4>1. RowName(whole, at) = RowName(whole, chosen)
        BY <1>8, <2>5, <3>1 DEF RowName
      <4> QED BY <1>9, <4>1, SameName
    <3>2. ASSUME at[1] = chosen[1], r.symbol = Rec(whole, chosen).symbol
          PROVE  RowName(whole, at).at = RowName(whole, chosen).at
      BY <1>8, <2>5, <3>2 DEF RowName
    <3> HIDE DEF r, whole, part, scope, chosen
    <3> QED BY <1>11, <1>12, <2>2, <2>3, <2>5, <3>1, <3>2
  <2>6. CASE CampaignOf(r) # c
    <3> HIDE DEF r, whole, part, scope, chosen
    <3> QED BY <1>11, <2>2, <2>3, <2>6
  <2> QED BY <2>4, <2>5, <2>6
<1>14. S = scope
  <2>1. \A at \in scope : at \in Attributed(whole) /\ at[1] \in M
    BY DEF EconomicsScope
  <2> HIDE DEF scope, whole, part
  <2> QED BY <1>4, <1>13, <2>1
<1>15. GainOf(part, S) = GainOf(whole, S)
  BY <1>4, Sliced
<1> QED BY <1>3, <1>7, <1>14, <1>15

-----------------------------------------------------------------------------
(***************************************************************************)
(* The page drawn last shows months that are still published.              *)
(***************************************************************************)
MonthsInv ==
  /\ files = [m \in Months |-> files[m]]
  /\ \A m \in Months : files[m] = NoFile \/ IsFile(files[m])
  /\ screen.months \subseteq Published(files)

LEMMA MonthsHold == Spec => []MonthsInv
<1>1. Init => MonthsInv
  <2> SUFFICES ASSUME Init PROVE MonthsInv
    OBVIOUS
  <2>1. PICK start \in Starts : files = start.files
    BY DEF Init
  <2>2. screen.months = {}
    BY DEF Init, BlankScreen
  <2> QED BY <2>1, <2>2, StartAssumption DEF MonthsInv
<1>2. MonthsInv /\ [Next]_vars => MonthsInv'
  <2> SUFFICES ASSUME MonthsInv, [Next]_vars PROVE MonthsInv'
    OBVIOUS
  <2>1. ASSUME UNCHANGED << files, screen >> PROVE MonthsInv'
    BY <2>1 DEF MonthsInv
  <2>2. CASE Draw
    <3>1. files' = files
      BY <2>2 DEF Draw
    <3>2. screen'.months \subseteq Published(files)
      <4>1. PICK s : screen' = SummaryPage(files, s) \/ screen' = Page(files, s)
                     \/ screen' = CampaignsPage(files, s)
        BY <2>2 DEF Draw, DrawSummary, DrawNoCampaigns, DrawCampaigns
      <4> QED BY <4>1, DrawnMonths
    <3> QED BY <3>1, <3>2 DEF MonthsInv
  <2>3. ASSUME NEW m \in Months, Publish(m) PROVE MonthsInv'
    <3>1. PICK file \in Files[m] : files' = [files EXCEPT ![m] = file]
      BY <2>3 DEF Publish
    <3>2. file # NoFile /\ IsFile(file)
      BY <3>1, FileAssumption
    <3>3. \A n \in Months : files'[n] = IF n = m THEN file ELSE files[n]
      BY <3>1 DEF MonthsInv
    <3>4. Published(files) \subseteq Published(files')
      BY <3>2, <3>3 DEF Published
    <3>5. screen' = screen /\ files' = [n \in Months |-> files'[n]]
      BY <2>3, <3>1 DEF Publish, MonthsInv
    <3> QED BY <3>2, <3>3, <3>4, <3>5 DEF MonthsInv
  <2>4. ASSUME Click PROVE MonthsInv'
    BY <2>1, <2>4 DEF Click
  <2>5. UNCHANGED vars => UNCHANGED << files, screen >>
    BY DEF vars
  <2> QED
    BY <2>1, <2>2, <2>3, <2>4, <2>5
    DEF Next, ChooseView, ChooseRange, ChooseFrom, ChooseThrough, ChooseYear, Shortcut,
        ChooseFilters, FilterMonth, FilterResult, FilterSymbol, ChooseFilter, Open, OpenMonth,
        OpenConcentrated, OpenCampaign, CloseCampaign, GoBack, BrowserTo
<1> QED BY <1>1, <1>2, PTL DEF Spec

\* A row of the Campaigns page sums the records its detail lists, a line of the
\* concentration opens such a row, and the campaign's economics hold the closes
\* the line combines, for every file (campaign_realized_attributions,
\* summarize_profit_concentration, campaign_record_scope).
THEOREM RowsAgree == Spec => []RowsAgreeWithTheirDetail
<1>1. MonthsInv => RowsAgreeWithTheirDetail
  <2> SUFFICES ASSUME MonthsInv PROVE RowsAgreeWithTheirDetail
    OBVIOUS
  <2>1. Kept(files, Published(files)) /\ screen.months \in SUBSET Published(files)
    BY DEF MonthsInv, Kept, Published
  <2> QED BY <2>1, RowAgrees, LineAgrees DEF RowsAgreeWithTheirDetail
<1> QED BY <1>1, MonthsHold, PTL

-----------------------------------------------------------------------------
(***************************************************************************)
(* Sums over the records of a table: the months' files, in one kind.       *)
(***************************************************************************)
IsTable(t) ==
  /\ IsFiniteSet(DOMAIN t)
  /\ \A m \in DOMAIN t : IsFiniteSet(DOMAIN t[m]) /\ \A i \in DOMAIN t[m] : t[m][i].gain \in Int

\* There are finitely many records, each with a whole gain.
LEMMA TableRecords ==
  ASSUME NEW t, IsTable(t)
  PROVE  /\ IsFiniteSet(Records(t))
         /\ \A at \in Records(t) : Rec(t, at).gain \in Int /\ at[1] \in DOMAIN t
<1> DEFINE Of(m) == { << m, i >> : i \in DOMAIN t[m] }
           files1 == [m \in DOMAIN t |-> Of(m)]
<1>1. ASSUME NEW m \in DOMAIN t PROVE IsFiniteSet(Of(m))
  <2> DEFINE g == [i \in DOMAIN t[m] |-> << m, i >>]
  <2>1. IsFiniteSet({ g[i] : i \in DOMAIN g })
    <3>1. IsFiniteSet(DOMAIN g)
      BY DEF IsTable
    <3> HIDE DEF g
    <3> QED BY <3>1, FiniteImage
  <2>2. { g[i] : i \in DOMAIN g } = Of(m)
    OBVIOUS
  <2> QED BY <2>1, <2>2
<1>2. IsFiniteSet({ files1[m] : m \in DOMAIN files1 })
  <2>1. IsFiniteSet(DOMAIN files1)
    BY DEF IsTable
  <2> HIDE DEF files1
  <2> QED BY <2>1, FiniteImage
<1>3. Records(t) = UNION { files1[m] : m \in DOMAIN files1 }
  BY DEF Records
<1>4. IsFiniteSet(Records(t))
  <2>1. \A T \in { files1[m] : m \in DOMAIN files1 } : IsFiniteSet(T)
    BY <1>1
  <2> HIDE DEF files1
  <2> QED BY <1>2, <1>3, <2>1, FS_UNION
<1>5. ASSUME NEW at \in Records(t) PROVE Rec(t, at).gain \in Int /\ at[1] \in DOMAIN t
  <2>1. PICK m \in DOMAIN t : \E i \in DOMAIN t[m] : at = << m, i >>
    BY RecordsAre
  <2>2. PICK i \in DOMAIN t[m] : at = << m, i >>
    BY <2>1
  <2> QED BY <2>2 DEF Rec, IsTable
<1> QED BY <1>4, <1>5

GainAt(t, S) == [at \in S |-> Rec(t, at).gain]

\* The gains of a set of records are a finite function, restricted by its parts.
LEMMA GainTyped ==
  ASSUME NEW t, IsTable(t), NEW S \in SUBSET Records(t)
  PROVE  /\ IsFiniteSet(S) /\ GainAt(t, S) \in [S -> Int] /\ GainOf(t, S) = SumFunction(GainAt(t, S))
         /\ \A A \in SUBSET S : Over(GainAt(t, S), A) = GainAt(t, A)
BY TableRecords, FS_Subset DEF GainAt, GainOf, Over

LEMMA GainInt ==
  ASSUME NEW t, IsTable(t), NEW S \in SUBSET Records(t)
  PROVE  GainOf(t, S) \in Int
<1>1. PICK e : e = GainAt(t, S)
  OBVIOUS
<1>2. IsFiniteSet(S) /\ e \in [S -> Int] /\ GainOf(t, S) = SumFunction(e)
  BY <1>1, GainTyped
<1> QED BY <1>2, SumOverInt

\* A part and the rest have the gain of the whole.
LEMMA GainJoined ==
  ASSUME NEW t, IsTable(t), NEW S \in SUBSET Records(t), NEW A \in SUBSET S
  PROVE  GainOf(t, S) = GainOf(t, A) + GainOf(t, S \ A)
<1>1. PICK e : e = GainAt(t, S)
  OBVIOUS
<1>2. /\ IsFiniteSet(S) /\ e \in [S -> Int] /\ GainOf(t, S) = SumFunction(e)
      /\ Over(e, A) = GainAt(t, A) /\ Over(e, S \ A) = GainAt(t, S \ A)
  BY <1>1, GainTyped
<1>3. GainOf(t, A) = SumFunction(GainAt(t, A)) /\ GainOf(t, S \ A) = SumFunction(GainAt(t, S \ A))
  BY DEF GainOf, GainAt
<1> QED BY <1>2, <1>3, SumJoined

\* So do the groups of a key.
LEMMA GainGrouped ==
  ASSUME NEW t, IsTable(t), NEW S \in SUBSET Records(t), NEW K, IsFiniteSet(K), NEW key \in [S -> K]
  PROVE  GainOf(t, S) = SumFunction([k \in K |-> GainOf(t, Group(S, key, k))])
<1>1. PICK e : e = GainAt(t, S)
  OBVIOUS
<1>2. IsFiniteSet(S) /\ e \in [S -> Int] /\ GainOf(t, S) = SumFunction(e)
  BY <1>1, GainTyped
<1>3. ASSUME NEW k \in K PROVE SumFunction(Over(e, Group(S, key, k))) = GainOf(t, Group(S, key, k))
  <2>1. Group(S, key, k) \in SUBSET S
    BY DEF Group
  <2>2. Over(e, Group(S, key, k)) = GainAt(t, Group(S, key, k))
    BY <1>1, <2>1, GainTyped
  <2> QED BY <2>2 DEF GainOf, GainAt
<1>4. [k \in K |-> SumFunction(Over(e, Group(S, key, k)))] = [k \in K |-> GainOf(t, Group(S, key, k))]
  BY <1>3
<1> QED BY <1>2, <1>4, SumGrouped

\* Rows that share out the records of S sum to them.
LEMMA GainByRows ==
  ASSUME NEW t, IsTable(t), NEW S \in SUBSET Records(t), NEW row, DOMAIN row = S,
         NEW R, R = { row[at] : at \in S },
         \A r \in R : r.pnl = GainOf(t, Group(S, row, r))
  PROVE  /\ PnlOf(R) = GainOf(t, S)
         /\ IsFiniteSet(R) /\ \A r \in R : r.pnl \in Int
<1>1. IsFiniteSet(R)
  <2>1. IsFiniteSet(S)
    BY TableRecords, FS_Subset
  <2> QED BY <2>1, FiniteImage
<1>2. PICK key : key = [at \in S |-> row[at]]
  OBVIOUS
<1>3. key \in [S -> R] /\ \A r : Group(S, key, r) = Group(S, row, r)
  BY <1>2 DEF Group
<1>4. GainOf(t, S) = SumFunction([r \in R |-> GainOf(t, Group(S, key, r))])
  BY <1>1, <1>3, GainGrouped
<1>5. [r \in R |-> GainOf(t, Group(S, key, r))] = [r \in R |-> r.pnl]
  BY <1>3
<1>6. ASSUME NEW r \in R PROVE r.pnl \in Int
  <2>1. Group(S, row, r) \in SUBSET Records(t)
    BY DEF Group
  <2> QED BY <2>1, GainInt
<1> QED BY <1>1, <1>4, <1>5, <1>6 DEF PnlOf
-----------------------------------------------------------------------------
(***************************************************************************)
(* Each list of rows sums the records it was made from.                    *)
(***************************************************************************)
LEMMA InRecords ==
  ASSUME NEW t
  PROVE  Closes(t) \in SUBSET Records(t) /\ Attributed(t) \in SUBSET Closes(t)
         /\ Concentrated(t) \in SUBSET Attributed(t)
BY DEF Closes, Attributed, Concentrated

\* The campaign rows sum the attributed closes.
LEMMA DrilldownsSum ==
  ASSUME NEW t, IsTable(t)
  PROVE  /\ PnlOf(Drilldowns(t)) = GainOf(t, Attributed(t))
         /\ IsFiniteSet(Drilldowns(t)) /\ \A row \in Drilldowns(t) : row.pnl \in Int
<1> DEFINE S == Attributed(t)
           Of(at) == Row(t, RowName(t, at), DetailRecords(t, RowName(t, at)))
           row == [at \in S |-> Of(at)]
<1>1. ASSUME NEW at PROVE Of(at).name = RowName(t, at) /\ Of(at).pnl = GainOf(t, DetailRecords(t, RowName(t, at)))
  BY DEF Row
<1>2. ASSUME NEW at \in S PROVE Group(S, row, row[at]) = DetailRecords(t, RowName(t, at))
  <2>1. ASSUME NEW x \in S PROVE row[x] = row[at] <=> RowName(t, x) = RowName(t, at)
    <3>1. row[x] = Of(x) /\ row[at] = Of(at)
      OBVIOUS
    <3>2. RowName(t, x) = RowName(t, at) => Of(x) = Of(at)
      OBVIOUS
    <3> HIDE DEF row, Of
    <3> QED BY <1>1, <3>1, <3>2
  <2> HIDE DEF row
  <2> QED BY <2>1 DEF Group, DetailRecords
<1>3. Drilldowns(t) = { row[at] : at \in S }
  <2>1. \A r : r \in Drilldowns(t) <=> \E at \in S : r = row[at]
    BY DrilldownsAre
  <2> HIDE DEF row
  <2> QED BY <2>1
<1>4. \A r \in Drilldowns(t) : r.pnl = GainOf(t, Group(S, row, r))
  <2> SUFFICES ASSUME NEW r \in Drilldowns(t) PROVE r.pnl = GainOf(t, Group(S, row, r))
    OBVIOUS
  <2>1. PICK at \in S : r = row[at]
    BY <1>3
  <2>2. row[at].pnl = GainOf(t, DetailRecords(t, RowName(t, at)))
    BY <1>1
  <2> HIDE DEF row
  <2> QED BY <1>2, <2>1, <2>2
<1>5. S \in SUBSET Records(t) /\ DOMAIN row = S
  BY InRecords
<1> HIDE DEF row
<1> QED BY <1>3, <1>4, <1>5, GainByRows

\* The forex rows sum the settlements.
LEMMA ForexDrilldownsSum ==
  ASSUME NEW t, IsTable(t)
  PROVE  /\ PnlOf(ForexDrilldowns(t)) = GainOf(t, Records(t))
         /\ IsFiniteSet(ForexDrilldowns(t)) /\ \A row \in ForexDrilldowns(t) : row.pnl \in Int
         /\ \A row \in ForexDrilldowns(t) : \E at \in Records(t) : row.name = ForexName(t, at)
<1> DEFINE S == Records(t)
           names == [at \in S |-> ForexName(t, at)]
           Line(n, A) ==
             [name |-> n, symbols |-> { Rec(t, at).pair : at \in A }, pnl |-> GainOf(t, A),
              records |-> Cardinality(A), first |-> Min({ Rec(t, at).day : at \in A }),
              last |-> Max({ Rec(t, at).day : at \in A }), reconciled |-> TRUE]
           Alike(at) == { x \in S : ForexName(t, x) = ForexName(t, at) }
           Of(at) == Line(ForexName(t, at), Alike(at))
           row == [at \in S |-> Of(at)]
<1>1. ASSUME NEW at PROVE Of(at).name = ForexName(t, at) /\ Of(at).pnl = GainOf(t, Alike(at))
  OBVIOUS
<1>2. ASSUME NEW at \in S PROVE Group(S, row, row[at]) = Alike(at)
  <2>1. ASSUME NEW x \in S PROVE row[x] = row[at] <=> ForexName(t, x) = ForexName(t, at)
    <3>1. row[x] = Of(x) /\ row[at] = Of(at)
      OBVIOUS
    <3>2. ForexName(t, x) = ForexName(t, at) => Of(x) = Of(at)
      OBVIOUS
    <3> HIDE DEF row, Of
    <3> QED BY <1>1, <3>1, <3>2
  <2> HIDE DEF row
  <2> QED BY <2>1 DEF Group
<1>3. ForexDrilldowns(t) = { row[at] : at \in S }
  <2> DEFINE Named(n) == { at \in DOMAIN names : names[at] = n }
             With(n) == { x \in S : ForexName(t, x) = n }
             K == { names[at] : at \in DOMAIN names }
  <2>1. ForexDrilldowns(t) = { Line(n, Named(n)) : n \in K }
    BY DEF ForexDrilldowns
  <2>2. \A n : Named(n) = With(n)
    OBVIOUS
  <2>3. \A n : n \in K <=> \E at \in S : n = ForexName(t, at)
    OBVIOUS
  <2>4. \A at \in S : row[at] = Line(ForexName(t, at), With(ForexName(t, at)))
    OBVIOUS
  <2> HIDE DEF row, names, Line, Named, With, K
  <2>5. \A r : r \in ForexDrilldowns(t) <=> \E n \in K : r = Line(n, With(n))
    BY <2>1, <2>2
  <2>6. \A r : r \in ForexDrilldowns(t) <=> \E at \in S : r = row[at]
    BY <2>3, <2>4, <2>5
  <2> QED BY <2>6
<1>4. \A r \in ForexDrilldowns(t) :
        r.pnl = GainOf(t, Group(S, row, r)) /\ \E at \in S : r.name = ForexName(t, at)
  <2> SUFFICES ASSUME NEW r \in ForexDrilldowns(t)
               PROVE  r.pnl = GainOf(t, Group(S, row, r)) /\ \E at \in S : r.name = ForexName(t, at)
    OBVIOUS
  <2>1. PICK at \in S : r = row[at]
    BY <1>3
  <2>2. row[at] = Of(at)
    OBVIOUS
  <2>3. row[at].pnl = GainOf(t, Alike(at)) /\ row[at].name = ForexName(t, at)
    <3> HIDE DEF row, Of, Alike
    <3> QED BY <1>1, <2>2
  <2> HIDE DEF row, Alike
  <2> QED BY <1>2, <2>1, <2>3
<1>5. S \in SUBSET Records(t) /\ DOMAIN row = S
  OBVIOUS
<1> HIDE DEF row
<1> QED BY <1>3, <1>4, <1>5, GainByRows

\* The concentration sums the closes it takes.
LEMMA ConcentrationSums ==
  ASSUME NEW t, IsTable(t)
  PROVE  PnlOf(Concentration(t)) = GainOf(t, Concentrated(t))
<1> DEFINE S == Concentrated(t)
           Of(at) == ConcentrationRow(t, ConcentrationKey(t, at), WithKey(t, ConcentrationKey(t, at)))
           row == [at \in S |-> Of(at)]
<1>1. ASSUME NEW at
      PROVE  Of(at).key = ConcentrationKey(t, at) /\ Of(at).pnl = GainOf(t, WithKey(t, ConcentrationKey(t, at)))
  BY DEF ConcentrationRow
<1>2. ASSUME NEW at \in S PROVE Group(S, row, row[at]) = WithKey(t, ConcentrationKey(t, at))
  <2>1. ASSUME NEW x \in S PROVE row[x] = row[at] <=> ConcentrationKey(t, x) = ConcentrationKey(t, at)
    <3>1. row[x] = Of(x) /\ row[at] = Of(at)
      OBVIOUS
    <3>2. ConcentrationKey(t, x) = ConcentrationKey(t, at) => Of(x) = Of(at)
      OBVIOUS
    <3> HIDE DEF row, Of
    <3> QED BY <1>1, <3>1, <3>2
  <2> HIDE DEF row
  <2> QED BY <2>1 DEF Group, WithKey
<1>3. Concentration(t) = { row[at] : at \in S }
  <2>1. \A r : r \in Concentration(t) <=> \E at \in S : r = row[at]
    BY ConcentrationIs
  <2> HIDE DEF row
  <2> QED BY <2>1
<1>4. \A r \in Concentration(t) : r.pnl = GainOf(t, Group(S, row, r))
  <2> SUFFICES ASSUME NEW r \in Concentration(t) PROVE r.pnl = GainOf(t, Group(S, row, r))
    OBVIOUS
  <2>1. PICK at \in S : r = row[at]
    BY <1>3
  <2>2. row[at].pnl = GainOf(t, WithKey(t, ConcentrationKey(t, at)))
    BY <1>1
  <2> HIDE DEF row
  <2> QED BY <1>2, <2>1, <2>2
<1>5. S \in SUBSET Records(t) /\ DOMAIN row = S
  BY InRecords
<1> HIDE DEF row
<1> QED BY <1>3, <1>4, <1>5, GainByRows

-----------------------------------------------------------------------------
\* Sums over the months of a table.
LEMMA GainByMonth ==
  ASSUME NEW t, IsTable(t), NEW S \in SUBSET Records(t)
  PROVE  /\ GainOf(t, S) = SumFunction([m \in DOMAIN t |-> GainOf(t, OfMonth(t, m, S))])
         /\ \A m \in DOMAIN t : GainOf(t, OfMonth(t, m, S)) \in Int
<1> DEFINE key == [at \in S |-> at[1]]
<1>1. key \in [S -> DOMAIN t] /\ IsFiniteSet(DOMAIN t)
  BY TableRecords DEF IsTable
<1>2. \A m : Group(S, key, m) = OfMonth(t, m, S)
  BY DEF Group, OfMonth
<1>3. \A m : OfMonth(t, m, S) \in SUBSET Records(t)
  BY DEF OfMonth
<1> HIDE DEF key
<1>4. GainOf(t, S) = SumFunction([m \in DOMAIN t |-> GainOf(t, Group(S, key, m))])
  BY <1>1, GainGrouped
<1>5. [m \in DOMAIN t |-> GainOf(t, Group(S, key, m))] = [m \in DOMAIN t |-> GainOf(t, OfMonth(t, m, S))]
  BY <1>2
<1> QED BY <1>3, <1>4, <1>5, GainInt

\* The months' results sum the closes and the settlements.
LEMMA MonthTotal ==
  ASSUME NEW t, NEW u, IsTable(t), IsTable(u), DOMAIN u = DOMAIN t
  PROVE  MonthResults(t, u).total = GainOf(t, Closes(t)) + GainOf(u, Records(u))
<1> DEFINE M == DOMAIN t
           closed == [m \in M |-> GainOf(t, OfMonth(t, m, Closes(t)))]
           settled == [m \in M |-> GainOf(u, OfMonth(u, m, Records(u)))]
<1>1. closed \in [M -> Int] /\ settled \in [M -> Int] /\ IsFiniteSet(M)
  BY InRecords, GainByMonth DEF IsTable
<1>2. \A m \in M : MonthSummary(t, u, m).combined = closed[m] + settled[m]
  BY DEF MonthSummary
<1>3. GainOf(t, Closes(t)) = SumFunction(closed) /\ GainOf(u, Records(u)) = SumFunction(settled)
  BY InRecords, GainByMonth
<1>4. MonthResults(t, u).total = SumFunction([m \in M |-> MonthSummary(t, u, m).combined])
  BY DEF MonthResults
<1> HIDE DEF closed, settled
<1>5. [m \in M |-> MonthSummary(t, u, m).combined] = [m \in M |-> closed[m] + settled[m]]
  BY <1>2
<1> QED BY <1>1, <1>3, <1>4, <1>5, SumAdded

\* The unattributed parts of the months sum the closes without a campaign.
LEMMA LooseTotal ==
  ASSUME NEW t, NEW u, IsTable(t)
  PROVE  SumFunction([m \in DOMAIN t |-> MonthSummary(t, u, m).unattributed])
           = GainOf(t, Closes(t) \ Attributed(t))
<1> DEFINE S == Closes(t) \ Attributed(t)
<1>1. \A m : OfMonth(t, m, Closes(t)) \ OfMonth(t, m, Attributed(t)) = OfMonth(t, m, S)
  BY DEF OfMonth
<1>2. \A m \in DOMAIN t : MonthSummary(t, u, m).unattributed = GainOf(t, OfMonth(t, m, S))
  BY <1>1 DEF MonthSummary
<1>3. S \in SUBSET Records(t)
  BY InRecords
<1>4. [m \in DOMAIN t |-> MonthSummary(t, u, m).unattributed] = [m \in DOMAIN t |-> GainOf(t, OfMonth(t, m, S))]
  BY <1>2
<1> QED BY <1>3, <1>4, GainByMonth

LEMMA RowNames ==
  ASSUME NEW t, NEW row \in Drilldowns(t)
  PROVE  \E at \in Attributed(t) : row.name = RowName(t, at)
<1>1. PICK at \in Attributed(t) :
        row = Row(t, RowName(t, at), DetailRecords(t, RowName(t, at)))
  BY DrilldownsAre
<1>2. row.name = RowName(t, at)
  BY <1>1 DEF Row
<1> QED BY <1>2

\* Two separate lists of rows have the sums of each.
LEMMA PnlJoined ==
  ASSUME NEW A, NEW B, IsFiniteSet(A), IsFiniteSet(B), A \cap B = {},
         \A row \in A \cup B : row.pnl \in Int
  PROVE  PnlOf(A \cup B) = PnlOf(A) + PnlOf(B)
<1> DEFINE S == A \cup B
           pnl == [row \in S |-> row.pnl]
<1>1. IsFiniteSet(S) /\ pnl \in [S -> Int] /\ A \in SUBSET S /\ S \ A = B
  BY FS_Union
<1>2. Over(pnl, A) = [row \in A |-> row.pnl] /\ Over(pnl, S \ A) = [row \in B |-> row.pnl]
  BY <1>1 DEF Over
<1>3. PnlOf(S) = SumFunction(pnl) /\ PnlOf(A) = SumFunction(Over(pnl, A)) /\ PnlOf(B) = SumFunction(Over(pnl, S \ A))
  BY <1>2 DEF PnlOf
<1> HIDE DEF S, pnl
<1>4. PnlOf(S) = PnlOf(A) + PnlOf(B)
  BY <1>1, <1>3, SumJoined
<1> QED BY <1>4 DEF S

\* The published files of some months make two tables.
LEMMA KeptTables ==
  ASSUME NEW f, NEW H, Kept(f, H)
  PROVE  /\ IsTable(Realized(f, H)) /\ IsTable(Settled(f, H))
         /\ DOMAIN Realized(f, H) = H /\ DOMAIN Settled(f, H) = H
<1>1. IsFiniteSet(H)
  BY MonthAssumption, FS_Subset DEF Kept
<1>2. \A m \in H : IsFile(f[m])
  BY DEF Kept
<1> QED BY <1>1, <1>2 DEF IsTable, Realized, Settled, IsFile

\* Rows of securities and of currency pairs have different names.
LEMMA RowsAreDistinct ==
  ASSUME NEW f, NEW H, Kept(f, H)
  PROVE  Drilldowns(Realized(f, H)) \cap ForexDrilldowns(Settled(f, H)) = {}
<1> SUFFICES ASSUME NEW row, row \in Drilldowns(Realized(f, H)), row \in ForexDrilldowns(Settled(f, H))
             PROVE  FALSE
  OBVIOUS
<1>1. row.name.at \in Pairs /\ row.name.at # NoSymbol
  <2>1. IsTable(Settled(f, H))
    BY KeptTables
  <2>2. PICK at \in Records(Settled(f, H)) : row.name = ForexName(Settled(f, H), at)
    BY <2>1, ForexDrilldownsSum
  <2>3. row.name.at = Rec(Settled(f, H), at).pair
    BY <2>2 DEF ForexName
  <2>4. PICK m \in H : \E i \in DOMAIN f[m].forex : at = << m, i >>
    BY RecordsAre DEF Settled
  <2>5. PICK i \in DOMAIN f[m].forex : at = << m, i >>
    BY <2>4
  <2>6. Rec(Settled(f, H), at) = f[m].forex[i]
    BY <2>4, <2>5 DEF Rec, Settled
  <2>7. f[m].forex[i].pair \in Pairs \ {NoSymbol}
    BY <2>4, <2>5 DEF Kept, IsFile
  <2> QED BY <2>3, <2>6, <2>7
<1>2. PICK at \in Attributed(Realized(f, H)) : row.name = RowName(Realized(f, H), at)
  BY RowNames
<1>3. row.name.at = NoSymbol \/ row.name.at = Rec(Realized(f, H), at).symbol
  BY <1>2 DEF RowName
<1>4. Rec(Realized(f, H), at).symbol \notin Pairs
  <2>1. at \in Records(Realized(f, H))
    BY InRecords
  <2>2. at[1] \in H /\ at[2] \in DOMAIN f[at[1]].realized /\ Rec(Realized(f, H), at) = f[at[1]].realized[at[2]]
    BY <2>1, RecordFits
  <2> QED BY <2>2 DEF Kept, IsFile
<1> QED BY <1>1, <1>3, <1>4

\* The rows of the Campaigns page sum the attributed closes and the settlements.
LEMMA AllRowsSum ==
  ASSUME NEW f, NEW H, Kept(f, H)
  PROVE  PnlOf(AllRows(f, H)) = GainOf(Realized(f, H), Attributed(Realized(f, H)))
                                  + GainOf(Settled(f, H), Records(Settled(f, H)))
<1> DEFINE A == Drilldowns(Realized(f, H))
           B == ForexDrilldowns(Settled(f, H))
<1>1. IsTable(Realized(f, H)) /\ IsTable(Settled(f, H))
  BY KeptTables
<1>2. /\ IsFiniteSet(A) /\ \A row \in A : row.pnl \in Int
      /\ PnlOf(A) = GainOf(Realized(f, H), Attributed(Realized(f, H)))
  BY <1>1, DrilldownsSum
<1>3. /\ IsFiniteSet(B) /\ \A row \in B : row.pnl \in Int
      /\ PnlOf(B) = GainOf(Settled(f, H), Records(Settled(f, H)))
  BY <1>1, ForexDrilldownsSum
<1>4. A \cap B = {}
  BY RowsAreDistinct
<1>5. PnlOf(A \cup B) = PnlOf(A) + PnlOf(B)
  <2> HIDE DEF A, B
  <2> QED BY <1>2, <1>3, <1>4, PnlJoined
<1> QED BY <1>2, <1>3, <1>5 DEF AllRows

\* The campaigns counted and excluded in the months are the rows.
LEMMA CampaignsCounted ==
  ASSUME NEW t, IsTable(t)
  PROVE  TotalPerformance(t).count + TotalPerformance(t).excluded = Cardinality(Drilldowns(t))
<1> DEFINE R == Drilldowns(t)
           M == DOMAIN t
           In(m) == { row \in R : row.name.month = m }
           ones == [row \in R |-> 1]
           key == [row \in R |-> row.name.month]
           count == [m \in M |-> Performance(t, m).count]
           excluded == [m \in M |-> Performance(t, m).excluded]
<1>1. IsFiniteSet(R) /\ IsFiniteSet(M)
  BY DrilldownsSum DEF IsTable
<1>2. ASSUME NEW m \in M
      PROVE  count[m] \in Int /\ excluded[m] \in Int /\ count[m] + excluded[m] = Cardinality(In(m))
  <2>1. count[m] = Cardinality(Included(In(m))) /\ excluded[m] = Cardinality(In(m)) - Cardinality(Included(In(m)))
    BY DEF Performance
  <2>2. In(m) \in SUBSET R /\ Included(In(m)) \in SUBSET R
    BY DEF Included
  <2>3. Cardinality(Included(In(m))) \in Nat /\ Cardinality(In(m)) \in Nat
    <3> HIDE DEF In, R
    <3> QED BY <1>1, <2>2, FS_Subset, FS_CardinalityType
  <2> HIDE DEF In, count, excluded
  <2> QED BY <2>1, <2>3
<1>3. TotalPerformance(t).count = SumFunction(count) /\ TotalPerformance(t).excluded = SumFunction(excluded)
  <2> DEFINE of == [m \in M |-> Performance(t, m)]
  <2>1. [m \in DOMAIN of |-> of[m].count] = count /\ [m \in DOMAIN of |-> of[m].excluded] = excluded
    OBVIOUS
  <2>2. TotalPerformance(t).count = SumFunction([m \in DOMAIN of |-> of[m].count])
        /\ TotalPerformance(t).excluded = SumFunction([m \in DOMAIN of |-> of[m].excluded])
    BY DEF TotalPerformance
  <2> HIDE DEF of, count, excluded
  <2> QED BY <2>1, <2>2
<1>4. key \in [R -> M]
  <2>1. ASSUME NEW row \in R PROVE row.name.month \in M
    <3>1. PICK at \in Attributed(t) : row.name = RowName(t, at)
      BY RowNames
    <3>2. at \in Records(t)
      BY InRecords
    <3> QED BY <3>1, <3>2, TableRecords DEF RowName
  <2> QED BY <2>1
<1>5. \A m \in M : SumFunction(Over(ones, Group(R, key, m))) = Cardinality(In(m))
  <2> SUFFICES ASSUME NEW m \in M PROVE SumFunction(Over(ones, Group(R, key, m))) = Cardinality(In(m))
    OBVIOUS
  <2>1. Group(R, key, m) = In(m) /\ In(m) \in SUBSET R
    BY DEF Group
  <2>2. Over(ones, In(m)) = [row \in In(m) |-> 1]
    BY <2>1 DEF Over
  <2>3. IsFiniteSet(In(m))
    BY <1>1, <2>1, FS_Subset
  <2> QED BY <2>1, <2>2, <2>3, SumOfOnes
<1>6. ones \in [R -> Int] /\ SumFunction(ones) = Cardinality(R)
  BY <1>1, SumOfOnes
<1>7. SumFunction(ones) = SumFunction([m \in M |-> SumFunction(Over(ones, Group(R, key, m)))])
  <2> HIDE DEF R, M, ones, key
  <2> QED BY <1>1, <1>4, <1>6, SumGrouped
<1>8. SumFunction([m \in M |-> count[m] + excluded[m]]) = SumFunction(count) + SumFunction(excluded)
  <2>1. count \in [M -> Int] /\ excluded \in [M -> Int]
    BY <1>2
  <2> HIDE DEF count, excluded
  <2> QED BY <1>1, <2>1, SumAdded
<1>9. [m \in M |-> SumFunction(Over(ones, Group(R, key, m)))] = [m \in M |-> count[m] + excluded[m]]
  <2> HIDE DEF R, ones, key, count, excluded, In
  <2> QED BY <1>2, <1>5
<1> HIDE DEF ones, key, count, excluded
<1> QED BY <1>3, <1>6, <1>7, <1>8, <1>9

\* Without settlements the worst outcome is the worst reconciled row.
LEMMA WorstRow ==
  ASSUME NEW f, NEW H, Records(Settled(f, H)) = {}, Included(Drilldowns(Realized(f, H))) # {}
  PROVE  Outcomes(Realized(f, H), Settled(f, H)).worst
           = Min({ row.pnl : row \in Included(AllRows(f, H)) })
<1> DEFINE t == Realized(f, H)
           u == Settled(f, H)
           Result(row) == [name |-> row.name, pnl |-> row.pnl, reconciled |-> row.reconciled]
           results == CampaignResults(t, u)
<1>1. ForexDrilldowns(u) = {}
  BY DEF ForexDrilldowns
<1>2. AllRows(f, H) = Drilldowns(t)
  BY <1>1 DEF AllRows
<1>3. results = { Result(row) : row \in Drilldowns(t) }
  BY DEF CampaignResults
<1>4. \A c : c \in Included(results) <=> \E row \in Included(Drilldowns(t)) : c = Result(row)
  <2> HIDE DEF results, t
  <2> QED BY <1>3 DEF Included
<1>5. { c.pnl : c \in Included(results) } = { row.pnl : row \in Included(Drilldowns(t)) }
  <2>1. \A row : Result(row).pnl = row.pnl
    OBVIOUS
  <2> HIDE DEF results, t, Result
  <2> QED BY <1>4, <2>1
<1>6. Included(results) # {}
  <2>1. Included(Drilldowns(t)) # {}
    OBVIOUS
  <2> HIDE DEF results, t, Result
  <2> QED BY <1>4, <2>1
<1>7. Outcomes(t, u).worst = Worst(results)
  BY DEF Outcomes
<1> HIDE DEF results, t, u
<1> QED BY <1>2, <1>5, <1>6, <1>7 DEF Worst, t, u

OfSymbol(t, S, s) == { at \in S : Rec(t, at).symbol = s }

\* The campaigns of an underlying sum its reconciled records.
LEMMA UnderlyingSum ==
  ASSUME NEW t, IsTable(t), NEW s
  PROVE  UnderlyingPnl(t, s) = GainOf(t, OfSymbol(t, Reconciled(t), s))
<1> DEFINE S == OfSymbol(t, Reconciled(t), s)
           Key(at) == << Rec(t, at).symbol, at[1], CampaignOf(Rec(t, at)) >>
           With(k) == { at \in Reconciled(t) : Key(at) = k }
           Line(k, A) == [symbol |-> k[1], month |-> k[2], campaign |-> k[3], pnl |-> GainOf(t, A),
                          first |-> Min({ Rec(t, at).day : at \in A })]
           Full(at) == Line(Key(at), With(Key(at)))
           row == [at \in S |-> Full(at)]
           R == { c \in UnderlyingCampaigns(t) : c.symbol = s }
<1>1. \A r : r \in UnderlyingCampaigns(t) <=> \E at \in Reconciled(t) : r = Full(at)
  <2> DEFINE key == [at \in Reconciled(t) |-> Key(at)]
             Of(k) == { at \in DOMAIN key : key[at] = k }
             K == { key[at] : at \in DOMAIN key }
  <2>1. UnderlyingCampaigns(t) = { Line(k, Of(k)) : k \in K }
    BY DEF UnderlyingCampaigns
  <2>2. \A k : Of(k) = With(k)
    OBVIOUS
  <2>3. \A k : k \in K <=> \E at \in Reconciled(t) : k = Key(at)
    OBVIOUS
  <2> HIDE DEF key, Of, K, With, Line, Key
  <2>4. \A r : r \in UnderlyingCampaigns(t) <=> \E k \in K : r = Line(k, With(k))
    BY <2>1, <2>2
  <2>5. \A r : r \in UnderlyingCampaigns(t) <=> \E at \in Reconciled(t) : r = Line(Key(at), With(Key(at)))
    BY <2>3, <2>4
  <2> QED BY <2>5
<1>2. \A at : Full(at).symbol = Rec(t, at).symbol
  <2> HIDE DEF With, S
  <2> QED OBVIOUS
<1>3. \A at : Full(at).month = at[1] /\ Full(at).campaign = CampaignOf(Rec(t, at))
  <2> HIDE DEF With, S
  <2> QED OBVIOUS
<1>4. \A at : Full(at).pnl = GainOf(t, With(Key(at)))
  <2> HIDE DEF With, S
  <2> QED OBVIOUS
<1>5. R = { row[at] : at \in S }
  <2>1. \A at \in S : row[at] = Full(at)
    OBVIOUS
  <2>2. \A at : at \in S <=> at \in Reconciled(t) /\ Rec(t, at).symbol = s
    BY DEF OfSymbol
  <2>3. \A r : r \in R <=> r \in UnderlyingCampaigns(t) /\ r.symbol = s
    OBVIOUS
  <2> HIDE DEF row, S, Full, Line, Key, With, R
  <2>4. \A r : r \in R <=> \E at \in S : r = row[at]
    BY <1>1, <1>2, <2>1, <2>2, <2>3
  <2> QED BY <2>4
<1>6. ASSUME NEW at \in S PROVE Group(S, row, row[at]) = With(Key(at))
  <2>1. \A x \in S : row[x] = Full(x)
    OBVIOUS
  <2>2. ASSUME NEW x \in S, row[x] = row[at] PROVE Key(x) = Key(at)
    <3>1. Full(x) = Full(at)
      BY <2>1, <2>2
    <3> HIDE DEF Full, With, row, Key, Line
    <3>2. Full(x).symbol = Rec(t, x).symbol /\ Full(at).symbol = Rec(t, at).symbol
      BY <1>2
    <3>3. /\ Full(x).month = x[1] /\ Full(x).campaign = CampaignOf(Rec(t, x))
          /\ Full(at).month = at[1] /\ Full(at).campaign = CampaignOf(Rec(t, at))
      BY <1>3
    <3>4. Rec(t, x).symbol = Rec(t, at).symbol
      BY <3>1, <3>2
    <3>5. x[1] = at[1] /\ CampaignOf(Rec(t, x)) = CampaignOf(Rec(t, at))
      BY <3>1, <3>3
    <3> QED BY <3>4, <3>5 DEF Key
  <2>3. \A x \in S : Key(x) = Key(at) => row[x] = row[at]
    <3>1. \A x \in S : Key(x) = Key(at) => Full(x) = Full(at)
      OBVIOUS
    <3> HIDE DEF Full, Key, row
    <3> QED BY <2>1, <3>1
  <2>4. \A x : x \in With(Key(at)) <=> x \in Reconciled(t) /\ Key(x) = Key(at)
    OBVIOUS
  <2>5. \A x : x \in S <=> x \in Reconciled(t) /\ Rec(t, x).symbol = s
    BY DEF OfSymbol
  <2>6. \A x : Key(x) = Key(at) => Rec(t, x).symbol = Rec(t, at).symbol
    OBVIOUS
  <2>7. \A x : x \in Group(S, row, row[at]) <=> x \in S /\ row[x] = row[at]
    BY DEF Group
  <2> HIDE DEF row, S, Full, Line, Key, With
  <2>8. \A x : x \in Group(S, row, row[at]) <=> x \in With(Key(at))
    BY <2>2, <2>3, <2>4, <2>5, <2>6, <2>7
  <2> QED BY <2>8
<1>7. \A r \in R : r.pnl = GainOf(t, Group(S, row, r))
  <2>1. \A at \in S : row[at] = Full(at)
    OBVIOUS
  <2> HIDE DEF row, S, Full, Line, Key, With, R
  <2> QED BY <1>4, <1>5, <1>6, <2>1
<1>8. S \in SUBSET Records(t) /\ DOMAIN row = S
  BY DEF Reconciled, OfSymbol
<1>9. PnlOf(R) = GainOf(t, S)
  <2> HIDE DEF row, S, R
  <2> QED BY <1>5, <1>7, <1>8, GainByRows
<1> QED BY <1>9 DEF UnderlyingPnl

\* So do the lines of the concentration with its concentrated ones.
LEMMA SharesSum ==
  ASSUME NEW t, IsTable(t), NEW s
  PROVE  Shares(t, s) = GainOf(t, OfSymbol(t, Concentrated(t), s))
<1> DEFINE S == OfSymbol(t, Concentrated(t), s)
           Line(at) == ConcentrationRow(t, ConcentrationKey(t, at), WithKey(t, ConcentrationKey(t, at)))
           row == [at \in S |-> Line(at)]
           R == { line \in Concentration(t) : line.key.symbol = s }
<1>1. ASSUME NEW at
      PROVE  /\ Line(at).key = ConcentrationKey(t, at) /\ Line(at).key.symbol = Rec(t, at).symbol
             /\ Line(at).pnl = GainOf(t, WithKey(t, ConcentrationKey(t, at)))
  <2>1. Line(at).key = ConcentrationKey(t, at)
        /\ Line(at).pnl = GainOf(t, WithKey(t, ConcentrationKey(t, at)))
    BY DEF ConcentrationRow
  <2>2. ConcentrationKey(t, at).symbol = Rec(t, at).symbol
    BY DEF ConcentrationKey
  <2> HIDE DEF Line
  <2> QED BY <2>1, <2>2
<1>2. \A at \in S : row[at] = Line(at)
  OBVIOUS
<1>3. \A at : at \in S <=> at \in Concentrated(t) /\ Rec(t, at).symbol = s
  BY DEF OfSymbol
<1>4. \A x, y : ConcentrationKey(t, x) = ConcentrationKey(t, y) => Line(x) = Line(y)
  OBVIOUS
<1>5. R = { row[at] : at \in S }
  <2>1. \A line : line \in Concentration(t) <=> \E at \in Concentrated(t) : line = Line(at)
    BY ConcentrationIs
  <2>2. \A line : line \in R <=> line \in Concentration(t) /\ line.key.symbol = s
    OBVIOUS
  <2> HIDE DEF row, S, Line, R
  <2>3. \A line : line \in R <=> \E at \in S : line = row[at]
    BY <1>1, <1>2, <1>3, <2>1, <2>2
  <2> QED BY <2>3
<1>6. ASSUME NEW at \in S PROVE Group(S, row, row[at]) = WithKey(t, ConcentrationKey(t, at))
  <2>1. \A x : x \in Group(S, row, row[at]) <=> x \in S /\ row[x] = row[at]
    BY DEF Group
  <2>2. \A x : x \in WithKey(t, ConcentrationKey(t, at)) <=>
          x \in Concentrated(t) /\ ConcentrationKey(t, x) = ConcentrationKey(t, at)
    BY DEF WithKey
  <2>3. \A x : ConcentrationKey(t, x) = ConcentrationKey(t, at) => Rec(t, x).symbol = Rec(t, at).symbol
    BY DEF ConcentrationKey
  <2> HIDE DEF row, S, Line
  <2>4. \A x : x \in Group(S, row, row[at]) <=> x \in WithKey(t, ConcentrationKey(t, at))
    BY <1>1, <1>2, <1>3, <1>4, <2>1, <2>2, <2>3
  <2> QED BY <2>4
<1>7. \A line \in R : line.pnl = GainOf(t, Group(S, row, line))
  <2> HIDE DEF row, S, Line, R
  <2> QED BY <1>1, <1>2, <1>5, <1>6
<1>8. S \in SUBSET Records(t) /\ DOMAIN row = S
  BY InRecords DEF OfSymbol
<1>9. PnlOf(R) = GainOf(t, S)
  <2> HIDE DEF row, S, R
  <2> QED BY <1>5, <1>7, <1>8, GainByRows
<1> QED BY <1>9 DEF Shares

\* Without records of adjacent months both take the same ones, futures apart.
LEMMA UnderlyingsAgree ==
  ASSUME NEW f, NEW H, Kept(f, H), Records(Realized(f, H)) = Closes(Realized(f, H)),
         NEW s, s \notin Futures
  PROVE  UnderlyingPnl(Realized(f, H), s) = Shares(Realized(f, H), s)
<1>1. PICK t : t = Realized(f, H)
  OBVIOUS
<1>2. IsTable(t) /\ Records(t) = Closes(t)
  BY <1>1, KeptTables
<1>3. \A at \in Attributed(t) : ImportScoped(CampaignOf(Rec(t, at))) =>
                                CampaignOf(Rec(t, at)).symbol = Rec(t, at).symbol
  BY <1>1, ScopedName
<1>4. \A at : at \in OfSymbol(t, Reconciled(t), s) <=> at \in OfSymbol(t, Concentrated(t), s)
  BY <1>2, <1>3 DEF Reconciled, Concentrated, Attributed, OfSymbol
<1>5. OfSymbol(t, Reconciled(t), s) = OfSymbol(t, Concentrated(t), s)
  BY <1>4 DEF OfSymbol
<1>6. UnderlyingPnl(t, s) = Shares(t, s)
  BY <1>2, <1>5, UnderlyingSum, SharesSum
<1> QED BY <1>1, <1>6
-----------------------------------------------------------------------------
(***************************************************************************)
(* The realized curve.                                                     *)
(***************************************************************************)
\* A member that no other exceeds is the greatest one.
LEMMA MaxIs ==
  ASSUME NEW S \in SUBSET Int, NEW h \in S, \A x \in S : x <= h
  PROVE  Max(S) = h
<1>1. \A k \in S : (\A x \in S : k >= x) => k = h
  OBVIOUS
<1>2. h \in S /\ \A x \in S : h >= x
  OBVIOUS
<1> QED BY <1>1, <1>2 DEF Max

LEMMA MinIs ==
  ASSUME NEW S \in SUBSET Int, NEW h \in S, \A x \in S : h <= x
  PROVE  Min(S) = h
<1>1. \A k \in S : (\A x \in S : k =< x) => k = h
  OBVIOUS
<1>2. h \in S /\ \A x \in S : h =< x
  OBVIOUS
<1> QED BY <1>1, <1>2 DEF Min

\* curve[D] is the curve over the days D.
DrawsCurve(curve, t) ==
  curve = [D \in SUBSET CloseDays(t) |->
             IF D = {} THEN FlatCurve ELSE Extend(t, curve[D \ {Max(D)}], Max(D))]

\* A table of the months published.
IsDated(t) == IsTable(t) /\ DOMAIN t \subseteq Months

\* The close days are finitely many days of the calendar.
LEMMA DaysAre ==
  ASSUME NEW t, IsDated(t)
  PROVE  /\ CloseDays(t) \in SUBSET (Int \ {NoDay}) /\ IsFiniteSet(CloseDays(t))
         /\ \A at \in Closes(t) : Rec(t, at).day \in CloseDays(t)
         /\ \A d \in CloseDays(t) : \E at \in Closes(t) : d = Rec(t, at).day
<1>1. ASSUME NEW at \in Closes(t) PROVE Rec(t, at).day \in Int \ {NoDay}
  <2>1. at \in Records(t) /\ Rec(t, at).day \in Days[at[1]]
    BY DEF Closes
  <2>2. at[1] \in Months
    BY <2>1, TableRecords DEF IsDated
  <2> QED BY <2>1, <2>2, DayAssumption
<1> DEFINE day == [at \in Closes(t) |-> Rec(t, at).day]
<1>2. CloseDays(t) = { day[at] : at \in DOMAIN day }
  BY DEF CloseDays
<1>3. IsFiniteSet(DOMAIN day)
  BY TableRecords, InRecords, FS_Subset DEF IsDated
<1>4. IsFiniteSet(CloseDays(t))
  <2> HIDE DEF day
  <2> QED BY <1>2, <1>3, FiniteImage
<1> QED BY <1>1, <1>4 DEF CloseDays

\* The recursion over the days has a solution, and Curve is one at all days.
LEMMA CurveExists ==
  ASSUME NEW t, IsDated(t)
  PROVE  \E curve : DrawsCurve(curve, t) /\ Curve(t) = curve[CloseDays(t)]
<1> DEFINE S == CloseDays(t)
           Small(n) == { D \in SUBSET S : Cardinality(D) <= n }
           Step(g, D) == IF D = {} THEN FlatCurve ELSE Extend(t, g[D \ {Max(D)}], Max(D))
           Upto(g, n) == g = [D \in Small(n) |-> Step(g, D)]
           N == { n \in Nat : \E g : Upto(g, n) }
<1>1. IsFiniteSet(S) /\ S \in SUBSET Int
  BY DaysAre
<1>2. ASSUME NEW D \in SUBSET S
      PROVE  /\ Cardinality(D) \in Nat /\ Cardinality(D) <= Cardinality(S)
             /\ D # {} => /\ Max(D) \in D /\ D \ {Max(D)} \in SUBSET S
                          /\ Cardinality(D \ {Max(D)}) = Cardinality(D) - 1
             /\ Cardinality(D) = 0 => D = {}
  <2>1. IsFiniteSet(D) /\ D \in SUBSET Int
    BY <1>1, FS_Subset
  <2>2. D # {} => Max(D) \in D
    BY <2>1, Extremes
  <2> HIDE DEF S
  <2> QED BY <1>1, <2>1, <2>2, FS_Subset, FS_CardinalityType, FS_RemoveElement, FS_EmptySet
<1> HIDE DEF S
<1>3. 0 \in N
  <2>1. ASSUME NEW D \in Small(0) PROVE D = {}
    <3>1. D \in SUBSET S /\ Cardinality(D) <= 0
      OBVIOUS
    <3>2. Cardinality(D) \in Nat /\ (Cardinality(D) = 0 => D = {})
      BY <1>2, <3>1
    <3> QED BY <3>1, <3>2
  <2>2. Upto([D \in Small(0) |-> FlatCurve], 0)
    BY <2>1
  <2> QED BY <2>2
<1>4. ASSUME NEW n \in Nat, n \in N PROVE n + 1 \in N
  <2>1. PICK g : Upto(g, n)
    <3> HIDE DEF Upto
    <3> QED BY <1>4
  <2> DEFINE h == [D \in Small(n + 1) |-> Step(g, D)]
  <2>2. ASSUME NEW D \in Small(n) PROVE D \in Small(n + 1) /\ h[D] = g[D]
    <3>1. D \in Small(n + 1)
      <4>1. D \in SUBSET S /\ Cardinality(D) <= n /\ Cardinality(D) \in Nat
        BY <1>2
      <4> QED BY <4>1
    <3>2. g[D] = Step(g, D)
      <4> HIDE DEF Step
      <4> QED BY <2>1
    <3> HIDE DEF Step, Small
    <3> QED BY <3>1, <3>2
  <2>3. ASSUME NEW D \in Small(n + 1), D # {} PROVE D \ {Max(D)} \in Small(n)
    BY <1>2, <2>3
  <2>4. ASSUME NEW D \in Small(n + 1) PROVE Step(h, D) = Step(g, D)
    <3>1. D # {} => h[D \ {Max(D)}] = g[D \ {Max(D)}]
      <4> HIDE DEF h, Small
      <4> QED BY <2>2, <2>3
    <3> HIDE DEF h, Small
    <3> QED BY <3>1
  <2>5. h = [D \in Small(n + 1) |-> Step(h, D)]
    <3>1. [D \in Small(n + 1) |-> Step(h, D)] = [D \in Small(n + 1) |-> Step(g, D)]
      <4> HIDE DEF h, Small, Step
      <4> QED BY <2>4
    <3>2. h = [D \in Small(n + 1) |-> Step(g, D)]
      OBVIOUS
    <3> HIDE DEF h
    <3> QED BY <3>1, <3>2
  <2>6. Upto(h, n + 1)
    <3> HIDE DEF h
    <3> QED BY <2>5
  <2> HIDE DEF Upto
  <2> QED BY <2>6
<1>5. Cardinality(S) \in Nat /\ Cardinality(S) \in N
  <2>1. Nat \subseteq N
    <3> HIDE DEF N
    <3> QED BY <1>3, <1>4, EveryNumber
  <2>2. Cardinality(S) \in Nat
    BY <1>1, FS_CardinalityType
  <2> QED BY <2>1, <2>2
<1>6. Small(Cardinality(S)) = SUBSET S
  BY <1>2
<1>7. PICK g : Upto(g, Cardinality(S))
  BY <1>5
<1>8. \E curve : DrawsCurve(curve, t)
  <2>1. g = [D \in SUBSET S |-> Step(g, D)]
    <3> HIDE DEF Step, Small
    <3> QED BY <1>6, <1>7
  <2> QED BY <2>1 DEF DrawsCurve, S
<1> DEFINE c == CHOOSE curve : curve = [D \in SUBSET CloseDays(t) |->
                  IF D = {} THEN FlatCurve ELSE Extend(t, curve[D \ {Max(D)}], Max(D))]
<1>9. DrawsCurve(c, t)
  BY <1>8 DEF DrawsCurve
<1>10. Curve(t) = c[CloseDays(t)]
  BY DEF Curve
<1> HIDE DEF c
<1> QED BY <1>9, <1>10
-----------------------------------------------------------------------------
(***************************************************************************)
(* What the curve keeps from day to day.  T is the running total of each   *)
(* day, H its running maximum; D are the days so far.                      *)
(***************************************************************************)
\* The high is zero, or reached first on its day.
HighFits(h, hd, D, T) ==
  /\ h \in Int /\ \A e \in D : T[e] <= h
  /\ \/ h = 0 /\ hd = NoDay
     \/ h > 0 /\ hd \in D /\ T[hd] = h /\ \A e \in D : e < hd => T[e] < h

\* The peak a fall starts from: the first day at the high of the trough.
PeakFits(pd, td, D, T, H) ==
  IF H[td] = 0 THEN pd = NoDay
  ELSE pd \in D /\ pd < td /\ T[pd] = H[td] /\ \A e \in D : e < pd => T[e] < H[td]

\* No day falls deeper than the deepest fall, and the trough is its first day.
DeepFits(x, td, pd, pk, D, T, H) ==
  /\ x \in Int /\ x <= 0 /\ \A e \in D : x <= T[e] - H[e]
  /\ x < 0 => /\ td \in D /\ T[td] - H[td] = x /\ pk = H[td]
              /\ \A e \in D : e < td => T[e] - H[e] > x
              /\ PeakFits(pd, td, D, T, H)

\* A point a day, in order.
PointsFit(p, D, T) ==
  /\ p \in Seq([day : D, total : Int])
  /\ \A i \in DOMAIN p : p[i].total = T[p[i].day]
  /\ \A i, j \in DOMAIN p : i < j => p[i].day < p[j].day
  /\ \A d \in D : \E i \in DOMAIN p : p[i].day = d

\* A day keeps the high, or becomes its day.
LEMMA HighExtended ==
  ASSUME NEW S \in SUBSET (Int \ {NoDay}), NEW T \in [S -> Int], NEW D \in SUBSET S, NEW d \in D,
         \A e \in D : e <= d, NEW h, NEW hd, HighFits(h, hd, D \ {d}, T)
  PROVE  HighFits(IF T[d] > h THEN T[d] ELSE h, IF T[d] > h THEN d ELSE hd, D, T)
<1>1. T[d] \in Int /\ h \in Int /\ h >= 0
  BY DEF HighFits
<1>2. \A e \in D : T[e] \in Int /\ e \in Int
  OBVIOUS
<1>3. \A e \in D : e # d => T[e] <= h
  BY DEF HighFits
<1>4. CASE T[d] > h
  <2>1. \A e \in D : T[e] <= T[d]
    BY <1>1, <1>2, <1>3, <1>4
  <2>2. \A e \in D : e < d => T[e] < T[d]
    BY <1>1, <1>2, <1>3, <1>4
  <2> QED BY <1>1, <1>4, <2>1, <2>2 DEF HighFits
<1>5. CASE ~(T[d] > h)
  <2>1. \A e \in D : T[e] <= h
    BY <1>1, <1>3, <1>5
  <2>2. CASE h = 0 /\ hd = NoDay
    BY <1>1, <1>5, <2>1, <2>2 DEF HighFits
  <2>3. CASE ~(h = 0 /\ hd = NoDay)
    <3>1. h > 0 /\ hd \in D /\ T[hd] = h /\ hd # d /\ \A e \in D \ {d} : e < hd => T[e] < h
      BY <2>3 DEF HighFits
    <3>2. hd < d
      BY <1>2, <3>1
    <3>3. \A e \in D : e < hd => T[e] < h
      BY <1>2, <3>1, <3>2
    <3> QED BY <1>1, <1>5, <2>1, <3>1, <3>3 DEF HighFits
  <2> QED BY <2>2, <2>3
<1> QED BY <1>4, <1>5

\* The high is the maximum of zero and the totals so far.
LEMMA HighIsMax ==
  ASSUME NEW S \in SUBSET (Int \ {NoDay}), NEW T \in [S -> Int], NEW D \in SUBSET S,
         NEW h, NEW hd, HighFits(h, hd, D, T)
  PROVE  Max({0} \cup { T[e] : e \in D }) = h
<1> DEFINE A == {0} \cup { T[e] : e \in D }
<1>1. A \in SUBSET Int
  OBVIOUS
<1>2. h \in A
  BY DEF HighFits
<1>3. \A x \in A : x <= h
  BY DEF HighFits
<1>4. Max(A) = h
  <2> HIDE DEF A
  <2> QED BY <1>1, <1>2, <1>3, MaxIs
<1> QED BY <1>4 DEF A

\* A day keeps the deepest fall, or becomes its trough.
LEMMA DeepExtended ==
  ASSUME NEW S \in SUBSET (Int \ {NoDay}), NEW T \in [S -> Int], NEW H \in [S -> Int],
         NEW D \in SUBSET S, NEW d \in D, \A e \in D : e <= d,
         NEW hd, HighFits(H[d], hd, D, T),
         NEW x, NEW td, NEW pd, NEW pk, DeepFits(x, td, pd, pk, D \ {d}, T, H)
  PROVE  LET y == T[d] - H[d]
         IN IF y < x THEN DeepFits(y, d, hd, H[d], D, T, H) ELSE DeepFits(x, td, pd, pk, D, T, H)
<1>1. x \in Int /\ x <= 0 /\ T[d] \in Int /\ H[d] \in Int /\ \A e \in D : e # d => x <= T[e] - H[e]
  BY DEF DeepFits
<1>2. \A e \in D : T[e] \in Int /\ H[e] \in Int /\ e \in Int
  OBVIOUS
<1>3. CASE T[d] - H[d] < x
  <2>1. \A e \in D : T[d] - H[d] <= T[e] - H[e]
    BY <1>1, <1>2, <1>3
  <2>2. \A e \in D : e < d => T[e] - H[e] > T[d] - H[d]
    BY <1>1, <1>2, <1>3
  <2>3. PeakFits(hd, d, D, T, H)
    <3>1. T[d] # H[d]
      BY <1>1, <1>3
    <3>2. CASE H[d] = 0
      BY <3>2 DEF HighFits, PeakFits
    <3>3. CASE H[d] # 0
      <4>1. hd \in D /\ T[hd] = H[d] /\ \A e \in D : e < hd => T[e] < H[d]
        BY <3>3 DEF HighFits
      <4>2. hd < d
        BY <1>2, <3>1, <4>1
      <4> QED BY <3>3, <4>1, <4>2 DEF PeakFits
    <3> QED BY <3>2, <3>3
  <2>4. T[d] - H[d] \in Int /\ T[d] - H[d] <= 0
    BY <1>1, <1>3
  <2>5. DeepFits(T[d] - H[d], d, hd, H[d], D, T, H)
    BY <2>1, <2>2, <2>3, <2>4 DEF DeepFits
  <2> QED BY <1>3, <2>5
<1>4. CASE ~(T[d] - H[d] < x)
  <2>1. \A e \in D : x <= T[e] - H[e]
    BY <1>1, <1>2, <1>4
  <2>2. CASE x < 0
    <3>1. /\ td \in D /\ td # d /\ T[td] - H[td] = x /\ pk = H[td]
          /\ \A e \in D \ {d} : e < td => T[e] - H[e] > x
          /\ PeakFits(pd, td, D \ {d}, T, H)
      BY <2>2 DEF DeepFits
    <3>2. td < d
      BY <1>2, <3>1
    <3>3. \A e \in D : e < td => T[e] - H[e] > x
      BY <1>2, <3>1, <3>2
    <3>4. PeakFits(pd, td, D, T, H)
      <4>1. CASE H[td] = 0
        BY <3>1, <4>1 DEF PeakFits
      <4>2. CASE H[td] # 0
        <5>1. /\ pd \in D /\ pd < td /\ T[pd] = H[td]
              /\ \A e \in D \ {d} : e < pd => T[e] < H[td]
          BY <3>1, <4>2 DEF PeakFits
        <5>2. pd < d
          BY <1>2, <3>1, <3>2, <5>1
        <5>3. \A e \in D : e < pd => T[e] < H[td]
          BY <1>2, <5>1, <5>2
        <5> QED BY <4>2, <5>1, <5>3 DEF PeakFits
      <4> QED BY <4>1, <4>2
    <3>5. DeepFits(x, td, pd, pk, D, T, H)
      BY <1>1, <2>1, <3>1, <3>3, <3>4 DEF DeepFits
    <3> QED BY <1>4, <3>5
  <2>3. CASE ~(x < 0)
    <3>1. DeepFits(x, td, pd, pk, D, T, H)
      BY <1>1, <2>1, <2>3 DEF DeepFits
    <3> QED BY <1>4, <3>1
  <2> QED BY <2>2, <2>3
<1> QED BY <1>3, <1>4

\* A day adds its point at the end.
LEMMA PointsExtended ==
  ASSUME NEW S \in SUBSET (Int \ {NoDay}), NEW T \in [S -> Int], NEW D \in SUBSET S, NEW d \in D,
         \A e \in D : e <= d, NEW p, PointsFit(p, D \ {d}, T)
  PROVE  PointsFit(Append(p, [day |-> d, total |-> T[d]]), D, T)
<1> DEFINE q == Append(p, [day |-> d, total |-> T[d]])
<1>1. p \in Seq([day : D, total : Int]) /\ Len(p) \in Nat /\ DOMAIN p = 1..Len(p)
  <2> DEFINE X == [day : D \ {d}, total : Int]
             Y == [day : D, total : Int]
  <2>1. p \in Seq(X)
    BY DEF PointsFit
  <2>2. X \subseteq Y
    OBVIOUS
  <2>3. p \in Seq(Y)
    <3> HIDE DEF X, Y
    <3> QED BY <2>1, <2>2
  <2>4. Len(p) \in Nat /\ DOMAIN p = 1..Len(p)
    <3> HIDE DEF X, Y
    <3> QED BY <2>1
  <2> QED BY <2>3, <2>4
<1>2. [day |-> d, total |-> T[d]] \in [day : D, total : Int]
  OBVIOUS
<1>3. /\ q \in Seq([day : D, total : Int]) /\ DOMAIN q = 1..(Len(p) + 1)
      /\ \A i \in 1..Len(p) : q[i] = p[i]
      /\ q[Len(p) + 1] = [day |-> d, total |-> T[d]]
  BY <1>1, <1>2
<1>4. \A i \in 1..Len(p) : p[i].day \in D /\ p[i].day # d /\ p[i].total = T[p[i].day]
  <2>1. \A i \in DOMAIN p : p[i].total = T[p[i].day]
    BY DEF PointsFit
  <2>2. p \in Seq([day : D \ {d}, total : Int])
    BY DEF PointsFit
  <2>3. \A i \in 1..Len(p) : p[i] \in [day : D \ {d}, total : Int]
    <3> DEFINE X == [day : D \ {d}, total : Int]
    <3>1. p \in Seq(X)
      BY <2>2
    <3> HIDE DEF X
    <3>2. \A i \in 1..Len(p) : p[i] \in X
      BY <3>1
    <3> QED BY <3>2 DEF X
  <2> QED BY <1>1, <2>1, <2>3
<1>5. \A i, j \in 1..Len(p) : i < j => p[i].day < p[j].day
  BY <1>1 DEF PointsFit
<1>6. \A e \in D \ {d} : \E i \in 1..Len(p) : p[i].day = e
  BY <1>1 DEF PointsFit
<1> HIDE DEF q
<1>7. \A i \in DOMAIN q : q[i].total = T[q[i].day]
  <2> TAKE i \in DOMAIN q
  <2>1. CASE i \in 1..Len(p)
    BY <1>3, <1>4, <2>1
  <2>2. CASE i = Len(p) + 1
    BY <1>3, <2>2
  <2> QED BY <1>1, <1>3, <2>1, <2>2
<1>8. \A i, j \in DOMAIN q : i < j => q[i].day < q[j].day
  <2> SUFFICES ASSUME NEW i \in DOMAIN q, NEW j \in DOMAIN q, i < j PROVE q[i].day < q[j].day
    OBVIOUS
  <2>1. i \in 1..Len(p)
    BY <1>1, <1>3
  <2>2. CASE j \in 1..Len(p)
    BY <1>3, <1>5, <2>1, <2>2
  <2>3. CASE j = Len(p) + 1
    <3>1. q[j].day = d /\ q[i].day = p[i].day
      BY <1>3, <2>1, <2>3
    <3>2. p[i].day \in D /\ p[i].day # d
      BY <1>4, <2>1
    <3>3. p[i].day \in Int /\ d \in Int /\ p[i].day <= d
      BY <3>2
    <3> QED BY <3>1, <3>2, <3>3
  <2> QED BY <1>1, <1>3, <2>2, <2>3
<1>9. \A e \in D : \E i \in DOMAIN q : q[i].day = e
  <2> TAKE e \in D
  <2>1. CASE e = d
    <3>1. Len(p) + 1 \in DOMAIN q
      BY <1>1, <1>3
    <3> QED BY <1>3, <2>1, <3>1, SMTT(40)
  <2>2. CASE e # d
    <3>1. PICK i \in 1..Len(p) : p[i].day = e
      BY <1>6, <2>2
    <3>2. i \in DOMAIN q
      BY <1>1, <1>3
    <3> QED BY <1>3, <3>1, <3>2
  <2> QED BY <2>1, <2>2
<1>10. PointsFit(q, D, T)
  BY <1>3, <1>7, <1>8, <1>9 DEF PointsFit
<1> QED BY <1>10 DEF q

\* The running total of each close day and its running maximum.
RunningTotal(t) ==
  [d \in CloseDays(t) |-> GainOf(t, { at \in Closes(t) : Rec(t, at).day =< d })]

RunningHigh(t) ==
  [d \in CloseDays(t) |-> Max({0} \cup { RunningTotal(t)[e] : e \in { x \in CloseDays(t) : x =< d } })]

\* The closes of the days D.
Within(t, D) == { at \in Closes(t) : Rec(t, at).day \in D }

EarlyDays(D, S) == D \in SUBSET S /\ \A e \in S : \A d \in D : e <= d => e \in D

LEMMA RunningTyped ==
  ASSUME NEW t, IsDated(t)
  PROVE  RunningTotal(t) \in [CloseDays(t) -> Int] /\ RunningHigh(t) \in [CloseDays(t) -> Int]
<1> DEFINE S == CloseDays(t)
           T == RunningTotal(t)
<1>1. T \in [S -> Int]
  <2>1. ASSUME NEW d PROVE GainOf(t, { at \in Closes(t) : Rec(t, at).day =< d }) \in Int
    <3>1. { at \in Closes(t) : Rec(t, at).day =< d } \in SUBSET Records(t)
      BY InRecords
    <3> QED BY <3>1, GainInt DEF IsDated
  <2> QED BY <2>1 DEF RunningTotal
<1>2. ASSUME NEW d \in S PROVE Max({0} \cup { T[e] : e \in { x \in S : x =< d } }) \in Int
  <2> DEFINE D == { x \in S : x =< d }
             over == [e \in D |-> T[e]]
             A == { over[e] : e \in DOMAIN over }
  <2>1. IsFiniteSet(S)
    BY DaysAre
  <2>2. IsFiniteSet(DOMAIN over)
    BY <2>1, FS_Subset
  <2>3. IsFiniteSet(A)
    <3> HIDE DEF over
    <3> QED BY <2>2, FiniteImage
  <2>4. A = { T[e] : e \in D } /\ A \in SUBSET Int
    BY <1>1
  <2> HIDE DEF A
  <2>5. IsFiniteSet(A \cup {0}) /\ A \cup {0} \in SUBSET Int /\ A \cup {0} # {}
    BY <2>3, <2>4, FS_AddElement
  <2>6. Max(A \cup {0}) \in A \cup {0}
    BY <2>5, Extremes
  <2>7. A \cup {0} = {0} \cup { T[e] : e \in D }
    BY <2>4
  <2>8. Max(A \cup {0}) \in Int
    BY <2>5, <2>6
  <2> QED BY <2>7, <2>8
<1>3. RunningHigh(t) \in [S -> Int]
  <2> HIDE DEF T
  <2>1. RunningHigh(t) = [d \in S |-> Max({0} \cup { T[e] : e \in { x \in S : x =< d } })]
    BY DEF RunningHigh, T
  <2> HIDE DEF S
  <2> QED BY <1>2, <2>1
<1> QED BY <1>1, <1>3

\* The days up to the last of a prefix are the prefix.
LEMMA RunningAt ==
  ASSUME NEW t, IsDated(t), NEW D, EarlyDays(D, CloseDays(t)), NEW d \in D, \A e \in D : e <= d
  PROVE  /\ RunningTotal(t)[d] = GainOf(t, Within(t, D))
         /\ RunningHigh(t)[d] = Max({0} \cup { RunningTotal(t)[e] : e \in D })
         /\ RunningTotal(t)[d] = GainOf(t, Within(t, D \ {d})) + GainOf(t, ClosedOn(t, d))
<1>1. D \in SUBSET CloseDays(t) /\ \A e \in CloseDays(t) : e <= d => e \in D
  BY DEF EarlyDays
<1>2. { at \in Closes(t) : Rec(t, at).day =< d } = Within(t, D)
  BY <1>1, DaysAre DEF Within
<1>3. { x \in CloseDays(t) : x =< d } = D
  BY <1>1
<1>4. RunningTotal(t)[d] = GainOf(t, Within(t, D))
  BY <1>1, <1>2 DEF RunningTotal
<1>5. RunningHigh(t)[d] = Max({0} \cup { RunningTotal(t)[e] : e \in D })
  BY <1>1, <1>3 DEF RunningHigh
<1>6. /\ Within(t, D \ {d}) \in SUBSET Within(t, D) /\ Within(t, D) \in SUBSET Records(t)
      /\ Within(t, D) \ Within(t, D \ {d}) = ClosedOn(t, d)
  BY InRecords DEF Within, ClosedOn
<1>7. GainOf(t, Within(t, D)) = GainOf(t, Within(t, D \ {d})) + GainOf(t, ClosedOn(t, d))
  <2>1. PICK A, B : A = Within(t, D \ {d}) /\ B = Within(t, D)
    OBVIOUS
  <2>2. A \in SUBSET B /\ B \in SUBSET Records(t) /\ B \ A = ClosedOn(t, d)
    BY <1>6, <2>1
  <2>3. IsTable(t)
    BY DEF IsDated
  <2>4. GainOf(t, B) = GainOf(t, A) + GainOf(t, B \ A)
    BY <2>2, <2>3, GainJoined
  <2> QED BY <2>1, <2>2, <2>4
<1> QED BY <1>4, <1>5, <1>7

\* The fields of a curve.
CurveRecord(p, n, h, hd, x, pd, pk, td) ==
  [points |-> p, total |-> n, high |-> h, highDay |-> hd,
   deepest |-> x, peakDay |-> pd, peak |-> pk, troughDay |-> td]

CurveFits(c, t, D) ==
  /\ c = CurveRecord(c.points, c.total, c.high, c.highDay, c.deepest, c.peakDay, c.peak, c.troughDay)
  /\ c.total = GainOf(t, Within(t, D))
  /\ HighFits(c.high, c.highDay, D, RunningTotal(t))
  /\ DeepFits(c.deepest, c.troughDay, c.peakDay, c.peak, D, RunningTotal(t), RunningHigh(t))
  /\ PointsFit(c.points, D, RunningTotal(t))

\* One day of the loop keeps the curve fitting.
LEMMA CurveGrows ==
  ASSUME NEW t, IsDated(t), NEW D, EarlyDays(D, CloseDays(t)), NEW d \in D, \A e \in D : e <= d,
         NEW c, CurveFits(c, t, D \ {d})
  PROVE  CurveFits(Extend(t, c, d), t, D)
<1>1. PICK S, T, H : S = CloseDays(t) /\ T = RunningTotal(t) /\ H = RunningHigh(t)
  OBVIOUS
<1>2. /\ S \in SUBSET (Int \ {NoDay}) /\ D \in SUBSET S
      /\ T \in [S -> Int] /\ H \in [S -> Int]
  BY <1>1, DaysAre, RunningTyped DEF EarlyDays
<1>3. PICK p, n, h, hd : p = c.points /\ n = c.total /\ h = c.high /\ hd = c.highDay
  OBVIOUS
<1>4. PICK x, pd, pk, td : x = c.deepest /\ pd = c.peakDay /\ pk = c.peak /\ td = c.troughDay
  OBVIOUS
<1>5. /\ c = CurveRecord(p, n, h, hd, x, pd, pk, td)
      /\ n = GainOf(t, Within(t, D \ {d}))
      /\ HighFits(h, hd, D \ {d}, T)
      /\ DeepFits(x, td, pd, pk, D \ {d}, T, H)
      /\ PointsFit(p, D \ {d}, T)
  BY <1>1, <1>3, <1>4 DEF CurveFits
<1>6. PICK total : total = n + GainOf(t, ClosedOn(t, d))
  OBVIOUS
<1>7. T[d] = total /\ total = GainOf(t, Within(t, D)) /\ H[d] = Max({0} \cup { T[e] : e \in D })
  BY <1>1, <1>5, <1>6, RunningAt
<1>8. PICK high, highDay : high = (IF total > h THEN total ELSE h) /\ highDay = (IF total > h THEN d ELSE hd)
  OBVIOUS
<1>9. HighFits(high, highDay, D, T)
  BY <1>2, <1>5, <1>7, <1>8, HighExtended
<1>10. H[d] = high
  BY <1>2, <1>7, <1>9, HighIsMax
<1>11. PICK points : points = Append(p, [day |-> d, total |-> total])
  OBVIOUS
<1>12. PointsFit(points, D, T)
  BY <1>2, <1>5, <1>7, <1>11, PointsExtended
<1>13. Extend(t, c, d) =
         IF total - high < x
         THEN CurveRecord(points, total, high, highDay, total - high, highDay, high, d)
         ELSE CurveRecord(points, total, high, highDay, x, pd, pk, td)
  <2>1. c = CurveRecord(p, n, h, hd, x, pd, pk, td)
    BY <1>5
  <2>2. PICK e : e = [c EXCEPT !.total = total, !.high = high, !.highDay = highDay,
                               !.points = Append(@, [day |-> d, total |-> total])]
    OBVIOUS
  <2>3. e = CurveRecord(points, total, high, highDay, x, pd, pk, td)
    BY <1>11, <2>1, <2>2 DEF CurveRecord
  <2>4. PICK g : g = [e EXCEPT !.deepest = total - high, !.peakDay = highDay, !.peak = high, !.troughDay = d]
    OBVIOUS
  <2>5. g = CurveRecord(points, total, high, highDay, total - high, highDay, high, d)
    BY <2>3, <2>4 DEF CurveRecord
  <2>6. Extend(t, c, d) = IF total - high < x THEN g ELSE e
    BY <1>3, <1>4, <1>6, <1>8, <2>2, <2>4 DEF Extend
  <2> QED BY <2>3, <2>5, <2>6
<1>14. IF total - high < x THEN DeepFits(total - high, d, highDay, high, D, T, H)
                           ELSE DeepFits(x, td, pd, pk, D, T, H)
  BY <1>2, <1>5, <1>7, <1>9, <1>10, DeepExtended
<1>15. ASSUME NEW y, NEW b, NEW v, NEW a, DeepFits(y, a, b, v, D, T, H)
       PROVE  CurveFits(CurveRecord(points, total, high, highDay, y, b, v, a), t, D)
  <2>1. PICK r : r = CurveRecord(points, total, high, highDay, y, b, v, a)
    OBVIOUS
  <2>2. /\ r.points = points /\ r.total = total /\ r.high = high /\ r.highDay = highDay
        /\ r.deepest = y /\ r.peakDay = b /\ r.peak = v /\ r.troughDay = a
    BY <2>1 DEF CurveRecord
  <2> QED BY <1>1, <1>7, <1>9, <1>12, <1>15, <2>1, <2>2 DEF CurveFits
<1> QED BY <1>13, <1>14, <1>15

\* The curve fits all the days.
LEMMA CurveHolds ==
  ASSUME NEW t, IsDated(t)
  PROVE  CurveFits(Curve(t), t, CloseDays(t)) /\ Curve(t).total = GainOf(t, Closes(t))
<1>1. PICK S : S = CloseDays(t)
  OBVIOUS
<1>2. S \in SUBSET (Int \ {NoDay}) /\ IsFiniteSet(S)
  BY <1>1, DaysAre
<1>3. PICK curve : DrawsCurve(curve, t) /\ Curve(t) = curve[S]
  BY <1>1, CurveExists
<1>4. \A D \in SUBSET S : curve[D] = IF D = {} THEN FlatCurve ELSE Extend(t, curve[D \ {Max(D)}], Max(D))
  BY <1>1, <1>3 DEF DrawsCurve
<1> DEFINE F == { D \in SUBSET S : EarlyDays(D, S) => CurveFits(curve[D], t, D) }
<1>5. CurveFits(FlatCurve, t, {})
  <2>1. FlatCurve = CurveRecord(<< >>, 0, 0, NoDay, 0, NoDay, 0, NoDay)
    BY DEF FlatCurve, CurveRecord
  <2>2. GainOf(t, Within(t, {})) = 0
    <3>1. Within(t, {}) = {}
      BY DEF Within
    <3>2. DOMAIN [at \in {} |-> Rec(t, at).gain] = {}
      OBVIOUS
    <3> QED BY <3>1, <3>2, SumOverNone DEF GainOf
  <2>3. HighFits(0, NoDay, {}, RunningTotal(t))
    BY DEF HighFits
  <2>4. DeepFits(0, NoDay, NoDay, 0, {}, RunningTotal(t), RunningHigh(t))
    BY DEF DeepFits
  <2>5. PointsFit(<< >>, {}, RunningTotal(t))
    <3>1. << >> \in Seq([day : {}, total : Int])
      OBVIOUS
    <3> QED BY <3>1 DEF PointsFit
  <2> QED BY <2>1, <2>2, <2>3, <2>4, <2>5 DEF CurveFits, CurveRecord
<1>6. ASSUME NEW D \in SUBSET S, \A x \in D : D \ {x} \in F PROVE D \in F
  <2> SUFFICES ASSUME EarlyDays(D, S) PROVE CurveFits(curve[D], t, D)
    OBVIOUS
  <2>1. CASE D = {}
    BY <1>4, <1>5, <2>1
  <2>2. CASE D # {}
    <3>1. PICK d : d = Max(D)
      OBVIOUS
    <3>2. d \in D /\ \A e \in D : e <= d
      <4>1. D \in SUBSET Int /\ IsFiniteSet(D)
        BY <1>2, FS_Subset
      <4> QED BY <2>2, <3>1, <4>1, Extremes
    <3>3. EarlyDays(D \ {d}, S)
      <4>1. \A e \in S : \A x \in D \ {d} : e <= x => e \in D \ {d}
        <5> SUFFICES ASSUME NEW e \in S, NEW x \in D \ {d}, e <= x PROVE e \in D \ {d}
          OBVIOUS
        <5>1. e \in D
          BY DEF EarlyDays
        <5>2. x < d /\ e \in Int
          BY <1>2, <3>2
        <5>3. e # d
          BY <1>2, <5>2
        <5> QED BY <5>1, <5>3
      <4> QED BY <4>1 DEF EarlyDays
    <3>4. CurveFits(curve[D \ {d}], t, D \ {d})
      BY <1>6, <3>2, <3>3
    <3>5. CurveFits(Extend(t, curve[D \ {d}], d), t, D)
      BY <1>1, <3>2, <3>4, CurveGrows
    <3> QED BY <1>4, <2>2, <3>1, <3>5
  <2> QED BY <2>1, <2>2
<1>7. S \in F
  <2>1. SUBSET S \subseteq F
    <3> HIDE DEF F
    <3> QED BY <1>2, <1>6, EverySubset
  <2>2. S \in SUBSET S
    OBVIOUS
  <2> HIDE DEF F
  <2> QED BY <2>1, <2>2
<1>8. EarlyDays(S, S)
  BY DEF EarlyDays
<1>9. CurveFits(curve[S], t, S)
  BY <1>7, <1>8
<1>10. Within(t, S) = Closes(t)
  BY <1>1, DaysAre DEF Within
<1> QED BY <1>1, <1>3, <1>9, <1>10 DEF CurveFits

LEMMA PublishedKept ==
  ASSUME MonthsInv
  PROVE  Kept(files, screen.months) /\ IsDated(Realized(files, screen.months))
<1>1. Kept(files, screen.months)
  BY DEF MonthsInv, Kept, Published
<1> QED BY <1>1, KeptTables DEF IsDated, Kept

\* Every view accounts for the same dollars, whatever the files, the range and
\* the page: the months' results, the realized curve, the campaign rows with the
\* unattributed records, the concentration with what it excludes, and the
\* underlyings (dashboard.py and its summarize_* functions).
THEOREM DollarsAreShownOnce == Spec => []EveryDollarIsShownOnce
<1>1. MonthsInv => EveryDollarIsShownOnce
  <2> SUFFICES ASSUME MonthsInv PROVE EveryDollarIsShownOnce
    OBVIOUS
  <2>1. PICK f, H : f = files /\ H = screen.months
    OBVIOUS
  <2>2. PICK t, u : t = Realized(f, H) /\ u = Settled(f, H)
    OBVIOUS
  <2>3. Kept(f, H) /\ IsDated(t)
    BY <2>1, <2>2, PublishedKept
  <2>4. IsTable(t) /\ IsTable(u) /\ DOMAIN t = H /\ DOMAIN u = H
    BY <2>2, <2>3, KeptTables
  <2>5. PICK A, B, C : A = Attributed(t) /\ B = Closes(t) /\ C = Concentrated(t)
    OBVIOUS
  <2>6. B \in SUBSET Records(t) /\ A \in SUBSET B /\ C \in SUBSET A
    BY <2>5, InRecords
  <2>7. /\ GainOf(t, B) = GainOf(t, A) + GainOf(t, B \ A)
        /\ GainOf(t, B) = GainOf(t, C) + GainOf(t, B \ C)
    BY <2>4, <2>6, GainJoined
  <2>8. /\ GainOf(t, A) \in Int /\ GainOf(t, B \ A) \in Int /\ GainOf(t, C) \in Int
        /\ GainOf(t, B \ C) \in Int /\ GainOf(u, Records(u)) \in Int
    BY <2>4, <2>6, GainInt
  <2>9. PICK settled : settled = GainOf(u, Records(u))
    OBVIOUS
  <2>10. PICK total : total = MonthResults(t, u).total
    OBVIOUS
  <2>11. total = GainOf(t, B) + settled
    BY <2>4, <2>5, <2>9, <2>10, MonthTotal
  <2>12. total = Curve(t).total + settled
    BY <2>3, <2>5, <2>11, CurveHolds
  <2>13. PnlOf(AllRows(f, H)) = GainOf(t, A) + settled
    BY <2>2, <2>3, <2>5, <2>9, AllRowsSum
  <2>14. SumFunction([m \in H |-> MonthSummary(t, u, m).unattributed]) = GainOf(t, B \ A)
    BY <2>4, <2>5, LooseTotal
  <2>15. total = PnlOf(AllRows(f, H)) + SumFunction([m \in H |-> MonthSummary(t, u, m).unattributed])
    BY <2>7, <2>8, <2>9, <2>11, <2>13, <2>14
  <2>16. PnlOf(Concentration(t)) = GainOf(t, C) /\ Excluded(t) = B \ C
    BY <2>4, <2>5, ConcentrationSums DEF Excluded
  <2>17. total = PnlOf(Concentration(t)) + GainOf(t, Excluded(t)) + settled
    BY <2>7, <2>8, <2>9, <2>11, <2>16
  <2>18. TotalPerformance(t).count + TotalPerformance(t).excluded = Cardinality(Drilldowns(t))
    BY <2>4, CampaignsCounted
  <2>19. Included(Drilldowns(t)) # {} /\ Records(u) = {} =>
           Outcomes(t, u).worst = Min({ row.pnl : row \in Included(AllRows(f, H)) })
    BY <2>2, WorstRow
  <2>20. Records(t) = Closes(t) => \A s \in { Rec(t, at).symbol : at \in Records(t) } \ Futures :
           UnderlyingPnl(t, s) = Shares(t, s)
    BY <2>2, <2>3, UnderlyingsAgree
  <2> QED BY <2>1, <2>2, <2>9, <2>10, <2>12, <2>15, <2>17, <2>18, <2>19, <2>20 DEF EveryDollarIsShownOnce
<1> QED BY <1>1, MonthsHold, PTL

FirstOf(S) == IF S = {} THEN NoDay ELSE Min(S)

LEMMA FirstIs ==
  ASSUME NEW S \in SUBSET Int, NEW d \in S, \A x \in S : d <= x
  PROVE  FirstOf(S) = d
BY MinIs DEF FirstOf

\* The first point back at the peak is the first such day.
LEMMA RecoveryIs ==
  ASSUME NEW S \in SUBSET (Int \ {NoDay}), NEW T \in [S -> Int], NEW c, c.deepest # 0,
         c.troughDay \in Int, c.peak \in Int, PointsFit(c.points, S, T)
  PROVE  RecoveryDay(c) = FirstOf({ d \in S : d > c.troughDay /\ T[d] >= c.peak })
<1>1. PICK p, td, v : p = c.points /\ td = c.troughDay /\ v = c.peak
  OBVIOUS
<1> DEFINE Back == { i \in DOMAIN p : p[i].day > td /\ p[i].total >= v }
           Q == { d \in S : d > td /\ T[d] >= v }
<1>2. /\ Len(p) \in Nat /\ DOMAIN p = 1..Len(p)
      /\ \A i \in DOMAIN p : p[i].day \in S /\ p[i].total = T[p[i].day]
  <2>1. p \in Seq([day : S, total : Int]) /\ \A i \in DOMAIN p : p[i].total = T[p[i].day]
    BY <1>1 DEF PointsFit
  <2> DEFINE X == [day : S, total : Int]
  <2>2. p \in Seq(X)
    BY <2>1
  <2>3. Len(p) \in Nat /\ DOMAIN p = 1..Len(p) /\ \A i \in DOMAIN p : p[i] \in X
    <3> HIDE DEF X
    <3> QED BY <2>2
  <2>4. \A i \in DOMAIN p : p[i].day \in S
    BY <2>3
  <2> QED BY <2>1, <2>3, <2>4
<1>3. \A i, j \in DOMAIN p : i < j => p[i].day < p[j].day
  BY <1>1 DEF PointsFit
<1>4. \A d \in S : \E i \in DOMAIN p : p[i].day = d
  BY <1>1 DEF PointsFit
<1>5. \A i \in Back : p[i].day \in Q
  BY <1>2
<1>6. \A d \in Q : \E i \in Back : p[i].day = d
  <2> SUFFICES ASSUME NEW d \in Q PROVE \E i \in Back : p[i].day = d
    OBVIOUS
  <2>1. PICK i \in DOMAIN p : p[i].day = d
    BY <1>4
  <2>2. i \in Back
    BY <1>2, <2>1
  <2> QED BY <2>1, <2>2
<1>7. RecoveryDay(c) = IF Back = {} THEN NoDay ELSE p[Min(Back)].day
  BY <1>1 DEF RecoveryDay
<1>8. CASE Back = {}
  BY <1>1, <1>6, <1>7, <1>8 DEF FirstOf
<1>9. CASE Back # {}
  <2>1. Back \in SUBSET Int /\ IsFiniteSet(Back)
    <3>1. IsFiniteSet(1..Len(p)) /\ 1..Len(p) \in SUBSET Int
      BY <1>2, FS_Interval
    <3>2. Back \in SUBSET (1..Len(p))
      BY <1>2
    <3> HIDE DEF Back
    <3> QED BY <3>1, <3>2, FS_Subset
  <2>2. PICK i : i = Min(Back)
    OBVIOUS
  <2>3. i \in Back /\ \A j \in Back : i <= j
    <3> HIDE DEF Back
    <3> QED BY <1>9, <2>1, <2>2, Extremes
  <2>4. p[i].day \in Q
    BY <1>5, <2>3
  <2>5. \A d \in Q : p[i].day <= d
    <3> SUFFICES ASSUME NEW d \in Q PROVE p[i].day <= d
      OBVIOUS
    <3>1. PICK j \in Back : p[j].day = d
      BY <1>6
    <3>2. i <= j /\ i \in DOMAIN p /\ j \in DOMAIN p /\ i \in Int /\ j \in Int
      BY <1>2, <2>3
    <3>3. i = j \/ p[i].day < p[j].day
      BY <1>3, <3>2
    <3>4. p[i].day \in Int /\ p[j].day \in Int
      BY <1>2, <3>2
    <3> QED BY <3>1, <3>3, <3>4
  <2>6. Q \in SUBSET Int
    OBVIOUS
  <2>7. FirstOf(Q) = p[i].day
    <3> HIDE DEF Q
    <3> QED BY <2>4, <2>5, <2>6, FirstIs
  <2>8. RecoveryDay(c) = p[i].day
    BY <1>7, <1>9, <2>2
  <2> QED BY <1>1, <2>7, <2>8
<1> QED BY <1>8, <1>9

\* The underlyings sum the closes of the interval.
LEMMA ContributionsSum ==
  ASSUME NEW t, IsDated(t)
  PROVE  SumFunction(Contributions(t)) = GainOf(t, DrawdownInterval(t))
<1>1. PICK S : S = DrawdownInterval(t)
  OBVIOUS
<1>2. S \in SUBSET Records(t) /\ IsFiniteSet(S)
  <2>1. S \in SUBSET Records(t)
    BY <1>1, InRecords DEF DrawdownInterval
  <2> QED BY <2>1, TableRecords, FS_Subset DEF IsDated
<1> DEFINE key == [at \in S |-> Rec(t, at).symbol]
           K == { key[at] : at \in DOMAIN key }
<1>3. IsFiniteSet(K)
  <2>1. IsFiniteSet(DOMAIN key)
    BY <1>2
  <2> HIDE DEF key
  <2> QED BY <2>1, FiniteImage
<1>4. key \in [S -> K]
  OBVIOUS
<1>5. K = { Rec(t, at).symbol : at \in S }
  OBVIOUS
<1>6. \A s : Group(S, key, s) = { at \in S : Rec(t, at).symbol = s }
  BY DEF Group
<1>7. Contributions(t) = [s \in K |-> GainOf(t, Group(S, key, s))]
  <2>1. Contributions(t) = [s \in { Rec(t, at).symbol : at \in S } |->
                              GainOf(t, { at \in S : Rec(t, at).symbol = s })]
    BY <1>1 DEF Contributions, BySymbol
  <2> HIDE DEF K, key
  <2> QED BY <1>5, <1>6, <2>1
<1>8. SumFunction(Contributions(t)) = GainOf(t, S)
  <2> HIDE DEF K, key
  <2> QED BY <1>2, <1>3, <1>4, <1>7, GainGrouped DEF IsDated
<1> QED BY <1>1, <1>8

\* The closes after the peak and through the trough sum to the fall.
LEMMA IntervalGain ==
  ASSUME NEW t, IsDated(t), Curve(t).deepest < 0
  PROVE  GainOf(t, DrawdownInterval(t)) = Curve(t).deepest
<1>1. PICK S, T, H : S = CloseDays(t) /\ T = RunningTotal(t) /\ H = RunningHigh(t)
  OBVIOUS
<1>2. S \in SUBSET (Int \ {NoDay}) /\ T \in [S -> Int] /\ H \in [S -> Int]
  BY <1>1, DaysAre, RunningTyped
<1>3. PICK x, td, pd : x = Curve(t).deepest /\ td = Curve(t).troughDay /\ pd = Curve(t).peakDay
  OBVIOUS
<1>4. /\ x \in Int /\ x < 0 /\ td \in S /\ T[td] - H[td] = x
      /\ PeakFits(pd, td, S, T, H)
  BY <1>1, <1>3, CurveHolds DEF CurveFits, DeepFits
<1> DEFINE Upto(d) == { at \in Closes(t) : Rec(t, at).day =< d }
<1>5. \A d \in S : T[d] = GainOf(t, Upto(d))
  BY <1>1 DEF RunningTotal
<1>6. DrawdownInterval(t) = { at \in Closes(t) : /\ pd # NoDay => Rec(t, at).day > pd
                                                 /\ Rec(t, at).day =< td }
  BY <1>3, <1>4 DEF DrawdownInterval
<1>7. CASE H[td] = 0
  <2>1. pd = NoDay
    BY <1>4, <1>7 DEF PeakFits
  <2>2. DrawdownInterval(t) = Upto(td)
    BY <1>6, <2>1
  <2>3. GainOf(t, DrawdownInterval(t)) = T[td]
    BY <1>4, <1>5, <2>2
  <2>4. T[td] \in Int
    BY <1>2, <1>4
  <2> QED BY <1>3, <1>4, <1>7, <2>3, <2>4
<1>8. CASE H[td] # 0
  <2>1. pd \in S /\ pd < td /\ T[pd] = H[td]
    BY <1>4, <1>8 DEF PeakFits
  <2>2. pd # NoDay /\ pd \in Int /\ td \in Int /\ T[pd] \in Int /\ T[td] \in Int
    BY <1>2, <1>4, <2>1
  <2>3. \A at \in Closes(t) : Rec(t, at).day \in Int
    BY DaysAre
  <2>4. Upto(pd) \in SUBSET Upto(td) /\ Upto(td) \in SUBSET Records(t)
    <3>1. \A at \in Closes(t) : Rec(t, at).day <= pd => Rec(t, at).day <= td
      BY <2>1, <2>2, <2>3
    <3> QED BY <3>1, InRecords
  <2>5. DrawdownInterval(t) = Upto(td) \ Upto(pd)
    <3>1. \A at \in Closes(t) : Rec(t, at).day > pd <=> ~(Rec(t, at).day =< pd)
      BY <2>2, <2>3
    <3> QED BY <1>6, <2>2, <3>1
  <2>6. GainOf(t, Upto(td)) = GainOf(t, Upto(pd)) + GainOf(t, Upto(td) \ Upto(pd))
    <3> HIDE DEF Upto
    <3> QED BY <2>4, GainJoined DEF IsDated
  <2>7. GainOf(t, Upto(td) \ Upto(pd)) \in Int
    <3>1. Upto(td) \ Upto(pd) \in SUBSET Records(t)
      BY <2>4
    <3> HIDE DEF Upto
    <3> QED BY <3>1, GainInt DEF IsDated
  <2>8. T[td] = T[pd] + GainOf(t, DrawdownInterval(t)) /\ GainOf(t, DrawdownInterval(t)) \in Int
    <3> HIDE DEF Upto
    <3> QED BY <1>4, <1>5, <2>1, <2>5, <2>6, <2>7
  <2> QED BY <1>3, <1>4, <2>1, <2>2, <2>8
<1> QED BY <1>7, <1>8

\* Each figure of the drawdown is the one its definition asks for.
LEMMA DeepestFallShown ==
  ASSUME NEW t, IsDated(t)
  PROVE  ShowsDeepestFall(t)
<1>1. PICK S, T, H : S = CloseDays(t) /\ T = RunningTotal(t) /\ H = RunningHigh(t)
  OBVIOUS
<1>2. S \in SUBSET (Int \ {NoDay}) /\ T \in [S -> Int] /\ H \in [S -> Int]
  BY <1>1, DaysAre, RunningTyped
<1>3. PICK c, x, td, pd : c = Curve(t) /\ x = c.deepest /\ td = c.troughDay /\ pd = c.peakDay
  OBVIOUS
<1>4. DeepFits(x, td, pd, c.peak, S, T, H) /\ PointsFit(c.points, S, T)
  BY <1>1, <1>3, CurveHolds DEF CurveFits
<1>5. /\ x \in Int /\ x <= 0 /\ \A d \in S : x <= T[d] - H[d]
      /\ x < 0 => /\ td \in S /\ T[td] - H[td] = x /\ c.peak = H[td]
                  /\ \A d \in S : d < td => T[d] - H[d] > x
                  /\ PeakFits(pd, td, S, T, H)
  BY <1>4 DEF DeepFits
<1>6. \A d \in S : d \in Int /\ T[d] \in Int /\ H[d] \in Int
  BY <1>2
<1>7. Min({0} \cup { T[d] - H[d] : d \in S }) = x
  <2> DEFINE A == {0} \cup { T[d] - H[d] : d \in S }
  <2>1. A \in SUBSET Int
    BY <1>2
  <2>2. x \in A
    BY <1>5
  <2>3. \A y \in A : x <= y
    BY <1>5
  <2>4. Min(A) = x
    <3> HIDE DEF A
    <3> QED BY <2>1, <2>2, <2>3, MinIs
  <2> QED BY <2>4
<1>8. ASSUME x < 0 PROVE FirstOf({ d \in S : T[d] - H[d] = x }) = td
  <2> DEFINE A == { d \in S : T[d] - H[d] = x }
  <2>1. A \in SUBSET Int /\ td \in A
    BY <1>2, <1>5, <1>8
  <2>2. ASSUME NEW d \in A PROVE td <= d
    <3>1. d \in S /\ T[d] - H[d] = x
      OBVIOUS
    <3>2. ~(d < td) /\ d \in Int /\ td \in Int
      BY <1>5, <1>6, <1>8, <3>1
    <3> QED BY <3>2
  <2>3. FirstOf(A) = td
    <3> HIDE DEF A
    <3> QED BY <2>1, <2>2, FirstIs
  <2> QED BY <2>3
<1>9. ASSUME x < 0
      PROVE  pd = IF H[td] = 0 THEN NoDay ELSE FirstOf({ d \in S : T[d] = H[td] })
  <2>1. CASE H[td] = 0
    BY <1>5, <1>9, <2>1 DEF PeakFits
  <2>2. CASE H[td] # 0
    <3>1. pd \in S /\ T[pd] = H[td] /\ \A d \in S : d < pd => T[d] < H[td]
      BY <1>5, <1>9, <2>2 DEF PeakFits
    <3> DEFINE A == { d \in S : T[d] = H[td] }
    <3>2. A \in SUBSET Int /\ pd \in A
      BY <1>2, <3>1
    <3>3. \A d \in A : pd <= d
      BY <1>5, <1>6, <1>9, <3>1
    <3>4. FirstOf(A) = pd
      <4> HIDE DEF A
      <4> QED BY <3>2, <3>3, FirstIs
    <3> QED BY <2>2, <3>4
  <2> QED BY <2>1, <2>2
<1>10. ASSUME x < 0
       PROVE  RecoveryDay(c) = FirstOf({ d \in S : d > td /\ T[d] >= H[td] })
  <2>1. c.deepest # 0 /\ c.troughDay = td /\ c.peak = H[td] /\ td \in Int /\ H[td] \in Int
    BY <1>3, <1>5, <1>6, <1>10
  <2>2. RecoveryDay(c) = FirstOf({ d \in S : d > c.troughDay /\ T[d] >= c.peak })
    BY <1>2, <1>4, <2>1, RecoveryIs
  <2> QED BY <2>1, <2>2
<1>11. ASSUME x < 0 PROVE SumFunction(Contributions(t)) = x
  BY <1>3, <1>11, ContributionsSum, IntervalGain
<1> DEFINE days == CloseDays(t)
           total == [d \in days |-> GainOf(t, { at \in Closes(t) : Rec(t, at).day =< d })]
           high == [d \in days |-> Max({0} \cup { total[e] : e \in { y \in days : y =< d } })]
           deepest == Min({0} \cup { total[d] - high[d] : d \in days })
           trough == FirstOf({ d \in days : total[d] - high[d] = deepest })
<1>12. days = S /\ total = T
  BY <1>1 DEF RunningTotal
<1>13. high = H
  <2> HIDE DEF total
  <2>1. H = [d \in CloseDays(t) |-> Max({0} \cup { T[e] : e \in { y \in CloseDays(t) : y =< d } })]
    BY <1>1 DEF RunningHigh
  <2> QED BY <1>12, <2>1
<1>14. deepest = x
  <2> HIDE DEF days, total, high
  <2> QED BY <1>7, <1>12, <1>13
<1>15. x < 0 => trough = td
  <2> HIDE DEF days, total, high, deepest
  <2> QED BY <1>8, <1>12, <1>13, <1>14
<1>16. /\ Curve(t).deepest = deepest
       /\ deepest < 0 =>
            /\ Curve(t).troughDay = trough
            /\ Curve(t).peakDay = IF high[trough] = 0 THEN NoDay
                                  ELSE FirstOf({ d \in days : total[d] = high[trough] })
            /\ RecoveryDay(Curve(t)) = FirstOf({ d \in days : d > trough /\ total[d] >= high[trough] })
            /\ SumFunction(Contributions(t)) = deepest
  <2> HIDE DEF days, total, high, deepest, trough
  <2> QED BY <1>3, <1>9, <1>10, <1>11, <1>12, <1>13, <1>14, <1>15
<1> QED BY <1>16 DEF ShowsDeepestFall, FirstOf

\* The maximum drawdown is the deepest fall, on its first days, and its closes
\* sum to it, for every history of closes (summarize_realized_drawdown,
\* summarize_maximum_drawdown_contributions).
THEOREM DrawdownIsDeepest == Spec => []DrawdownIsTheDeepestFall
<1>1. MonthsInv => DrawdownIsTheDeepestFall
  BY PublishedKept, DeepestFallShown DEF DrawdownIsTheDeepestFall
<1> QED BY <1>1, MonthsHold, PTL
=============================================================================
