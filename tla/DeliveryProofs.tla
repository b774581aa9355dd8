--------------------------- MODULE DeliveryProofs ---------------------------
(***************************************************************************)
(* What AssignmentDeliveries promises of its exceptions and of the counted *)
(* deliveries for every calendar and any number of assignments, months and *)
(* imports.                                                                *)
(***************************************************************************)
EXTENDS AssignmentDeliveries, TotalsProofs, FiniteSetTheorems

(***************************************************************************)
(* The chain of published months, and what an approval is worth: it names  *)
(* its month.                                                              *)
(***************************************************************************)
Chain ==
  /\ published \in 0..LastMonth
  /\ DOMAIN books = 0..LastMonth
  /\ DOMAIN decisions = 0..LastMonth

DeliveryInv == Chain /\ DecisionDescribesTheBook

\* The snapshot of a month depends on the reports alone.
LEMMA SnapshotKept ==
  ASSUME UNCHANGED reports, NEW m
  PROVE  Snapshot(m)' = Snapshot(m)
<1>1. posted' = posted
  BY DEF reports
<1> QED
  BY <1>1 DEF Snapshot

LEMMA InitChain == Init => DeliveryInv
BY CalendarAssumption DEF Init, DeliveryInv, Chain, DecisionDescribesTheBook

(***************************************************************************)
(* Only a publication changes the chain.  It adds the next month with the  *)
(* decision that Accepts has compared with the mismatches of the very book *)
(* that is stored; the months before keep theirs.                          *)
(***************************************************************************)
LEMMA ExecutionKeepsDecisions ==
  ASSUME DeliveryInv, NEW supplied, NEW decision, Execute(supplied, decision)
  PROVE  DeliveryInv'
<1>1. PICK m \in 1..LastMonth :
        m = published + 1 /\ m \in 0..LastMonth /\ m \notin 1..published
  BY CalendarAssumption DEF DeliveryInv, Chain, Execute
<1> DEFINE book == Ending(m, supplied)
           mismatches == Mismatches(book, m)
           stored == IF mismatches = {} THEN None ELSE decision
<1>2. UNCHANGED reports
  BY DEF Execute
<1>3. CASE UNCHANGED << published, books, decisions >>
  <2>1. \A n \in 1..published' : Mismatches(books[n], n)' = Mismatches(books[n], n)
    BY <1>2, <1>3, SnapshotKept DEF Mismatches
  <2> QED
    BY <1>3, <2>1 DEF DeliveryInv, Chain, DecisionDescribesTheBook
<1>4. CASE /\ mismatches = {} \/ Accepts(decision, m, mismatches)
           /\ published' = m
           /\ books' = [books EXCEPT ![m] = book]
           /\ decisions' = [decisions EXCEPT ![m] = stored]
  <2>1. Chain'
    BY <1>1, <1>4 DEF DeliveryInv, Chain
  <2>2. books'[m] = book /\ decisions'[m] = stored
    BY <1>1, <1>4 DEF DeliveryInv, Chain
  <2>3. mismatches = IF stored = None THEN {} ELSE stored.mismatches
    BY <1>4 DEF Accepts
  <2>4. Mismatches(books[m], m)' = mismatches
    BY <1>2, <2>2, SnapshotKept DEF Mismatches
  <2>5. ASSUME NEW n \in 1..published', n # m
        PROVE  Mismatches(books[n], n)' = IF decisions'[n] = None THEN {} ELSE decisions'[n].mismatches
    <3>1. n \in 1..published
      BY <1>1, <1>4, <2>5 DEF DeliveryInv, Chain
    <3>2. books'[n] = books[n] /\ decisions'[n] = decisions[n]
      BY <1>4, <2>5, <3>1 DEF DeliveryInv, Chain
    <3>3. Mismatches(books[n], n)' = Mismatches(books[n], n)
      BY <1>2, <3>2, SnapshotKept DEF Mismatches
    <3> QED
      BY <3>1, <3>2, <3>3 DEF DeliveryInv, DecisionDescribesTheBook
  <2> HIDE DEF book, mismatches, stored
  <2>6. DecisionDescribesTheBook'
    BY <1>4, <2>2, <2>3, <2>4, <2>5 DEF DecisionDescribesTheBook
  <2> QED
    BY <2>1, <2>6 DEF DeliveryInv
<1> QED
  BY <1>1, <1>3, <1>4 DEF Execute

LEMMA StepKeepsDecisions == DeliveryInv /\ [Next]_vars => DeliveryInv'
<1> SUFFICES ASSUME DeliveryInv, [Next]_vars
             PROVE  DeliveryInv'
  OBVIOUS
<1>1. CASE UNCHANGED << reports, published, books, decisions >>
  <2>1. \A n \in 1..published' : Mismatches(books[n], n)' = Mismatches(books[n], n)
    BY <1>1, SnapshotKept DEF Mismatches
  <2> QED
    BY <1>1, <2>1 DEF DeliveryInv, Chain, DecisionDescribesTheBook
<1>2. CASE \E supplied \in SUBSET Optional, decision \in approvals \cup {None} : Execute(supplied, decision)
  BY <1>2, ExecutionKeepsDecisions
<1> QED
  BY <1>1, <1>2 DEF Next, Approve, vars

(***************************************************************************)
(* Every published month is stored with exactly the exception its book     *)
(* needs, whatever approvals the operator kept from earlier executions and *)
(* other months, and whatever documents were supplied in between.          *)
(***************************************************************************)
THEOREM DecisionsDescribeTheirBooks == Spec => []DecisionDescribesTheBook
<1>1. DeliveryInv => DecisionDescribesTheBook
  BY DEF DeliveryInv
<1> QED
  BY InitChain, StepKeepsDecisions, <1>1, PTL DEF Spec
-----------------------------------------------------------------------------
(* Sums of shares *)

SharesOf(S, e) == [a \in Assignments |-> IF a \in S /\ EquityOf[a] = e THEN Shares[a] ELSE 0]

LEMMA SharesListed ==
  ASSUME NEW S, NEW e
  PROVE  SharesOf(S, e) \in Seq(Int) /\ Len(SharesOf(S, e)) = AssignmentCount
         /\ SumOfShares(S, e) = Total(SharesOf(S, e))
BY AssignmentAssumption DEF SharesOf, Assignments, SumOfShares

LEMMA SumInt == ASSUME NEW S, NEW e PROVE SumOfShares(S, e) \in Int
BY SharesListed, TotalInt

LEMMA SumSame ==
  ASSUME NEW S, NEW T, NEW e, \A a \in Assignments : EquityOf[a] = e => (a \in S <=> a \in T)
  PROVE  SumOfShares(S, e) = SumOfShares(T, e)
<1>1. SharesOf(S, e) = SharesOf(T, e)
  BY DEF SharesOf
<1> QED BY <1>1, SharesListed

LEMMA SumApart ==
  ASSUME NEW S, NEW T, NEW U, NEW e,
         \A a \in Assignments : EquityOf[a] = e =>
           ~(a \in S /\ a \in T) /\ (a \in U <=> a \in S \/ a \in T)
  PROVE  SumOfShares(U, e) = SumOfShares(S, e) + SumOfShares(T, e)
<1> DEFINE s == SharesOf(S, e)  t == SharesOf(T, e)  u == SharesOf(U, e)
<1>1. \A a \in Assignments : u[a] = s[a] + t[a]
  BY AssignmentAssumption DEF SharesOf
<1>2. /\ s \in Seq(Int) /\ t \in Seq(Int) /\ u \in Seq(Int)
      /\ Len(s) = AssignmentCount /\ Len(t) = AssignmentCount /\ Len(u) = AssignmentCount
      /\ SumOfShares(S, e) = Total(s) /\ SumOfShares(T, e) = Total(t) /\ SumOfShares(U, e) = Total(u)
  BY SharesListed
<1> HIDE DEF s, t, u
<1> QED BY <1>1, <1>2, TotalAdded, SMTT(40) DEF Assignments

LEMMA SumNone ==
  ASSUME NEW S, NEW e, \A a \in Assignments : EquityOf[a] = e => a \notin S
  PROVE  SumOfShares(S, e) = 0
<1>1. SumOfShares(S, e) = SumOfShares(S, e) + SumOfShares(S, e)
  BY SumApart
<1> QED BY <1>1, SumInt

LEMMA SumOne ==
  ASSUME NEW S, NEW c \in Assignments,
         \A a \in Assignments : EquityOf[a] = EquityOf[c] => (a \in S <=> a = c)
  PROVE  SumOfShares(S, EquityOf[c]) = Shares[c]
<1> DEFINE s == SharesOf(S, EquityOf[c])  z == SharesOf({}, EquityOf[c])
<1>1. (\A a \in Assignments : a # c => s[a] = z[a]) /\ s[c] = Shares[c] /\ z[c] = 0
  BY DEF SharesOf
<1>2. /\ s \in Seq(Int) /\ z \in Seq(Int) /\ Len(s) = AssignmentCount /\ Len(z) = AssignmentCount
      /\ SumOfShares(S, EquityOf[c]) = Total(s) /\ SumOfShares({}, EquityOf[c]) = Total(z)
  BY SharesListed
<1>3. Total(z) = 0
  BY <1>2, SumNone
<1> HIDE DEF s, z
<1>4. Total(s) = Total(z) - z[c] + s[c]
  BY <1>1, <1>2, TotalReplaced DEF Assignments
<1> QED BY <1>1, <1>2, <1>3, <1>4, AssignmentAssumption

-----------------------------------------------------------------------------
(* The calendar *)

Days == 0..(LastDay[LastMonth] + 1)

LEMMA DaysAreNumbers ==
  /\ LastDay[LastMonth] \in Nat /\ Days \subseteq Nat
  /\ \A m \in 0..LastMonth : LastDay[m] \in Nat
BY CalendarAssumption DEF Days

LEMMA LeastDay ==
  ASSUME NEW S, S \subseteq Nat, S # {}
  PROVE  Min(S) \in S /\ \A d \in S : Min(S) <= d
<1> DEFINE Less == { ss \in Nat \X Nat : ss[1] < ss[2] }
<1>1. PICK x \in S : \A y \in S : ~(<< y, x >> \in Less)
  BY WFMin, NatLessThanWellFounded DEF OpToRel
<1>2. ASSUME NEW y \in S PROVE x <= y
  <2>1. x \in Nat /\ y \in Nat /\ ~(<< y, x >> \in Less)
    BY <1>1
  <2>2. << y, x >> \in Nat \X Nat /\ << y, x >>[1] = y /\ << y, x >>[2] = x
    BY <2>1
  <2>3. ~(y < x)
    BY <2>1, <2>2
  <2> QED BY <2>1, <2>3
<1> QED BY <1>1, <1>2 DEF Min

LEMMA NextOpenIs ==
  ASSUME NEW day \in Days, NEW closed, closed \subseteq Weekend \cup Holidays
  PROVE  /\ NextOpen(day, closed) \in (day + 1)..(day + 7)
         /\ NextOpen(day, closed) \notin closed
         /\ \A d \in (day + 1)..(day + 7) : d \notin closed => NextOpen(day, closed) <= d
<1> DEFINE open == { d \in (day + 1)..(day + 7) : d \notin closed }
<1>0. day \in Nat
  BY DaysAreNumbers
<1>1. PICK d \in (day + 1)..(day + 7) : MarketDay(d)
  BY CalendarAssumption DEF Days
<1>2. open # {} /\ open \subseteq Nat
  BY <1>0, <1>1 DEF MarketDay
<1>3. NextOpen(day, closed) = Min(open)
  BY DEF NextOpen
<1> HIDE DEF open
<1>4. Min(open) \in open /\ \A x \in open : Min(open) <= x
  BY <1>2, LeastDay
<1> QED BY <1>3, <1>4 DEF open

\* The next open day is the same however far inside a closed stretch one starts.
LEMMA NextOpenFrom ==
  ASSUME NEW day \in Days, NEW closed, closed \subseteq Weekend \cup Holidays,
         NEW n \in (day + 1)..(day + 7), n \notin closed,
         \A d \in (day + 1)..(n - 1) : d \in closed
  PROVE  NextOpen(day, closed) = n
<1>0. day \in Nat
  BY DaysAreNumbers
<1>1. /\ NextOpen(day, closed) \in (day + 1)..(day + 7) /\ NextOpen(day, closed) \notin closed
      /\ NextOpen(day, closed) <= n
  BY NextOpenIs
<1> QED BY <1>0, <1>1

(***************************************************************************)
(* What the brokers' reports have in common with one another.              *)
(***************************************************************************)
ReportsOK ==
  /\ posted \in [Assignments -> 1..LastDay[LastMonth]]
  /\ delivered \in [Assignments -> 1..(LastDay[LastMonth] + 1)]
  /\ \A a \in Assignments : Reported(posted[a], delivered[a])

(***************************************************************************)
(* Of a plain equity a delivery before a month end that is posted after it *)
(* was booked in the last three days of the month and is posted on the     *)
(* first weekday of the next one, and both months report nothing else.     *)
(***************************************************************************)
LEMMA Crossing ==
  ASSUME ReportsOK, NEW m \in Months, NEW a \in InTransit(m), Plain(EquityOf[a])
  PROVE  /\ m + 1 \in Months
         /\ InMonth(delivered[a], m) /\ InMonth(posted[a], m + 1)
         /\ LastDay[m] - 3 <= delivered[a]
         /\ posted[a] = NextOpen(LastDay[m], Weekend)
         /\ posted[a] = NextOpen(delivered[a], Weekend)
<1> DEFINE p == posted[a]  d == delivered[a]  L == LastDay[m]  first == NextOpen(L, Weekend)
<1>0. /\ a \in Assignments /\ d <= L /\ L < p /\ m \in Nat /\ m \in 1..LastMonth /\ LastMonth \in Nat
      /\ L \in Nat /\ LastDay[LastMonth] \in Nat /\ p \in 1..LastDay[LastMonth]
      /\ d \in Days /\ d \in Nat /\ L \in Days /\ p \in Nat
  BY CalendarAssumption, DaysAreNumbers, SMTT(40) DEF InTransit, Months, ReportsOK, Days
<1>1. /\ KnownCalendar /\ MarketDay(p) /\ NextOpen(d, Weekend \cup Holidays) = p
  <2>1. Reported(p, d) /\ d < p
    BY <1>0 DEF ReportsOK
  <2>2. d # p /\ d # p + 1
    BY <1>0, <2>1
  <2> QED BY <2>1, <2>2 DEF Reported, Plain
<1>2. /\ p \in (d + 1)..(d + 7) /\ p \notin Weekend
      /\ \A x \in (d + 1)..(d + 7) : MarketDay(x) => p <= x
  <2>1. \A x \in (d + 1)..(d + 7) : x \notin Weekend \cup Holidays => p <= x
    BY <1>0, <1>1, NextOpenIs
  <2>2. p \in (d + 1)..(d + 7) /\ p \notin Weekend \cup Holidays
    BY <1>0, <1>1, NextOpenIs
  <2> QED BY <2>1, <2>2 DEF MarketDay
<1>3. PICK last \in (L - 3)..L : MarketDay(last) /\ (last + 1)..L \subseteq Weekend
  BY <1>0, <1>1 DEF KnownCalendar
<1>4. /\ first \in (L + 1)..(L + 7) /\ MarketDay(first)
      /\ \A x \in (L + 1)..(L + 7) : x \notin Weekend => first <= x
  <2>1. MarketDay(first)
    BY <1>1 DEF KnownCalendar
  <2> QED BY <1>0, <2>1, NextOpenIs
<1>5. LastDay[m - 1] + 3 < L /\ LastDay[m - 1] \in Nat
  BY <1>0, CalendarAssumption, DaysAreNumbers DEF Months
<1> HIDE DEF p, d, L, first
<1>6. last <= d /\ last \in Int
  BY <1>0, <1>2, <1>3
<1>7. LastDay[m - 1] < d /\ L - 3 <= d
  BY <1>0, <1>3, <1>5, <1>6
<1>8. p = first
  <2>1. p <= first
    BY <1>0, <1>2, <1>4
  <2>2. p \in (L + 1)..(L + 7)
    BY <1>0, <1>2
  <2> QED BY <1>0, <1>2, <1>4, <2>1, <2>2
<1>9. m + 1 \in 1..LastMonth
  <2>1. m # LastMonth
    BY <1>0 DEF L
  <2> QED BY <1>0, <2>1
<1>10. p <= LastDay[m + 1] /\ L < p
  <2> DEFINE N == LastDay[m + 1]
  <2>1. PICK next \in (N - 3)..N : MarketDay(next)
    BY <1>1, <1>9 DEF KnownCalendar, Months
  <2>2. L + 3 < N /\ N \in Nat
    <3>1. LastDay[(m + 1) - 1] + 3 < LastDay[m + 1] /\ m + 1 \in 0..LastMonth
      BY <1>9, CalendarAssumption, SMTT(40)
    <3>2. (m + 1) - 1 = m
      BY <1>0
    <3> QED BY <3>1, <3>2, DaysAreNumbers DEF L
  <2> HIDE DEF N
  <2>3. next \in Int /\ d < next /\ next <= N
    BY <1>0, <2>1, <2>2
  <2>4. p <= N
    BY <1>0, <1>2, <2>1, <2>2, <2>3
  <2> QED BY <1>0, <2>4 DEF N
<1>11. NextOpen(d, Weekend) = p
  <2>1. ASSUME NEW x \in (d + 1)..(p - 1) PROVE x \in Weekend
    <3>1. CASE x <= L
      BY <1>0, <1>3, <1>6, <3>1
    <3>2. CASE L < x
      BY <1>0, <1>2, <1>4, <1>8, <3>2
    <3> QED BY <1>0, <3>1, <3>2
  <2> QED BY <1>0, <1>2, <2>1, NextOpenFrom
<1>12. m + 1 - 1 = m
  BY <1>0
<1> QED
  BY <1>0, <1>7, <1>8, <1>9, <1>10, <1>11, <1>12 DEF p, d, L, first, InMonth, Months

LEMMA AloneInTransit ==
  ASSUME ReportsOK, NEW m \in Months, NEW a \in InTransit(m), Plain(EquityOf[a]),
         NEW b \in Assignments, EquityOf[b] = EquityOf[a], b # a
  PROVE  /\ ~InMonth(posted[b], m) /\ ~InMonth(delivered[b], m)
         /\ ~InMonth(posted[b], m + 1) /\ ~InMonth(delivered[b], m + 1)
         /\ b \notin InTransit(m)
<1>1. a \in Assignments
  BY DEF InTransit
<1>2. m \in ReportedIn(a) /\ m + 1 \in ReportedIn(a) /\ m # m + 1 /\ m + 1 \in Months
  BY Crossing DEF ReportedIn, Months
<1>3. ReportedIn(a) \cap ReportedIn(b) = {}
  BY <1>1, <1>2 DEF Plain
<1>4. m \notin ReportedIn(b) /\ m + 1 \notin ReportedIn(b)
  BY <1>2, <1>3
<1>5. ~InMonth(posted[b], m) /\ ~InMonth(delivered[b], m) /\ ~InMonth(posted[b], m + 1) /\ ~InMonth(delivered[b], m + 1)
  BY <1>2, <1>4 DEF ReportedIn
<1>6. b \notin InTransit(m)
  <2>1. b \in InTransit(m) => InMonth(delivered[b], m)
    BY Crossing
  <2> QED BY <2>1, <1>5
<1> QED BY <1>5, <1>6

(***************************************************************************)
(* What an import finds: a difference of a published book from its month's *)
(* statement is approved timing, so for an equity the sum of some of its   *)
(* deliveries in transit.                                                  *)
(***************************************************************************)
TransitInv ==
  /\ ReportsOK
  /\ books \in [0..LastMonth -> Books] /\ books[0] = OpeningBook /\ decisions[0] = None
  /\ \A n \in 1..published : Timing(n, Mismatches(books[n], n))
  /\ \A approval \in approvals : Timing(approval.month, approval.mismatches)

LEMMA EquitiesAreInstruments ==
  ASSUME NEW e \in Equities
  PROVE  /\ e \in Instruments /\ e \notin Assignments
         /\ \A n : Snapshot(n)[e] = SumOfShares({ a \in Assignments : posted[a] <= LastDay[n] }, e)
BY AssignmentAssumption DEF Instruments, Snapshot

LEMMA SnapshotInt == ASSUME NEW e \in Equities, NEW n PROVE Snapshot(n)[e] \in Int
<1> DEFINE done == { a \in Assignments : posted[a] <= LastDay[n] }
<1>1. Snapshot(n)[e] = SumOfShares(done, e)
  BY EquitiesAreInstruments
<1>2. SumOfShares(done, e) \in Int
  BY SumInt
<1> QED BY <1>1, <1>2

\* The decision of month n, if one was needed, says nothing of equity e.
Undecided(n, e) == decisions[n] # None => \A item \in decisions[n].mismatches : item[1] # e

\* Of one plain equity at most one delivery is in transit.
PriorBook(n, e) ==
  \/ /\ books[n][e] = Snapshot(n)[e]
     /\ Undecided(n, e)
  \/ /\ n \in Months /\ decisions[n] # None
     /\ \E c \in InTransit(n) :
          /\ EquityOf[c] = e /\ books[n][e] = Snapshot(n)[e] + Shares[c]
          /\ << e, books[n][e], books[n][e] - Shares[c] >> \in decisions[n].mismatches

LEMMA PriorBooks ==
  ASSUME DeliveryInv, TransitInv, NEW n \in 0..published, NEW e \in Equities, Plain(e)
  PROVE  PriorBook(n, e)
<1>0. /\ e \in Instruments /\ e \notin Assignments /\ published \in 0..LastMonth /\ LastMonth \in Nat
      /\ Snapshot(n)[e] = SumOfShares({ a \in Assignments : posted[a] <= LastDay[n] }, e)
      /\ Snapshot(n)[e] \in Int /\ books[n][e] \in Int
  <2>1. e \in Instruments /\ published \in 0..LastMonth /\ LastMonth \in Nat /\ n \in 0..LastMonth
    BY EquitiesAreInstruments, CalendarAssumption DEF DeliveryInv, Chain
  <2>2. books[n] \in [Instruments -> Int]
    BY <2>1 DEF TransitInv, Books
  <2> QED BY <2>1, <2>2, EquitiesAreInstruments, SumInt
<1>1. CASE n = 0
  <2>1. Snapshot(n)[e] = 0
    <3>1. \A a \in Assignments : ~(posted[a] <= LastDay[n])
      BY <1>1, CalendarAssumption DEF TransitInv, ReportsOK
    <3> QED BY <1>0, <3>1, SumNone
  <2>2. books[n][e] = 0
    BY <1>0, <1>1 DEF TransitInv, OpeningBook
  <2> QED BY <1>1, <2>1, <2>2 DEF TransitInv, PriorBook, Undecided
<1>2. CASE n # 0
  <2>1. n \in 1..published /\ n \in Months
    BY <1>0, <1>2 DEF Months
  <2>2. /\ Timing(n, Mismatches(books[n], n))
        /\ Mismatches(books[n], n) = IF decisions[n] = None THEN {} ELSE decisions[n].mismatches
    BY <2>1 DEF TransitInv, DeliveryInv, DecisionDescribesTheBook
  <2>3. \A item \in Mismatches(books[n], n) :
          \E i \in Instruments : item = << i, books[n][i], Snapshot(n)[i] >> /\ books[n][i] # Snapshot(n)[i]
    BY DEF Mismatches
  <2>4. CASE books[n][e] = Snapshot(n)[e]
    <3>1. \A item \in Mismatches(books[n], n) : item[1] # e
      BY <2>3, <2>4
    <3> QED BY <2>2, <2>4, <3>1 DEF PriorBook, Undecided
  <2>5. CASE books[n][e] # Snapshot(n)[e]
    <3> DEFINE item == << e, books[n][e], Snapshot(n)[e] >>
    <3>1. item \in Mismatches(books[n], n)
      BY <1>0, <2>5 DEF Mismatches
    <3>2. PICK S \in SUBSET InTransit(n) : books[n][e] - Snapshot(n)[e] = SumOfShares(S, e)
      <4>1. \E S \in SUBSET InTransit(n) : item[2] - item[3] = SumOfShares(S, item[1])
        BY <2>2, <3>1 DEF Timing
      <4> QED BY <4>1
    <3>3. PICK c \in S : EquityOf[c] = e
      <4>1. SumOfShares(S, e) # 0
        BY <1>0, <2>5, <3>2
      <4> QED BY <4>1, SumNone
    <3>4. c \in InTransit(n) /\ c \in Assignments /\ S \subseteq Assignments
      BY <3>2 DEF InTransit
    <3>5. \A a \in Assignments : EquityOf[a] = e => (a \in S <=> a = c)
      BY <2>1, <3>2, <3>3, <3>4, AloneInTransit DEF TransitInv
    <3>6. SumOfShares(S, e) = Shares[c] /\ Shares[c] \in Int
      BY <3>3, <3>4, <3>5, SumOne, AssignmentAssumption
    <3>7. books[n][e] = Snapshot(n)[e] + Shares[c] /\ books[n][e] - Shares[c] = Snapshot(n)[e]
      BY <1>0, <3>2, <3>6
    <3>8. decisions[n] # None /\ item \in decisions[n].mismatches
      BY <2>2, <3>1
    <3> QED BY <2>1, <3>3, <3>4, <3>7, <3>8 DEF PriorBook
  <2> QED BY <2>4, <2>5
<1> QED BY <1>1, <1>2

LEMMA CarriedHasRow ==
  ASSUME NEW m, NEW supplied, NEW a \in CarriedDeliveries(m, supplied)
  PROVE  /\ a \in MonthAssignments(m, supplied)
         /\ \E row \in VerifiedDeliveries(m) : row.equity = EquityOf[a]
<1> DEFINE first == NextOpen(LastDay[m - 1], Weekend)
           Rows(c) == { row \in VerifiedDeliveries(m) :
             /\ row.equity = EquityOf[c] /\ row.shares = Shares[c]
             /\ NextOpen(row.day, Weekend) = posted[c] /\ posted[c] = first }
           Earlier(c) == { b \in MonthAssignments(m, supplied) : b < c /\ Rows(b) = Rows(c) }
<1>1. a \in MonthAssignments(m, supplied) /\ Cardinality(Earlier(a)) < Cardinality(Rows(a))
  BY DEF CarriedDeliveries
<1>2. IsFiniteSet(Earlier(a))
  <2>1. IsFiniteSet(Assignments)
    BY FS_Interval, AssignmentAssumption DEF Assignments
  <2> QED BY <2>1, FS_Subset DEF MonthAssignments
<1>3. Cardinality(Earlier(a)) \in Nat
  BY <1>2, FS_CardinalityType
<1>4. Rows(a) # {}
  <2> HIDE DEF Earlier, Rows
  <2>1. ~(Cardinality(Earlier(a)) < 0)
    BY <1>3
  <2> QED BY <1>1, <2>1, FS_EmptySet
<1> QED BY <1>1, <1>4

LEMMA CarriedAlone ==
  ASSUME NEW m, NEW supplied, NEW c \in MonthAssignments(m, supplied),
         NEW row \in VerifiedDeliveries(m), row.equity = EquityOf[c], row.shares = Shares[c],
         NextOpen(row.day, Weekend) = posted[c], posted[c] = NextOpen(LastDay[m - 1], Weekend),
         \A b \in MonthAssignments(m, supplied) : EquityOf[b] = EquityOf[c] => b = c
  PROVE  c \in CarriedDeliveries(m, supplied)
<1> DEFINE first == NextOpen(LastDay[m - 1], Weekend)
           Rows(a) == { r \in VerifiedDeliveries(m) :
             /\ r.equity = EquityOf[a] /\ r.shares = Shares[a]
             /\ NextOpen(r.day, Weekend) = posted[a] /\ posted[a] = first }
           Earlier(a) == { b \in MonthAssignments(m, supplied) : b < a /\ Rows(b) = Rows(a) }
<1>1. row \in Rows(c)
  OBVIOUS
<1>2. Earlier(c) = {}
  <2>1. ASSUME NEW b \in MonthAssignments(m, supplied), b < c, Rows(b) = Rows(c) PROVE FALSE
    <3>1. EquityOf[b] = EquityOf[c]
      BY <1>1, <2>1
    <3>2. b = c /\ c \in Nat
      BY <3>1, AssignmentAssumption DEF MonthAssignments, Assignments
    <3> QED BY <2>1, <3>2
  <2> QED BY <2>1
<1>3. IsFiniteSet(Rows(c))
  <2>1. IsFiniteSet(Assignments)
    BY FS_Interval, AssignmentAssumption DEF Assignments
  <2>2. IsFiniteSet({ Row(a) : a \in Assignments })
    <3> DEFINE rows == [a \in Assignments |-> Row(a)]
    <3>1. rows \in Surjection(Assignments, { Row(a) : a \in Assignments })
      BY DEF Surjection
    <3> QED BY <2>1, <3>1, FS_Surjection DEF ExistsSurjection
  <2> QED BY <2>2, FS_Subset DEF VerifiedDeliveries
<1>4. Cardinality(Rows(c)) \in Nat /\ Cardinality(Rows(c)) # 0
  BY <1>1, <1>3, FS_CardinalityType, FS_EmptySet
<1>5. Cardinality(Earlier(c)) = 0
  BY <1>2, FS_EmptySet
<1>6. Cardinality(Earlier(c)) < Cardinality(Rows(c))
  BY <1>4, <1>5
<1> QED BY <1>6 DEF CarriedDeliveries

\* The dates that the reconciler takes for one delivery
LEMMA ReportsMatch ==
  ASSUME ReportsOK, KnownCalendar, NEW a \in Assignments
  PROVE  SameDelivery(delivered[a], posted[a])
<1>1. Holidays = VerifiedClosures
  BY CalendarAssumption DEF KnownCalendar
<1> QED BY <1>1 DEF ReportsOK, Reported, SameDelivery

LEMMA EndingOf ==
  ASSUME NEW m, NEW supplied, NEW e \in Equities
  PROVE  Ending(m, supplied)[e] =
           books[m - 1][e] + (SumOfShares(AppliedAssignments(m, supplied), e)
                                + SumOfShares(AppliedRows(m, supplied), e))
<1>1. e \in Instruments /\ e \notin Assignments
  BY EquitiesAreInstruments
<1> QED BY <1>1 DEF Ending

(***************************************************************************)
(* What the month adds to its statement's figure when the one before left  *)
(* nothing of the equity in transit: the deliveries that are posted later, *)
(* and none with the next month's statement.                               *)
(***************************************************************************)
LEMMA MonthAfterNone ==
  ASSUME TransitInv, NEW m \in Months, NEW supplied, "assignments" \in supplied,
         NEW e \in Equities, Plain(e), books[m - 1][e] = Snapshot(m - 1)[e],
         Undecided(m - 1, e)
  PROVE  \E S \in SUBSET InTransit(m) :
           /\ Ending(m, supplied)[e] = Snapshot(m)[e] + SumOfShares(S, e)
           /\ \A a \in S : EquityOf[a] = e
           /\ "next statement" \in supplied => S = {}
<1> DEFINE applied == AppliedAssignments(m, supplied)
           S == { a \in AppliedRows(m, supplied) : EquityOf[a] = e }
           done(n) == { a \in Assignments : posted[a] <= LastDay[n] }
<1>0. /\ m \in 1..LastMonth /\ LastMonth \in Nat /\ m - 1 \in 0..LastMonth /\ m \in 0..LastMonth
      /\ LastDay[m] \in Nat /\ LastDay[m - 1] \in Nat /\ LastDay[m - 1] < LastDay[m]
      /\ \A a \in Assignments : posted[a] \in Nat /\ delivered[a] \in Nat /\ 0 < posted[a]
      /\ ReportsOK /\ KnownCalendar
  <2>1. m \in 1..LastMonth /\ LastMonth \in Nat /\ m - 1 \in 0..LastMonth /\ m \in 0..LastMonth
    BY CalendarAssumption DEF Months
  <2>2. LastDay[m] \in Nat /\ LastDay[m - 1] \in Nat /\ LastDay[m - 1] + 3 < LastDay[m]
    BY <2>1, CalendarAssumption, DaysAreNumbers
  <2>3. \A a \in Assignments : posted[a] \in Nat /\ delivered[a] \in Nat /\ 0 < posted[a]
    BY DaysAreNumbers DEF TransitInv, ReportsOK
  <2> QED BY <2>1, <2>2, <2>3 DEF TransitInv, Plain
<1>1. \A a \in Assignments : EquityOf[a] = e => (a \in applied <=> InMonth(posted[a], m))
  <2>1. \A row \in VerifiedDeliveries(m) : row.equity # e
    BY DEF VerifiedDeliveries, Undecided
  <2>2. \A a \in CarriedDeliveries(m, supplied) : EquityOf[a] # e
    BY <2>1, CarriedHasRow
  <2> QED BY <2>2 DEF AppliedAssignments, MonthAssignments
<1>2. ASSUME NEW a \in AppliedRows(m, supplied), EquityOf[a] = e
      PROVE  a \in InTransit(m) /\ "next statement" \notin supplied
  <2>1. /\ a \in Assignments /\ InMonth(delivered[a], m)
        /\ a \notin applied /\ a \notin BoundaryAssignments(m, supplied)
    BY <1>0, ReportsMatch DEF AppliedRows
  <2>2. LastDay[m - 1] < posted[a]
    <3>1. CASE m = 1
      BY <1>0, <2>1, <3>1, CalendarAssumption
    <3>2. CASE m # 1
      <4>1. m - 1 \in Months
        BY <1>0, <3>2 DEF Months
      <4>2. posted[a] <= LastDay[m - 1] => delivered[a] <= LastDay[m - 1]
        BY <1>2, <2>1, <4>1 DEF Plain
      <4> QED BY <1>0, <2>1, <4>2 DEF InMonth
    <3> QED BY <3>1, <3>2
  <2>3. ~(posted[a] <= LastDay[m])
    BY <1>1, <1>2, <2>1, <2>2 DEF InMonth
  <2>4. a \in InTransit(m)
    BY <1>0, <2>1, <2>3 DEF InTransit, InMonth
  <2>5. posted[a] = NextOpen(LastDay[m], Weekend)
    BY <1>0, <1>2, <2>4, Crossing
  <2> QED BY <2>1, <2>4, <2>5 DEF BoundaryAssignments
<1>3. Snapshot(m)[e] = Snapshot(m - 1)[e] + SumOfShares(applied, e)
  <2>1. Snapshot(m)[e] = SumOfShares(done(m), e) /\ Snapshot(m - 1)[e] = SumOfShares(done(m - 1), e)
    BY EquitiesAreInstruments
  <2>2. \A a \in Assignments : EquityOf[a] = e =>
          /\ ~(a \in done(m - 1) /\ a \in applied)
          /\ (a \in done(m) <=> a \in done(m - 1) \/ a \in applied)
    <3> TAKE a \in Assignments
    <3> HAVE EquityOf[a] = e
    <3>1. a \in applied <=> LastDay[m - 1] < posted[a] /\ posted[a] <= LastDay[m]
      BY <1>1 DEF InMonth
    <3> QED BY <1>0, <3>1
  <2> HIDE DEF done, applied
  <2> QED BY <2>1, <2>2, SumApart
<1>4. SumOfShares(AppliedRows(m, supplied), e) = SumOfShares(S, e)
  BY SumSame
<1>5. Ending(m, supplied)[e] = Snapshot(m)[e] + SumOfShares(S, e)
  <2>1. Ending(m, supplied)[e] =
          Snapshot(m - 1)[e] + (SumOfShares(applied, e) + SumOfShares(S, e))
    BY <1>4, EndingOf
  <2>2. Snapshot(m - 1)[e] \in Int /\ SumOfShares(applied, e) \in Int /\ SumOfShares(S, e) \in Int
    BY SumInt, SnapshotInt
  <2> QED BY <1>3, <2>1, <2>2
<1>6. S \in SUBSET InTransit(m) /\ ("next statement" \in supplied => S = {})
  BY <1>2
<1>7. \A a \in S : EquityOf[a] = e
  OBVIOUS
<1> HIDE DEF S
<1> QED BY <1>5, <1>6, <1>7

(***************************************************************************)
(* A delivery that the month before has approved is carried, and the month *)
(* reports nothing else of its equity.                                     *)
(***************************************************************************)
LEMMA MonthAfterOne ==
  ASSUME TransitInv, NEW m \in Months, NEW supplied, "assignments" \in supplied,
         NEW e \in Equities, Plain(e), m - 1 \in Months, decisions[m - 1] # None,
         NEW c \in InTransit(m - 1), EquityOf[c] = e,
         books[m - 1][e] = Snapshot(m - 1)[e] + Shares[c],
         << e, books[m - 1][e], books[m - 1][e] - Shares[c] >> \in decisions[m - 1].mismatches
  PROVE  Ending(m, supplied)[e] = Snapshot(m)[e]
<1> DEFINE done(n) == { a \in Assignments : posted[a] <= LastDay[n] }
<1>0. /\ c \in Assignments /\ ReportsOK /\ (m - 1) + 1 = m
      /\ LastDay[m] \in Nat /\ LastDay[m - 1] \in Nat /\ LastDay[m - 1] < LastDay[m]
      /\ \A a \in Assignments : posted[a] \in Nat /\ delivered[a] \in Nat
  <2>1. m \in 1..LastMonth /\ m - 1 \in 0..LastMonth /\ m \in 0..LastMonth /\ (m - 1) + 1 = m
    BY CalendarAssumption DEF Months
  <2>2. LastDay[m] \in Nat /\ LastDay[m - 1] \in Nat /\ LastDay[m - 1] + 3 < LastDay[m]
    BY <2>1, CalendarAssumption, DaysAreNumbers
  <2>3. \A a \in Assignments : posted[a] \in Nat /\ delivered[a] \in Nat
    BY DaysAreNumbers DEF TransitInv, ReportsOK
  <2> QED BY <2>1, <2>2, <2>3 DEF TransitInv, InTransit
<1>1. /\ InMonth(delivered[c], m - 1) /\ InMonth(posted[c], m)
      /\ LastDay[m - 1] - 3 <= delivered[c]
      /\ posted[c] = NextOpen(LastDay[m - 1], Weekend)
      /\ posted[c] = NextOpen(delivered[c], Weekend)
  BY <1>0, Crossing
<1>2. \A b \in Assignments : EquityOf[b] = e /\ b # c =>
        ~InMonth(posted[b], m) /\ ~InMonth(delivered[b], m)
  BY <1>0, AloneInTransit
<1>3. c \in MonthAssignments(m, supplied)
  BY <1>0, <1>1 DEF MonthAssignments
<1>4. Row(c) \in VerifiedDeliveries(m)
  BY <1>0, <1>1 DEF VerifiedDeliveries, Row, InTransit
<1>5. \A b \in MonthAssignments(m, supplied) : EquityOf[b] = EquityOf[c] => b = c
  BY <1>2 DEF MonthAssignments
<1>6. Row(c).equity = EquityOf[c] /\ Row(c).shares = Shares[c] /\ Row(c).day = delivered[c]
  BY DEF Row
<1>7. c \in CarriedDeliveries(m, supplied)
  BY <1>1, <1>3, <1>4, <1>5, <1>6, CarriedAlone
<1>8. \A a \in Assignments : EquityOf[a] = e => a \notin AppliedAssignments(m, supplied)
  BY <1>2, <1>7 DEF AppliedAssignments, MonthAssignments
<1>9. \A a \in Assignments : EquityOf[a] = e => a \notin AppliedRows(m, supplied)
  <2>1. ~InMonth(delivered[c], m)
    BY <1>0, <1>1 DEF InMonth
  <2> QED BY <1>2, <2>1 DEF AppliedRows
<1>10. Ending(m, supplied)[e] = books[m - 1][e]
  <2>1. SumOfShares(AppliedAssignments(m, supplied), e) = 0 /\ SumOfShares(AppliedRows(m, supplied), e) = 0
    BY <1>8, <1>9, SumNone
  <2>2. books[m - 1][e] \in Int
    <3>1. Snapshot(m - 1)[e] \in Int /\ Shares[c] \in Int
      BY <1>0, SnapshotInt, AssignmentAssumption
    <3> QED BY <3>1
  <2> QED BY <2>1, <2>2, EndingOf
<1>11. Snapshot(m)[e] = Snapshot(m - 1)[e] + Shares[c]
  <2>1. Snapshot(m)[e] = SumOfShares(done(m), e) /\ Snapshot(m - 1)[e] = SumOfShares(done(m - 1), e)
    BY EquitiesAreInstruments
  <2>2. \A a \in Assignments : EquityOf[a] = e =>
          /\ ~(a \in done(m - 1) /\ a \in {c})
          /\ (a \in done(m) <=> a \in done(m - 1) \/ a \in {c})
    BY <1>0, <1>1, <1>2 DEF InMonth
  <2>3. SumOfShares({c}, e) = Shares[c]
    BY <1>0, SumOne
  <2> HIDE DEF done
  <2> QED BY <2>1, <2>2, <2>3, SumApart
<1> QED BY <1>10, <1>11

(***************************************************************************)
(* Both properties speak of what an import has computed from the month     *)
(* before.                                                                 *)
(***************************************************************************)
LEMMA MonthCounts ==
  ASSUME DeliveryInv, TransitInv, NEW m \in Months, m - 1 \in 0..published,
         NEW supplied, "assignments" \in supplied, NEW e \in Equities, Plain(e)
  PROVE  /\ CountsOnce(Ending(m, supplied), m, e)
         /\ "next statement" \in supplied /\ decisions[m - 1] = None
              => Ending(m, supplied)[e] = Snapshot(m)[e]
<1> DEFINE done == { a \in Assignments : posted[a] <= LastDay[m] }
<1>1. Snapshot(m)[e] = SumOfShares(done, e) /\ Snapshot(m)[e] \in Int
  BY EquitiesAreInstruments, SumInt
<1>2. PICK S \in SUBSET InTransit(m) :
        /\ Ending(m, supplied)[e] = Snapshot(m)[e] + SumOfShares(S, e)
        /\ "next statement" \in supplied /\ decisions[m - 1] = None => S = {}
  <2>1. PriorBook(m - 1, e)
    BY PriorBooks
  <2> DEFINE Settled == books[m - 1][e] = Snapshot(m - 1)[e] /\ Undecided(m - 1, e)
             Waiting(c) == /\ EquityOf[c] = e /\ books[m - 1][e] = Snapshot(m - 1)[e] + Shares[c]
                           /\ << e, books[m - 1][e], books[m - 1][e] - Shares[c] >>
                                \in decisions[m - 1].mismatches
  <2>2. \/ Settled
        \/ m - 1 \in Months /\ decisions[m - 1] # None /\ \E c \in InTransit(m - 1) : Waiting(c)
    BY <2>1 DEF PriorBook
  <2>3. CASE Settled
    <3>1. books[m - 1][e] = Snapshot(m - 1)[e] /\ Undecided(m - 1, e)
      BY <2>3
    <3>2. \E S \in SUBSET InTransit(m) :
            /\ Ending(m, supplied)[e] = Snapshot(m)[e] + SumOfShares(S, e)
            /\ \A a \in S : EquityOf[a] = e
            /\ "next statement" \in supplied => S = {}
      BY <3>1, MonthAfterNone
    <3> HIDE DEF done
    <3> QED BY <3>2
  <2>4. CASE m - 1 \in Months /\ decisions[m - 1] # None /\ \E c \in InTransit(m - 1) : Waiting(c)
    <3>1. PICK c \in InTransit(m - 1) : Waiting(c)
      BY <2>4
    <3>2. Ending(m, supplied)[e] = Snapshot(m)[e]
      BY <2>4, <3>1, MonthAfterOne
    <3>3. SumOfShares({}, e) = 0
      BY SumNone
    <3>4. Ending(m, supplied)[e] = Snapshot(m)[e] + SumOfShares({}, e)
      BY <1>1, <3>2, <3>3
    <3> QED BY <3>4
  <2> HIDE DEF Settled, Waiting
  <2> QED BY <2>2, <2>3, <2>4
<1>3. CountsOnce(Ending(m, supplied), m, e)
  <2> DEFINE T == done \cup S
  <2>1. \A a \in S : a \in Assignments /\ delivered[a] <= LastDay[m] /\ LastDay[m] < posted[a]
    BY <1>2 DEF InTransit
  <2>2. SumOfShares(T, e) = SumOfShares(done, e) + SumOfShares(S, e)
    <3>1. \A a \in Assignments : ~(a \in done /\ a \in S)
      <4> SUFFICES ASSUME NEW a \in Assignments, a \in done, a \in S PROVE FALSE
        OBVIOUS
      <4>1. posted[a] \in Nat /\ LastDay[m] \in Nat
        BY DaysAreNumbers, CalendarAssumption DEF TransitInv, ReportsOK, Months
      <4> QED BY <2>1, <4>1
    <3> HIDE DEF done
    <3> QED BY <3>1, SumApart
  <2>3. /\ T \in SUBSET { a \in Assignments : posted[a] <= LastDay[m] \/ delivered[a] <= LastDay[m] }
        /\ { a \in Assignments : posted[a] <= LastDay[m] /\ delivered[a] <= LastDay[m] } \subseteq T
    BY <2>1
  <2>4. Ending(m, supplied)[e] = SumOfShares(T, e)
    BY <1>1, <1>2, <2>2
  <2> HIDE DEF T
  <2> QED BY <2>3, <2>4 DEF CountsOnce
<1>4. ASSUME S = {} PROVE Ending(m, supplied)[e] = Snapshot(m)[e]
  <2>1. SumOfShares(S, e) = 0
    BY <1>4, SumNone
  <2>2. Snapshot(m)[e] + SumOfShares(S, e) = Snapshot(m)[e]
    BY <1>1, <2>1
  <2> QED BY <1>2, <2>2
<1> QED BY <1>2, <1>3, <1>4

-----------------------------------------------------------------------------
(* Deliveries are counted once *)

LEMMA ReportsKept ==
  ASSUME UNCHANGED reports, NEW n, NEW e, NEW book, NEW mismatches
  PROVE  /\ ReportsOK' <=> ReportsOK
         /\ Plain(e)' <=> Plain(e)
         /\ CountsOnce(book, n, e)' <=> CountsOnce(book, n, e)
         /\ Timing(n, mismatches)' <=> Timing(n, mismatches)
         /\ Mismatches(book, n)' = Mismatches(book, n)
<1>1. posted' = posted /\ delivered' = delivered
  BY DEF reports
<1>2. Snapshot(n)' = Snapshot(n)
  BY SnapshotKept
<1>3. ReportsOK' <=> ReportsOK
  BY <1>1 DEF ReportsOK
<1>4. Plain(e)' <=> Plain(e)
  BY <1>1 DEF Plain, ReportedIn
<1>5. CountsOnce(book, n, e)' <=> CountsOnce(book, n, e)
  BY <1>1 DEF CountsOnce
<1>6. Timing(n, mismatches)' <=> Timing(n, mismatches)
  BY <1>1 DEF Timing, InTransit
<1>7. Mismatches(book, n)' = Mismatches(book, n)
  BY <1>2 DEF Mismatches
<1> QED BY <1>3, <1>4, <1>5, <1>6, <1>7

LEMMA TimingKept ==
  ASSUME UNCHANGED reports, NEW n, books'[n] = books[n], Timing(n, Mismatches(books[n], n))
  PROVE  Timing(n, Mismatches(books[n], n))'
<1>1. Mismatches(books[n], n)' = Mismatches(books[n], n)
  BY SnapshotKept DEF Mismatches
<1>2. InTransit(n)' = InTransit(n)
  BY DEF InTransit, reports
<1> QED BY <1>1, <1>2 DEF Timing

LEMMA EndingTyped ==
  ASSUME TransitInv, NEW m \in Months, NEW supplied
  PROVE  Ending(m, supplied) \in Books
<1>1. m - 1 \in 0..LastMonth
  BY CalendarAssumption DEF Months
<1>2. books[m - 1] \in [Instruments -> Int]
  BY <1>1 DEF TransitInv, Books
<1> DEFINE S == AppliedAssignments(m, supplied)  T == AppliedRows(m, supplied)
<1>3. \A i : SumOfShares(S, i) \in Int /\ SumOfShares(T, i) \in Int
  BY SumInt
<1>4. \A i \in Instruments :
        books[m - 1][i] + (IF i \in Assignments
                             THEN IF i \in MonthAssignments(m, supplied) THEN 1 ELSE 0
                             ELSE SumOfShares(S, i) + SumOfShares(T, i)) \in Int
  <2> TAKE i \in Instruments
  <2> DEFINE x == books[m - 1][i]  y == SumOfShares(S, i)  z == SumOfShares(T, i)
  <2>1. x \in Int /\ y \in Int /\ z \in Int
    BY <1>2, <1>3
  <2> HIDE DEF x, y, z
  <2>2. x + (y + z) \in Int /\ x + 1 \in Int /\ x + 0 \in Int
    BY <2>1
  <2> QED BY <2>2 DEF x, y, z
<1> QED BY <1>4 DEF Ending, Books

LEMMA InitTransit == Init => TransitInv
<1> SUFFICES ASSUME Init PROVE TransitInv
  OBVIOUS
<1>1. ReportsOK
  BY DEF Init, ReportsOK
<1>2. OpeningBook \in Books
  BY DEF OpeningBook, Books
<1>3. 0 \in 0..LastMonth
  BY CalendarAssumption
<1>4. books \in [0..LastMonth -> Books] /\ books[0] = OpeningBook /\ decisions[0] = None
  BY <1>2, <1>3 DEF Init
<1>5. published = 0 /\ approvals = {}
  BY DEF Init
<1> QED BY <1>1, <1>4, <1>5 DEF TransitInv

LEMMA ApprovalIsTiming == ASSUME TransitInv, Approve PROVE TransitInv'
<1> DEFINE mismatches == Mismatches(execution.book, execution.month)
           approval == [kind |-> "decision", month |-> execution.month, mismatches |-> mismatches]
<1>1. /\ Timing(execution.month, mismatches) /\ approvals' = approvals \cup {approval}
      /\ UNCHANGED << reports, published, books, decisions >>
  BY DEF Approve
<1>2. approval.month = execution.month /\ approval.mismatches = mismatches
  OBVIOUS
<1> HIDE DEF mismatches, approval
<1>3. \A x \in approvals' : Timing(x.month, x.mismatches)
  BY <1>1, <1>2 DEF TransitInv
<1>4. \A x \in approvals' : Timing(x.month, x.mismatches)'
  BY <1>1, <1>3, ReportsKept
<1>5. \A n \in 1..published : Timing(n, Mismatches(books[n], n))'
  <2> TAKE n \in 1..published
  <2>1. Timing(n, Mismatches(books[n], n))
    BY DEF TransitInv
  <2> QED BY <1>1, <2>1, TimingKept
<1>6. ReportsOK'
  BY <1>1, ReportsKept DEF TransitInv
<1> QED BY <1>1, <1>4, <1>5, <1>6 DEF TransitInv

LEMMA PublicationIsTiming ==
  ASSUME DeliveryInv, TransitInv, NEW supplied, NEW decision \in approvals \cup {None},
         Execute(supplied, decision)
  PROVE  TransitInv'
<1>1. PICK m : m = published + 1
  OBVIOUS
<1>2. m \in Months /\ m \in 0..LastMonth /\ m # 0 /\ m \notin 1..published
      /\ published' \in {published, m} /\ 1..m = (1..published) \cup {m}
  <2>1. published \in Nat /\ published < LastMonth /\ LastMonth \in Nat
    BY CalendarAssumption DEF DeliveryInv, Chain, Execute
  <2>2. published' \in {published, m}
    BY <1>1 DEF Execute
  <2>3. \A x : x \in 1..m <=> x \in 1..published \/ x = m
    BY <1>1, <2>1
  <2> QED BY <1>1, <2>1, <2>2, <2>3 DEF Months
<1> DEFINE book == Ending(m, supplied)
           mismatches == Mismatches(book, m)
<1>3. /\ UNCHANGED << reports, approvals >> /\ UNCHANGED << posted, delivered >>
      /\ \/ UNCHANGED << published, books, decisions >>
         \/ /\ mismatches = {} \/ Accepts(decision, m, mismatches)
            /\ published' = m /\ books' = [books EXCEPT ![m] = book]
            /\ decisions' = [decisions EXCEPT ![m] = IF mismatches = {} THEN None ELSE decision]
  BY <1>1 DEF Execute, reports
<1>4. ReportsOK'
  BY <1>3, ReportsKept DEF TransitInv
<1>5. \A x \in approvals' : Timing(x.month, x.mismatches)'
  BY <1>3, ReportsKept DEF TransitInv
<1>6. book \in Books
  BY <1>2, EndingTyped
<1>7. Timing(m, mismatches) \/ UNCHANGED << published, books, decisions >>
  <2>1. CASE mismatches = {}
    BY <2>1 DEF Timing
  <2>2. CASE Accepts(decision, m, mismatches)
    <3>1. decision \in approvals /\ decision.month = m /\ decision.mismatches = mismatches
      BY <2>2 DEF Accepts
    <3> QED BY <3>1 DEF TransitInv
  <2> QED BY <1>3, <2>1, <2>2
<1>8. ASSUME NEW n \in 1..published PROVE Timing(n, Mismatches(books[n], n))
  BY DEF TransitInv
<1> HIDE DEF book
<1>9. CASE UNCHANGED << published, books, decisions >>
  <2>1. \A n \in 1..published : Timing(n, Mismatches(books[n], n))'
    BY <1>3, <1>8, <1>9, TimingKept
  <2> QED BY <1>4, <1>5, <1>9, <2>1 DEF TransitInv
<1>10. CASE ~UNCHANGED << published, books, decisions >>
  <2>1. /\ published' = m /\ books' = [books EXCEPT ![m] = book]
        /\ decisions' = [decisions EXCEPT ![m] = IF mismatches = {} THEN None ELSE decision]
    BY <1>3, <1>10
  <2>2. books' \in [0..LastMonth -> Books] /\ books'[0] = OpeningBook /\ decisions'[0] = None
        /\ books'[m] = book /\ \A n \in 1..published : books'[n] = books[n]
    <3>1. books \in [0..LastMonth -> Books] /\ books[0] = OpeningBook /\ decisions[0] = None
          /\ DOMAIN decisions = 0..LastMonth /\ published \in 0..LastMonth /\ 0 \in 0..LastMonth
          /\ LastMonth \in Nat
      BY CalendarAssumption DEF TransitInv, DeliveryInv, Chain
    <3> QED BY <1>2, <1>6, <2>1, <3>1
  <2>3. ASSUME NEW n \in 1..published' PROVE Timing(n, Mismatches(books[n], n))'
    <3>1. CASE n = m
      <4>1. Mismatches(books[n], n)' = mismatches
        BY <1>3, <2>2, <3>1, SnapshotKept DEF Mismatches
      <4>2. Timing(n, mismatches)
        BY <1>7, <1>10, <3>1
      <4> HIDE DEF mismatches
      <4>3. InTransit(n)' = InTransit(n)
        BY <1>3 DEF InTransit
      <4> QED BY <4>1, <4>2, <4>3 DEF Timing
    <3>2. CASE n \in 1..published
      <4>1. books'[n] = books[n]
        BY <2>2, <3>2
      <4>2. Timing(n, Mismatches(books[n], n))
        BY <1>8, <3>2
      <4> QED BY <1>3, <4>1, <4>2, TimingKept
    <3> QED BY <1>2, <2>1, <2>3, <3>1, <3>2
  <2> QED BY <1>4, <1>5, <2>2, <2>3 DEF TransitInv
<1> QED BY <1>9, <1>10

CountsInv == PlainDeliveriesCountedOnce /\ NextStatementReconciles

LEMMA ExecutionCounts ==
  ASSUME DeliveryInv, TransitInv, NEW supplied, NEW decision, Execute(supplied, decision)
  PROVE  CountsInv'
<1>1. PICK m : m = published + 1
  OBVIOUS
<1>2. m \in Months /\ m - 1 \in 0..published /\ m - 1 # m /\ published \in 0..LastMonth
      /\ m - 1 \in 0..LastMonth
  BY <1>1, CalendarAssumption DEF DeliveryInv, Chain, Execute, Months
<1> DEFINE book == Ending(m, supplied)
<1>3. /\ UNCHANGED << posted, delivered >> /\ UNCHANGED reports
      /\ execution' = [kind |-> "execution", month |-> m, supplied |-> supplied, book |-> book]
      /\ \/ UNCHANGED decisions
         \/ \E d : decisions' = [decisions EXCEPT ![m] = d]
  BY <1>1 DEF Execute, reports
<1> HIDE DEF book
<1>4. execution'.month = m /\ execution'.supplied = supplied /\ execution'.book = book
  BY <1>3
<1>5. decisions'[m - 1] = decisions[m - 1]
  BY <1>2, <1>3 DEF DeliveryInv, Chain
<1>6. ASSUME "assignments" \in supplied, NEW e \in Equities, Plain(e)
      PROVE  /\ CountsOnce(book, m, e)
             /\ "next statement" \in supplied /\ decisions[m - 1] = None
                  => book[e] = Snapshot(m)[e]
  BY <1>2, <1>6, MonthCounts DEF book
<1>7. Complete' => "assignments" \in supplied
  BY <1>4 DEF Complete
<1>8. PlainDeliveriesCountedOnce'
  <2> SUFFICES ASSUME Complete', NEW e \in Equities, Plain(e)'
               PROVE  CountsOnce(execution.book, execution.month, e)'
    BY DEF PlainDeliveriesCountedOnce
  <2>1. Plain(e)
    BY <1>3, ReportsKept
  <2>2. CountsOnce(book, m, e)
    BY <1>6, <1>7, <2>1
  <2> QED BY <1>3, <1>4, <2>2 DEF CountsOnce
<1>9. NextStatementReconciles'
  <2> SUFFICES ASSUME Complete', "next statement" \in supplied, decisions[m - 1] = None,
                      NEW e \in Equities, Plain(e)'
               PROVE  book[e] = Snapshot(m)'[e]
    BY <1>4, <1>5 DEF NextStatementReconciles
  <2>1. Plain(e)
    BY <1>3, ReportsKept
  <2>2. book[e] = Snapshot(m)[e]
    BY <1>6, <1>7, <2>1
  <2> QED BY <1>3, <2>2, SnapshotKept
<1> QED BY <1>8, <1>9 DEF CountsInv

LEMMA DeliveriesAreInductive ==
  DeliveryInv /\ TransitInv /\ CountsInv /\ [Next]_vars => (DeliveryInv /\ TransitInv /\ CountsInv)'
<1> SUFFICES ASSUME DeliveryInv, TransitInv, CountsInv, [Next]_vars
             PROVE  TransitInv' /\ CountsInv'
  BY StepKeepsDecisions
<1>1. ASSUME UNCHANGED << reports, execution, decisions >> PROVE CountsInv'
  <2>1. ASSUME NEW e \in Equities, Plain(e)', Complete' PROVE Plain(e) /\ Complete
    BY <1>1, <2>1, ReportsKept DEF Complete
  <2>2. PlainDeliveriesCountedOnce'
    <3> SUFFICES ASSUME Complete', NEW e \in Equities, Plain(e)'
                 PROVE  CountsOnce(execution.book, execution.month, e)'
      BY DEF PlainDeliveriesCountedOnce
    <3>1. CountsOnce(execution.book, execution.month, e)
      BY <2>1 DEF CountsInv, PlainDeliveriesCountedOnce
    <3> QED BY <1>1, <3>1 DEF CountsOnce, reports
  <2>3. NextStatementReconciles'
    <3> SUFFICES ASSUME Complete', "next statement" \in execution.supplied,
                        decisions[execution.month - 1] = None, NEW e \in Equities, Plain(e)'
                 PROVE  execution.book[e] = Snapshot(execution.month)'[e]
      BY <1>1 DEF NextStatementReconciles
    <3>1. execution.book[e] = Snapshot(execution.month)[e]
      BY <2>1 DEF CountsInv, NextStatementReconciles
    <3> QED BY <1>1, <3>1 DEF Snapshot, reports
  <2> QED BY <2>2, <2>3 DEF CountsInv
<1>2. CASE Approve
  BY <1>1, <1>2, ApprovalIsTiming DEF Approve
<1>3. CASE \E supplied \in SUBSET Optional, decision \in approvals \cup {None} : Execute(supplied, decision)
  BY <1>3, PublicationIsTiming, ExecutionCounts
<1>4. CASE UNCHANGED vars
  <2>1. UNCHANGED << reports, published, books, decisions, execution, approvals >>
    BY <1>4 DEF vars
  <2>2. TransitInv'
    <3>1. \A n \in 1..published : Timing(n, Mismatches(books[n], n))'
      BY <2>1, TimingKept DEF TransitInv
    <3>2. \A x \in approvals : Timing(x.month, x.mismatches)'
      BY <2>1, ReportsKept DEF TransitInv
    <3>3. ReportsOK'
      BY <2>1, ReportsKept DEF TransitInv
    <3> QED BY <2>1, <3>1, <3>2, <3>3 DEF TransitInv
  <2> QED BY <1>1, <2>1, <2>2
<1> QED BY <1>2, <1>3, <1>4 DEF Next

LEMMA InitCounts == Init => CountsInv
BY DEF Init, CountsInv, PlainDeliveriesCountedOnce, NextStatementReconciles, Complete

(***************************************************************************)
(* Of an equity with at most one delivery around each month end and known  *)
(* holidays every import that has the assignments of its month counts each *)
(* delivery once: for any calendar, any number of months and assignments,  *)
(* whatever exceptions were approved and documents supplied before.        *)
(***************************************************************************)
THEOREM DeliveriesAreCountedOnce == Spec => []PlainDeliveriesCountedOnce
<1>1. CountsInv => PlainDeliveriesCountedOnce
  BY DEF CountsInv
<1> QED
  BY <1>1, InitChain, InitTransit, InitCounts, DeliveriesAreInductive, PTL DEF Spec

(***************************************************************************)
(* With the next month's statement a month after one without an exception  *)
(* has the statement's shares, for every such equity and calendar.         *)
(***************************************************************************)
THEOREM NextStatementSuffices == Spec => []NextStatementReconciles
<1>1. CountsInv => NextStatementReconciles
  BY DEF CountsInv
<1> QED
  BY <1>1, InitChain, InitTransit, InitCounts, DeliveriesAreInductive, PTL DEF Spec
=============================================================================
