------------------------ MODULE AssignmentDeliveries ------------------------
(***************************************************************************)
(* Option assignments over month ends.  Each delivers shares once, and the *)
(* brokers report it twice: Schwab as an Option Assignment (contract and   *)
(* shares), Thinkorswim as an EXP cash row (shares), often on another day, *)
(* at times in another month.  The imports of consecutive months decide    *)
(* which report to apply, from the documents of the month, an optional     *)
(* statement of the next one, and the exception the operator approved for  *)
(* the previous one.  Shares are counted in hundreds.                      *)
(***************************************************************************)
EXTENDS Totals, FiniteSets, FiniteSetsExt

CONSTANTS
  AssignmentCount,
  Equities,
  EquityOf, Shares, \* what an assignment delivers
  LastMonth,
  LastDay,          \* last day of a month; month 0 has none
  Weekend,
  Holidays,         \* days the market is closed
  VerifiedClosures  \* those the reconciler knows of

\* Numbered as the statements list them; the number also stands for the contract.
Assignments == 1..AssignmentCount
MarketDay(day) == day \notin Weekend \cup Holidays

\* A month is longer than the days that are looked back from its end, and
\* the market is never closed for a week.
ASSUME CalendarAssumption ==
  /\ LastMonth \in Nat /\ LastDay \in [0..LastMonth -> Nat]
  /\ LastDay[0] = 0 /\ \A m \in 1..LastMonth : LastDay[m - 1] + 3 < LastDay[m]
  /\ \A day \in 0..(LastDay[LastMonth] + 1) : \E d \in (day + 1)..(day + 7) : MarketDay(d)
  /\ VerifiedClosures \subseteq Holidays
ASSUME AssignmentAssumption ==
  /\ AssignmentCount \in Nat /\ Assignments \cap Equities = {}
  /\ EquityOf \in [Assignments -> Equities] /\ Shares \in [Assignments -> Int \ {0}]

VARIABLES
  posted,    \* day of Schwab's report of an assignment
  delivered, \* day of Thinkorswim's report
  published, \* the last published month; 0 before the first
  books,     \* quantities of the published month-end lot books
  decisions, \* the reconciliation decision stored with a month
  execution, \* the last result of execute_monthly_import
  approvals  \* exceptions the operator approved

reports == << posted, delivered >>
vars == << reports, published, books, decisions, execution, approvals >>

Months == 1..LastMonth
Instruments == Assignments \cup Equities
Books == [Instruments -> Int]
None == [kind |-> "none"]
\* What the operator supplies beside the statements every month needs.
Optional == {"assignments", "next statement"}

InMonth(day, m) == LastDay[m - 1] < day /\ day <= LastDay[m]
\* The first day after the given one that is not closed
NextOpen(day, closed) == Min({ d \in (day + 1)..(day + 7) : d \notin closed })

SumOfShares(S, e) ==
  Total([a \in Assignments |-> IF a \in S /\ EquityOf[a] = e THEN Shares[a] ELSE 0])

(***************************************************************************)
(* The brokers.  Thinkorswim books a delivery with Schwab's posting, the   *)
(* morning after it, or between the trade and a posting on the next day.   *)
(***************************************************************************)
Reported(post, delivery) ==
  /\ MarketDay(post)
  /\ delivery \in {post, post + 1} \/ NextOpen(delivery, Weekend \cup Holidays) = post

OpeningBook == [i \in Instruments |-> IF i \in Assignments THEN -1 ELSE 0]

Init ==
  /\ posted \in [Assignments -> 1..LastDay[LastMonth]]
  /\ delivered \in [Assignments -> 1..(LastDay[LastMonth] + 1)]
  /\ \A a \in Assignments : Reported(posted[a], delivered[a])
  /\ \A a, b \in Assignments : a < b => posted[a] <= posted[b]
  /\ published = 0
  /\ books = [m \in 0..LastMonth |-> OpeningBook]
  /\ decisions = [m \in 0..LastMonth |-> None]
  /\ execution = None
  /\ approvals = {}

\* An EXP row; the contract is closed by Schwab's report alone.
Row(a) == [equity |-> EquityOf[a], shares |-> Shares[a], day |-> delivered[a]]

-----------------------------------------------------------------------------
(* Which reports a month applies                                           *)

\* The assignments of the period, if its statement is supplied as evidence of them
MonthAssignments(m, supplied) ==
  { a \in Assignments : "assignments" \in supplied /\ InMonth(posted[a], m) }

\* Those of the first weekday of the next month, from its statement
BoundaryAssignments(m, supplied) ==
  { a \in Assignments : "next statement" \in supplied /\ posted[a] = NextOpen(LastDay[m], Weekend) }

(***************************************************************************)
(* The EXP rows around the previous month end that explain a mismatch of   *)
(* its approved exception.  Rows of one day carry one time, so that equal  *)
(* rows count once.                                                        *)
(***************************************************************************)
VerifiedDeliveries(m) ==
  { row \in { Row(a) : a \in Assignments } :
      /\ LastDay[m - 1] - 3 <= row.day /\ row.day <= LastDay[m - 1]
      /\ decisions[m - 1] # None
      /\ LET computed == books[m - 1][row.equity] IN
         << row.equity, computed, computed - row.shares >> \in decisions[m - 1].mismatches }

\* Mutation of CarriedDeliveries: nothing is carried.
CarriedNone(m, supplied) == {}

(***************************************************************************)
(* The assignments whose shares were delivered in the previous month: each *)
(* uses up one verified row.                                               *)
(***************************************************************************)
CarriedDeliveries(m, supplied) ==
  LET first == NextOpen(LastDay[m - 1], Weekend)
      verified == VerifiedDeliveries(m)
      Rows(a) == { row \in verified :
        /\ row.equity = EquityOf[a] /\ row.shares = Shares[a]
        /\ NextOpen(row.day, Weekend) = posted[a] /\ posted[a] = first }
      Earlier(a) == { b \in MonthAssignments(m, supplied) : b < a /\ Rows(b) = Rows(a) }
  IN  { a \in MonthAssignments(m, supplied) : Cardinality(Earlier(a)) < Cardinality(Rows(a)) }

\* Mutation of SameDelivery: only the day of the posting is looked at.
SameDay(delivery, post) == delivery = post
\* _duplicates_assignment_equity, its dates
SameDelivery(delivery, post) ==
  delivery \in {post, post + 1} \/ NextOpen(delivery, Weekend \cup VerifiedClosures) = post

\* The assignments whose share change the month applies
AppliedAssignments(m, supplied) ==
  MonthAssignments(m, supplied) \ CarriedDeliveries(m, supplied)

\* The EXP rows left by the reconciler
AppliedRows(m, supplied) ==
  LET corroborating == AppliedAssignments(m, supplied) \cup BoundaryAssignments(m, supplied) IN
  { a \in Assignments :
      /\ InMonth(delivered[a], m)
      /\ ~ \E b \in corroborating :
             /\ EquityOf[b] = EquityOf[a] /\ Shares[b] = Shares[a]
             /\ SameDelivery(delivered[a], posted[b]) }

Ending(m, supplied) ==
  LET assignments == AppliedAssignments(m, supplied)
      rows == AppliedRows(m, supplied) IN
  [i \in Instruments |-> books[m - 1][i] +
     IF i \in Assignments
       THEN IF i \in MonthAssignments(m, supplied) THEN 1 ELSE 0
       ELSE SumOfShares(assignments, i) + SumOfShares(rows, i)]

-----------------------------------------------------------------------------
(* Closing reconciliation                                                  *)

\* The closing positions of Schwab's statement
Snapshot(m) ==
  LET done == { a \in Assignments : posted[a] <= LastDay[m] } IN
  [i \in Instruments |->
     IF i \in Assignments THEN IF i \in done THEN 0 ELSE -1 ELSE SumOfShares(done, i)]

Mismatches(book, m) ==
  LET snapshot == Snapshot(m) IN
  { << i, book[i], snapshot[i] >> : i \in { j \in Instruments : book[j] # snapshot[j] } }

(***************************************************************************)
(* The operator approves what independent evidence shows to be timing:     *)
(* shares delivered by the month end and posted after it.                  *)
(***************************************************************************)
InTransit(m) == { a \in Assignments : delivered[a] <= LastDay[m] /\ LastDay[m] < posted[a] }
Timing(m, mismatches) ==
  \A item \in mismatches :
    \E S \in SUBSET InTransit(m) : item[1] \in Equities /\ item[2] - item[3] = SumOfShares(S, item[1])

Approve ==
  /\ execution # None /\ execution.month = published + 1
  /\ LET mismatches == Mismatches(execution.book, execution.month) IN
     /\ mismatches # {} /\ Timing(execution.month, mismatches)
     /\ approvals' = approvals \cup
          { [kind |-> "decision", month |-> execution.month, mismatches |-> mismatches] }
  /\ UNCHANGED << reports, published, books, decisions, execution >>

\* Mutation of Accepts: an approval of the month is enough.
AcceptsMonth(decision, m, mismatches) == decision # None /\ decision.month = m

\* decision_exactly_matches_reconciliation
Accepts(decision, m, mismatches) ==
  decision # None /\ decision.month = m /\ decision.mismatches = mismatches

\* A next statement without an assignment on its first weekday is an error.
ValidEvidence(m, supplied) == "next statement" \in supplied => BoundaryAssignments(m, supplied) # {}

Execute(supplied, decision) ==
  /\ published < LastMonth
  /\ LET m == published + 1
         book == Ending(m, supplied)
         mismatches == Mismatches(book, m) IN
     /\ ValidEvidence(m, supplied)
     /\ execution' = [kind |-> "execution", month |-> m, supplied |-> supplied, book |-> book]
     /\ IF mismatches = {} \/ Accepts(decision, m, mismatches)
          THEN /\ published' = m
               /\ books' = [books EXCEPT ![m] = book]
               /\ decisions' = [decisions EXCEPT ![m] = IF mismatches = {} THEN None ELSE decision]
          ELSE UNCHANGED << published, books, decisions >>
  /\ UNCHANGED << reports, approvals >>

Next ==
  \/ Approve
  \/ \E supplied \in SUBSET Optional, decision \in approvals \cup {None} : Execute(supplied, decision)

Spec == Init /\ [][Next]_vars

-----------------------------------------------------------------------------
(***************************************************************************)
(* A month is published with exactly the exception that its book needs:    *)
(* what the next import takes for deliveries already applied is right,     *)
(* whatever earlier approvals the operator held and documents changed      *)
(* since.                                                                  *)
(***************************************************************************)
DecisionDescribesTheBook ==
  \A m \in 1..published :
    Mismatches(books[m], m) = IF decisions[m] = None THEN {} ELSE decisions[m].mismatches

(***************************************************************************)
(* A book counts each delivery once when all reports are in and at most    *)
(* once before, whichever documents were supplied and whichever exceptions *)
(* preceded it.                                                            *)
(***************************************************************************)
CountsOnce(book, m, e) ==
  \E S \in SUBSET { a \in Assignments : posted[a] <= LastDay[m] \/ delivered[a] <= LastDay[m] } :
    /\ { a \in Assignments : posted[a] <= LastDay[m] /\ delivered[a] <= LastDay[m] } \subseteq S
    /\ book[e] = SumOfShares(S, e)

Complete == execution # None /\ "assignments" \in execution.supplied

(***************************************************************************)
(* "Remove duplicate broker representations of one economic event."        *)
(* (position_event_reconciler.py:13), over months as within one.           *)
(***************************************************************************)
EveryDeliveryCountedOnce ==
  Complete => \A e \in Equities : CountsOnce(execution.book, execution.month, e)

\* Every holiday is one the reconciler knows, and no month opens or closes
\* with one: neither the boundary date nor next_business_day steps over
\* holidays, and deliveries are looked for in the last three days.
KnownCalendar ==
  /\ Holidays \subseteq VerifiedClosures
  /\ \A m \in Months :
       /\ MarketDay(NextOpen(LastDay[m], Weekend))
       /\ \E d \in (LastDay[m] - 3)..LastDay[m] :
            MarketDay(d) /\ (d + 1)..LastDay[m] \subseteq Weekend

\* Months in which an assignment is reported
ReportedIn(a) == { m \in Months : InMonth(posted[a], m) \/ InMonth(delivered[a], m) }
(***************************************************************************)
(* An assignment posted in one month and delivered the morning after in    *)
(* the next is out of the reconciler's reach; of several assignments of an *)
(* equity around one month end the exception names only the sum.           *)
(***************************************************************************)
Plain(e) ==
  /\ KnownCalendar
  /\ \A a \in Assignments : EquityOf[a] = e =>
    /\ \A m \in Months : posted[a] <= LastDay[m] => delivered[a] <= LastDay[m]
    /\ (\E m, n \in ReportedIn(a) : m # n)
         => \A b \in Assignments \ {a} : EquityOf[b] = e => ReportedIn(a) \cap ReportedIn(b) = {}

(***************************************************************************)
(* Apart from those, deliveries are counted once over any sequence of      *)
(* imports, exceptions and repetitions.                                    *)
(***************************************************************************)
PlainDeliveriesCountedOnce ==
  Complete => \A e \in Equities : Plain(e) => CountsOnce(execution.book, execution.month, e)

(***************************************************************************)
(* With the next month's statement a month after an unexceptional one      *)
(* reconciles: no exception is needed for a delivery in transit.           *)
(***************************************************************************)
NextStatementReconciles ==
  Complete /\ "next statement" \in execution.supplied /\ decisions[execution.month - 1] = None
    => \A e \in Equities : Plain(e) => execution.book[e] = Snapshot(execution.month)[e]
=============================================================================
