----------------------------- MODULE LotLedger ------------------------------
(***************************************************************************)
(* What CampaignIQ promises about month-end lot books, with no storage,    *)
(* sessions or failures: the account history is extended one month at a    *)
(* time and never rewritten, and "the prior month's ending position state  *)
(* becomes the next month's opening context"                               *)
(* (docs/notes/historical_persistence_and_analytics.md).                   *)
(***************************************************************************)
EXTENDS Integers

CONSTANTS LastMonth, Books, NoBook, Bootstrap

VARIABLES
  ledger,       \* the authoritative ending lot book of each month
  openedFrom    \* the book each month's import started from

vars == << ledger, openedFrom >>

Months == 1..LastMonth

Predecessor(m) == IF m > 1 /\ ledger[m - 1] # NoBook THEN ledger[m - 1] ELSE Bootstrap

\* Some months may already be there; nothing is known of how they were opened.
Init ==
  /\ ledger \in [Months -> Books \cup {NoBook}]
  /\ openedFrom = ledger

\* A month is appended after every authoritative month, opened from exactly
\* the book of the month before it or from the operator's snapshot.
AppendMonth(m, book) ==
  /\ \A later \in m..LastMonth : ledger[later] = NoBook
  /\ ledger' = [ledger EXCEPT ![m] = book]
  /\ openedFrom' = [openedFrom EXCEPT ![m] = Predecessor(m)]

Next == \E m \in Months, book \in Books : AppendMonth(m, book)

Spec == Init /\ [][Next]_vars
=============================================================================
