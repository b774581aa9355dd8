------------------------------ MODULE MCDrafts ------------------------------
\* TLC instances of ImportDrafts.
EXTENDS ImportDrafts

\* Tab 1 has one trade history; tab 2 has another one, and the statement.
MCDocuments ==
  << [history |-> {"h1"}, statement |-> {}], [history |-> {"h2"}, statement |-> {"s1"}] >>

\* Three trade histories and nothing else.
MCHistories == [t \in Tabs |-> [history |-> {"h1", "h2", "h3"}]]
=============================================================================
