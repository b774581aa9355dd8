------------------------------ MODULE Timelines ------------------------------
(***************************************************************************)
(* Trades and events in the order in which they happened, the sorted(...)  *)
(* of the position history and of the attributor: items are records with a *)
(* time, and those of one instant keep the order they were given in.       *)
(***************************************************************************)
EXTENDS Integers, Sequences, FiniteSets

\* The items before the one given; those of the same instant in the order given.
Before(items, j) ==
  { k \in DOMAIN items :
      items[k].time < items[j].time \/ (items[k].time = items[j].time /\ k < j) }

\* Trades before events of the same instant, each in the order given: an item's
\* place is the number of those before it.
Timeline(trades, events) ==
  LET items == trades \o events
  IN [n \in DOMAIN items |->
        items[CHOOSE j \in DOMAIN items : Cardinality(Before(items, j)) = n - 1]]
=============================================================================
