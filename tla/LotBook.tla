------------------------------- MODULE LotBook ------------------------------
(***************************************************************************)
(* FIFO lots of one account (domain/lot_book.py, domain/lot.py,            *)
(* domain/lot_allocation.py, persistence/lot_book_store.py).               *)
(*                                                                         *)
(* A book maps every instrument to the sequence of its lots, oldest entry  *)
(* first.  Quantities are signed integers: the code's Decimals are only    *)
(* added, compared and subtracted here.  Basis is left out; no close,      *)
(* assignment or split depends on it.                                      *)
(***************************************************************************)
EXTENDS Totals, SequencesExt

CONSTANTS
  Options,      \* option contracts
  Calls,        \* the contracts among them that are calls
  Equities,     \* plain instruments, known by a symbol only
  ForexPairs,   \* currency pairs, a type of their own that also has a symbol
  Underlying,   \* the equity an option delivers
  Namesake,     \* the plain instrument with the same symbol as a pair
  Campaigns,
  NoCampaign    \* a lot no campaign has claimed

Instruments == Options \cup Equities \cup ForexPairs

ASSUME InstrumentAssumption ==
  /\ Instruments # {} /\ Instruments \cap Nat = {}
  /\ Options \cap Equities = {} /\ Options \cap ForexPairs = {}
  /\ Equities \cap ForexPairs = {}
  /\ Calls \subseteq Options
  /\ Underlying \in [Options -> Equities]
  /\ Namesake \in [ForexPairs -> Equities]
  /\ \A p, q \in ForexPairs : Namesake[p] = Namesake[q] => p = q
  /\ NoCampaign \notin Campaigns

\* LOT-n identifiers are numbers; a snapshot lot is named after its row, and a
\* broker snapshot has one row for each instrument.
LotIds == Nat \cup Instruments

Lot == [id : LotIds, quantity : Int \ {0}, opened : Nat,
        campaign : Campaigns \cup {NoCampaign}]

Allocation == [id : LotIds, opened : Nat, quantity : Int \ {0},
               campaign : Campaigns \cup {NoCampaign}]

BuildLot(id, quantity, opened, campaign) ==
  [id |-> id, quantity |-> quantity, opened |-> opened, campaign |-> campaign]

Sign(q) == IF q > 0 THEN 1 ELSE -1

Magnitude(q) == IF q > 0 THEN q ELSE -q

Smaller(a, b) == IF a < b THEN a ELSE b

Ids(book) == UNION { { book[i][k].id : k \in DOMAIN book[i] } : i \in DOMAIN book }

-----------------------------------------------------------------------------
\* _close: the positions of the lots a signed quantity can close.
Opposite(ls, due) == { k \in DOMAIN ls : Sign(ls[k].quantity) # Sign(due) }

\* Mutation of NextToClose: last in, first out.
NewestOpposite(ls, due) == Max(Opposite(ls, due))

NextToClose(ls, due) == Min(Opposite(ls, due))

\* What one iteration of the _close loop takes from a lot, signed as "due".
Taken(lot, due) == Sign(due) * Smaller(Magnitude(lot.quantity), Magnitude(due))

\* Mutation of Reduced: a lot is dropped with whatever is left in it.
ReducedToNothing(ls, k, part) == RemoveAt(ls, k)

Reduced(ls, k, part) ==
  IF ls[k].quantity + part = 0
  THEN RemoveAt(ls, k)
  ELSE ReplaceAt(ls, k, [ls[k] EXCEPT !.quantity = ls[k].quantity + part])

AllocationOf(lot, part, campaign) ==
  [id |-> lot.id, opened |-> lot.opened, quantity |-> part,
   campaign |-> IF lot.campaign # NoCampaign THEN lot.campaign ELSE campaign]

-----------------------------------------------------------------------------
\* Mutation of Unclaimed: any positive lot may be given to the campaign.
AnyLong(ls) == { k \in DOMAIN ls : ls[k].quantity > 0 }

\* assign_unassigned_lots_to_campaign: the positions of the matching lots.
Unclaimed(ls) == { k \in DOMAIN ls : ls[k].campaign = NoCampaign /\ ls[k].quantity > 0 }

NextUnclaimed(ls) == Min(Unclaimed(ls))

\* Mutation of Claimed: the remainder keeps the identifier of the lot.
ClaimedInPlace(ls, k, quantity, campaign, newId) ==
  LET part == [ls[k] EXCEPT !.campaign = campaign]
  IN IF ls[k].quantity <= quantity
     THEN ReplaceAt(ls, k, part)
     ELSE InsertAt(ReplaceAt(ls, k, [part EXCEPT !.quantity = quantity]), k + 1,
                   [ls[k] EXCEPT !.quantity = ls[k].quantity - quantity])

\* assign_campaign takes the whole lot, split_and_assign_campaign its first
\* "quantity" units; the remainder is a new lot right behind it.
Claimed(ls, k, quantity, campaign, newId) ==
  LET part == [ls[k] EXCEPT !.campaign = campaign]
  IN IF ls[k].quantity <= quantity
     THEN ReplaceAt(ls, k, part)
     ELSE InsertAt(ReplaceAt(ls, k, [part EXCEPT !.quantity = quantity]), k + 1,
                   [ls[k] EXCEPT !.id = newId, !.quantity = ls[k].quantity - quantity])

\* _apply_option_split: every lot keeps its identity, units are multiplied.
Multiplied(ls, ratio) ==
  [k \in DOMAIN ls |-> [ls[k] EXCEPT !.quantity = ls[k].quantity * ratio]]

Splittable(book, old, new, now) ==
  /\ old # new
  /\ book[old] # << >> /\ book[new] = << >>
  /\ \A k \in DOMAIN book[old] :
       /\ Sign(book[old][k].quantity) = Sign(book[old][1].quantity)
       /\ book[old][k].opened < now

-----------------------------------------------------------------------------
\* serialize_lot_book then deserialize_lot_book: lots in order within each
\* instrument, and the type of a currency pair is not written, so its lots come
\* back under the plain instrument, behind those already under that symbol.
Reloaded(book) ==
  [i \in Instruments |->
     IF i \in ForexPairs THEN << >>
     ELSE IF \E p \in ForexPairs : Namesake[p] = i
     THEN book[i] \o book[CHOOSE p \in ForexPairs : Namesake[p] = i]
     ELSE book[i]]

\* _carried_forex_positions: the net position of every pair that has lots.
CarriedForex(book) ==
  [p \in ForexPairs |-> IF book[p] = << >> THEN 0 ELSE SumQuantities(book[p])]
=============================================================================
