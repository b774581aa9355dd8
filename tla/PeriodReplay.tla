---------------------------- MODULE PeriodReplay ----------------------------
(***************************************************************************)
(* A month's economic history replayed onto the opening lots, month after  *)
(* month (domain/lot_book_period_applier.py, the mutating half of          *)
(* domain/lot_book.py, importers/thinkorswim/                              *)
(* forex_position_effect_resolver.py).                                     *)
(*                                                                         *)
(* The replay works on a clone of the opening book.  One step is one leg   *)
(* or event read from the history, or one iteration of a loop that closes  *)
(* or claims lots, so a state in the middle of a loop is a state here.  An *)
(* exception abandons the clone; the operator imports the month again.     *)
(* "clock" counts the items of the history in chronological order.         *)
(***************************************************************************)
EXTENDS LotBook

CONSTANTS
  Traded,         \* the options and equities that trades and expirations name
  Quantities,     \* quantities of a leg, an assignment, a snapshot row
  PerContract,    \* shares one contract delivers, 100 in the code
  Splits,         \* adjusted contracts: [old, new, ratio]
  SnapshotRows,   \* rows a bootstrap snapshot may have: [instrument, quantity]
  LastMonth,      \* bound on the months
  MaxItems        \* bound on the history items of all months

\* The symbol of a currency pair is traded as a pair only.
ASSUME ReplayAssumption ==
  /\ Traded \subseteq (Options \cup Equities) \ { Namesake[p] : p \in ForexPairs }
  /\ Quantities \subseteq Nat \ {0}
  /\ PerContract \in Nat \ {0}
  /\ Splits \subseteq [old : Options, new : Options, ratio : Nat \ {0, 1}]
  /\ SnapshotRows \subseteq [instrument : Options \cup Equities, quantity : Int \ {0}]
  /\ \A r \in SnapshotRows : \A p \in ForexPairs : r.instrument # Namesake[p]
  /\ \A o \in Options : \A p \in ForexPairs : Underlying[o] # Namesake[p]
  /\ LastMonth \in Nat /\ MaxItems \in Nat

VARIABLES
  lots,         \* the working book: instrument -> sequence of lots
  nextId,       \* number of the next LOT-n
  opening,      \* the book the month was opened with, and its net positions
  month,
  clock,
  stage,        \* idle, close, change or claim: the loop under way
  instrument,   \* the instrument the loop works on
  due,          \* signed quantity the loop still has to apply
  owner,        \* the campaign of the trade or of the assignment
  follow,       \* signed second change of the item, 0 when there is none
  toClaim,      \* shares an assignment still has to bind to its campaign
  allocations,  \* allocations of the current change, as the calls return them
  claimed,      \* ids of the lots the latest assignment bound
  fx,           \* ForexPositionEffectResolver._positions
  seeded,       \* fx began with positions read from historical files
  position,     \* history: the net position all applied changes amount to
  retired       \* history: identifiers of the lots that were closed in full

bookVars == << lots, nextId >>
loopVars == << stage, instrument, due, owner, follow, toClaim, allocations, claimed >>
vars == << lots, nextId, opening, month, clock, stage, instrument, due, owner,
           follow, toClaim, allocations, claimed, fx, seeded, position, retired >>

Signed == Quantities \cup { -q : q \in Quantities }

\* What "instrument" holds between items, when no loop runs.
AnyInstrument == CHOOSE i \in Instruments : TRUE

BookOf(ls, id, net, gone) ==
  [lots |-> ls, nextId |-> id, position |-> net, retired |-> gone]

\* A plain snapshot bootstrap; carried months come from EndMonth.
Init ==
  /\ \E rows \in SUBSET SnapshotRows :
       /\ \A r, s \in rows : r.instrument = s.instrument => r = s
       /\ lots = [i \in Instruments |->
                    IF \E r \in rows : r.instrument = i
                    THEN LET row == CHOOSE r \in rows : r.instrument = i
                         IN << BuildLot(i, row.quantity, 0, NoCampaign) >>
                    ELSE << >>]
       /\ position = [i \in Instruments |->
                        IF \E r \in rows : r.instrument = i
                        THEN (CHOOSE r \in rows : r.instrument = i).quantity ELSE 0]
  /\ nextId = 1 /\ retired = {}
  /\ opening = BookOf(lots, nextId, position, retired)
  /\ month = 1 /\ clock = 0
  /\ stage = "idle" /\ instrument = AnyInstrument /\ due = 0 /\ owner = NoCampaign
  /\ follow = 0 /\ toClaim = 0 /\ allocations = {} /\ claimed = {}
  /\ fx = [p \in ForexPairs |-> 0] /\ seeded = FALSE

-----------------------------------------------------------------------------
NextItem ==
  /\ stage = "idle" /\ clock < MaxItems
  /\ clock' = clock + 1
  /\ UNCHANGED << opening, month, toClaim, allocations, claimed, seeded, retired >>

\* The locals of the calls for the item are gone.
ItemDone ==
  /\ stage' = "idle" /\ instrument' = AnyInstrument /\ due' = 0 /\ owner' = NoCampaign
  /\ follow' = 0 /\ toClaim' = 0 /\ allocations' = {} /\ claimed' = {}

\* _append_lot, and the OPEN branch of apply_trade.
AppendLot(i, quantity, campaign, now) ==
  /\ lots' = [lots EXCEPT ![i] = Append(lots[i], BuildLot(nextId, quantity, now, campaign))]
  /\ nextId' = nextId + 1

Moves(i, quantity) == position' = [position EXCEPT ![i] = position[i] + quantity]

Enter(s, i, quantity, campaign, second) ==
  /\ stage' = s /\ instrument' = i /\ due' = quantity
  /\ owner' = campaign /\ follow' = second

\* apply_trade, an OPEN leg: always a new lot, whatever is open already.
OpenLeg(i, quantity, campaign) ==
  /\ NextItem
  /\ AppendLot(i, quantity, campaign, clock + 1) /\ Moves(i, quantity)
  /\ UNCHANGED << stage, instrument, due, owner, follow, fx >>

\* apply_trade, a CLOSE leg: _close must find the whole quantity.
CloseLeg(i, quantity, campaign) ==
  /\ NextItem
  /\ Enter("close", i, quantity, campaign, 0) /\ Moves(i, quantity)
  /\ UNCHANGED << lots, nextId, fx >>

\* Mutation of ForexClosing: an execution through zero closes all of itself.
ForexClosingWhole(p, quantity) ==
  IF fx[p] = 0 \/ Sign(fx[p]) = Sign(quantity) THEN 0 ELSE quantity

\* ForexPositionEffectResolver.resolve: the part of a forex execution that
\* closes, by the resolver's own running position and not by the lots.
ForexClosing(p, quantity) ==
  IF fx[p] = 0 \/ Sign(fx[p]) = Sign(quantity) THEN 0
  ELSE Sign(quantity) * Smaller(Magnitude(quantity), Magnitude(fx[p]))

\* One forex execution is an OPEN trade, a CLOSE trade, or one of each.
ForexTrade(p, quantity, campaign) ==
  LET closing == ForexClosing(p, quantity)
  IN /\ NextItem
     /\ fx' = [fx EXCEPT ![p] = fx[p] + quantity]
     /\ Moves(p, quantity)
     /\ \/ /\ closing = 0
           /\ AppendLot(p, quantity, campaign, clock + 1)
           /\ UNCHANGED << stage, instrument, due, owner, follow >>
        \/ /\ closing # 0
           /\ Enter("close", p, closing, campaign, quantity - closing)
           /\ UNCHANGED << lots, nextId >>

\* _apply_event for an expiration: one signed change without a campaign.
Expiration(i, quantity) ==
  /\ NextItem
  /\ Enter("change", i, quantity, NoCampaign, 0) /\ Moves(i, quantity)
  /\ UNCHANGED << lots, nextId, fx >>

\* _apply_event for an assignment: the option first; its equity change follows
\* unless carry_assignment_deliveries found it applied in the month before.
Assignment(option, quantity, delivers) ==
  LET shares == IF option \in Calls THEN -quantity * PerContract
                ELSE quantity * PerContract
  IN /\ NextItem
     /\ Enter("change", option, quantity, NoCampaign, IF delivers THEN shares ELSE 0)
     /\ Moves(option, quantity)
     /\ UNCHANGED << lots, nextId, fx >>

\* _apply_option_split validates everything before it changes an instrument.
Split(old, new, ratio) ==
  /\ NextItem
  /\ Splittable(lots, old, new, clock + 1)
  /\ lots' = [i \in Instruments |-> IF i = new THEN Multiplied(lots[old], ratio)
                                     ELSE IF i = old THEN << >> ELSE lots[i]]
  /\ position' = [i \in Instruments |-> IF i = new THEN position[new] + position[old] * ratio
                                         ELSE IF i = old THEN 0 ELSE position[i]]
  /\ UNCHANGED << nextId, stage, instrument, due, owner, follow, fx >>

-----------------------------------------------------------------------------
\* One iteration of the loop in _close, called directly or by
\* apply_signed_change, which passes no campaign.
CloseNextLot ==
  /\ stage \in {"close", "change"} /\ due # 0
  /\ Opposite(lots[instrument], due) # {}
  /\ LET k == NextToClose(lots[instrument], due)
         part == Taken(lots[instrument][k], due)
     IN /\ lots' = [lots EXCEPT ![instrument] = Reduced(lots[instrument], k, part)]
        /\ due' = due - part
        /\ retired' = retired \cup (Ids(lots) \ Ids(lots'))
        /\ allocations' = allocations \cup
             { AllocationOf(lots[instrument][k], part,
                            IF stage = "close" THEN owner ELSE NoCampaign) }
  /\ UNCHANGED << nextId, opening, month, clock, stage, instrument, owner, follow,
                  toClaim, claimed, fx, seeded, position >>

\* apply_signed_change: what no opposite lot absorbs becomes a new lot.
AppendRest ==
  /\ stage = "change" /\ due # 0
  /\ Opposite(lots[instrument], due) = {}
  /\ AppendLot(instrument, due, owner, clock)
  /\ due' = 0
  /\ UNCHANGED << opening, month, clock, stage, instrument, owner, follow, toClaim,
                  allocations, claimed, fx, seeded, position, retired >>

Finish ==
  /\ stage \in {"close", "change"} /\ due = 0 /\ follow = 0
  /\ ItemDone
  /\ UNCHANGED << lots, nextId, opening, month, clock, fx, seeded, position, retired >>

\* The OPEN trade of a forex execution through zero; it may be attributed to
\* another campaign than the closing one.
Reopen(campaign) ==
  /\ stage = "close" /\ due = 0 /\ follow # 0
  /\ AppendLot(instrument, follow, campaign, clock)
  /\ ItemDone
  /\ UNCHANGED << opening, month, clock, fx, seeded, position, retired >>

\* campaign_ids in _apply_event: the option's campaign when there is just one.
AssignmentCampaign ==
  LET found == { a.campaign : a \in allocations } \ {NoCampaign}
  IN IF \E c \in found : found = {c} THEN CHOOSE c \in found : TRUE ELSE NoCampaign

\* The equity change of an assignment; shares that leave are first bound to
\* the campaign of the assigned option, if any lot is there to bind.
Deliver ==
  /\ stage = "change" /\ due = 0 /\ follow # 0
  /\ LET shares == Underlying[instrument]
         binds == follow < 0 /\ AssignmentCampaign # NoCampaign
                    /\ Unclaimed(lots[shares]) # {}
     IN /\ Enter(IF binds THEN "claim" ELSE "change", shares, follow, AssignmentCampaign, 0)
        /\ toClaim' = IF binds THEN -follow ELSE 0
        /\ Moves(shares, follow)
  /\ allocations' = {}
  /\ UNCHANGED << lots, nextId, opening, month, clock, claimed, fx, seeded, retired >>

\* One iteration of assign_unassigned_lots_to_campaign.
ClaimNextLot ==
  /\ stage = "claim" /\ toClaim > 0
  /\ Unclaimed(lots[instrument]) # {}
  /\ LET k == NextUnclaimed(lots[instrument])
         lot == lots[instrument][k]
         whole == lot.quantity <= toClaim
     IN /\ lots' = [lots EXCEPT ![instrument] =
                      Claimed(lots[instrument], k, toClaim, owner, nextId)]
        /\ nextId' = IF whole THEN nextId ELSE nextId + 1
        /\ toClaim' = IF whole THEN toClaim - lot.quantity ELSE 0
        /\ claimed' = claimed \cup {lot.id}
  /\ UNCHANGED << opening, month, clock, stage, instrument, due, owner, follow,
                  allocations, fx, seeded, position, retired >>

ClaimDone ==
  /\ stage = "claim" /\ toClaim = 0
  /\ stage' = "change"
  /\ UNCHANGED << lots, nextId, opening, month, clock, instrument, due, owner, follow,
                  toClaim, allocations, claimed, fx, seeded, position, retired >>

-----------------------------------------------------------------------------
\* ValueError: "Insufficient ... lots to close" or "to assign".
Insufficient ==
  \/ stage = "close" /\ due # 0 /\ Opposite(lots[instrument], due) = {}
  \/ stage = "claim" /\ toClaim > 0 /\ Unclaimed(lots[instrument]) = {}

\* What the historical files of the earlier months add up to.
HistoricalForex(net) ==
  [p \in ForexPairs |-> net[p] + net[Namesake[p]]]

\* _run_once: historical | carried.  A first pass reads no historical file; the
\* second pass run() makes when its evidence has files starts from what they
\* say of the pairs that the carried book has no lots of.
ForexStart(book, net) ==
  \/ fx' = CarriedForex(book) /\ seeded' = FALSE
  \/ /\ fx' = [p \in ForexPairs |-> IF book[p] # << >> THEN CarriedForex(book)[p]
                                   ELSE HistoricalForex(net)[p]]
     /\ seeded' = (fx' # CarriedForex(book))

\* The clone is dropped; the next attempt starts from the opening book again.
Abandon ==
  /\ Insufficient
  /\ lots' = opening.lots /\ nextId' = opening.nextId /\ position' = opening.position
  /\ retired' = opening.retired
  /\ ForexStart(opening.lots, opening.position)
  /\ ItemDone
  /\ UNCHANGED << opening, month, clock >>

\* Mutation of CarriedId: next_id is not read back.
FreshId == 1

\* deserialize_lot_book reads next_id back.
CarriedId == nextId

CarriedPosition(net) ==
  [i \in Instruments |->
     IF i \in ForexPairs THEN 0
     ELSE IF \E p \in ForexPairs : Namesake[p] = i
     THEN net[i] + net[CHOOSE p \in ForexPairs : Namesake[p] = i]
     ELSE net[i]]

\* The ending book is saved and the next month's import loads it.
EndMonth ==
  /\ stage = "idle" /\ month < LastMonth
  /\ month' = month + 1
  /\ lots' = Reloaded(lots) /\ nextId' = CarriedId
  /\ position' = CarriedPosition(position)
  /\ opening' = BookOf(Reloaded(lots), CarriedId, CarriedPosition(position), retired)
  /\ ForexStart(Reloaded(lots), CarriedPosition(position))
  /\ UNCHANGED << clock, stage, instrument, due, owner, follow, toClaim, allocations,
                  claimed, retired >>

ReadItem ==
  \/ \E i \in Traded, q \in Signed, c \in Campaigns : OpenLeg(i, q, c)
  \/ \E i \in Traded, q \in Signed, c \in Campaigns : CloseLeg(i, q, c)
  \/ \E p \in ForexPairs, q \in Signed, c \in Campaigns : ForexTrade(p, q, c)
  \/ \E i \in Traded, q \in Signed : Expiration(i, q)
  \/ \E o \in Options, q \in Quantities, delivers \in BOOLEAN : Assignment(o, q, delivers)
  \/ \E s \in Splits : Split(s.old, s.new, s.ratio)

Next ==
  \/ ReadItem
  \/ CloseNextLot \/ AppendRest \/ Finish
  \/ \E c \in Campaigns : Reopen(c)
  \/ Deliver \/ ClaimNextLot \/ ClaimDone
  \/ Abandon \/ EndMonth

Spec == Init /\ [][Next]_vars

-----------------------------------------------------------------------------
(***************************************************************************)
(* Every variable holds what the code can hold in it.                      *)
(***************************************************************************)
BookOK ==
  /\ lots \in [Instruments -> Seq(Lot)]
  /\ nextId \in Nat \ {0}

LoopOK ==
  /\ stage \in {"idle", "close", "change", "claim"}
  /\ instrument \in Instruments
  /\ due \in Int /\ follow \in Int /\ toClaim \in Nat
  /\ owner \in Campaigns \cup {NoCampaign}
  /\ allocations \subseteq Allocation /\ claimed \subseteq LotIds

PeriodOK ==
  /\ opening.lots \in [Instruments -> Seq(Lot)]
  /\ opening.nextId \in Nat \ {0}
  /\ month \in Nat /\ clock \in Nat
  /\ fx \in [ForexPairs -> Int] /\ seeded \in BOOLEAN
  /\ retired \subseteq LotIds /\ opening.retired \subseteq LotIds
  /\ position \in [Instruments -> Int] /\ opening.position \in [Instruments -> Int]

TypeOK == BookOK /\ LoopOK /\ PeriodOK

(***************************************************************************)
(* A lot identifier names one lot of the book and the next one is still    *)
(* unused, also between the two halves of a split and after a reload: the  *)
(* realized attributions and the journal refer to lots by identifier only. *)
(***************************************************************************)
LotIdsIdentify ==
  /\ \A i, j \in Instruments : \A k \in DOMAIN lots[i], l \in DOMAIN lots[j] :
       lots[i][k].id = lots[j][l].id => i = j /\ k = l
  /\ \A id \in Ids(lots) \cap Nat : id < nextId

(***************************************************************************)
(* An identifier dies with its lot: no lot opened later, by a trade, a     *)
(* change, a split or in another month, is given it again.                 *)
(***************************************************************************)
RetiredIdsStayRetired == retired \cap Ids(lots) = {}

(***************************************************************************)
(* "Track opening lots and allocate closes against them in FIFO order"     *)
(* (lot_book.py:24): no lot still open on the closed side is older than a  *)
(* lot the current change has drawn on.                                    *)
(***************************************************************************)
ClosedOldestFirst ==
  \A a \in allocations : \A k \in DOMAIN lots[instrument] :
    Sign(lots[instrument][k].quantity) # Sign(a.quantity)
      => a.opened <= lots[instrument][k].opened

(***************************************************************************)
(* The lots of an instrument add up to everything applied to it since the  *)
(* bootstrap: no close, carry, claim or split loses or invents a unit,     *)
(* although lots are shrunk, removed, divided and appended one by one.     *)
(***************************************************************************)
PositionsAgree ==
  \A i \in Instruments :
    position[i] = SumQuantities(lots[i])
                    + (IF i = instrument THEN due ELSE 0)
                    + (IF i = instrument /\ stage = "close" THEN follow ELSE 0)

(***************************************************************************)
(* The resolver decides by its own running position whether a forex        *)
(* execution opens or closes; the lot book never lacks what it decides to  *)
(* close, in the month itself or after a month was carried, unless the     *)
(* position comes from historical files (see RoundTripKeepsPositions).     *)
(***************************************************************************)
ForexClosesFindTheirLots == Insufficient /\ ~seeded => instrument \notin ForexPairs

(***************************************************************************)
(* The replay never rewrites the origin of an opening lot: as long as it   *)
(* is open it has its opening date and side, and a campaign it had.        *)
(***************************************************************************)
OpeningLotsKeepTheirOrigin ==
  \A i, j \in Instruments :
    \A k \in DOMAIN lots[i], l \in DOMAIN opening.lots[j] :
      lots[i][k].id = opening.lots[j][l].id
        => /\ lots[i][k].opened = opening.lots[j][l].opened
           /\ Sign(lots[i][k].quantity) = Sign(opening.lots[j][l].quantity)
           /\ opening.lots[j][l].campaign \in {NoCampaign, lots[i][k].campaign}

-----------------------------------------------------------------------------
(***************************************************************************)
(* Stated by the repository and refuted by the code.                       *)
(***************************************************************************)

(***************************************************************************)
(* test_lot_book_round_trip_preserves_authoritative_state: the book a      *)
(* month loads holds every position the month before it saved.  A currency *)
(* pair comes back as a plain instrument, and its next closing execution   *)
(* opens a lot in a first pass and is refused in a second one.             *)
(***************************************************************************)
RoundTripKeepsPositions ==
  [][month' # month =>
       \A i \in Instruments : SumQuantities(lots'[i]) = SumQuantities(lots[i])]_vars
=============================================================================
