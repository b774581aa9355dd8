--------------------------- MODULE EvidenceProofs ---------------------------
(***************************************************************************)
(* Proofs about what an import derives from one month's history, for any   *)
(* opening book, trades, events and realized records: the replays keep     *)
(* well-formed books, the records divide the closing activity and its      *)
(* basis exactly, the journal retraces the import, and its entries explain *)
(* what is left in every instrument; what left a symbol flat is on record; *)
(* and the attributor, which replays the same history in its own order and *)
(* with deliveries moved to their trades, ends with the import's lots.     *)
(***************************************************************************)
EXTENDS PeriodEvidence, TotalsProofs

-----------------------------------------------------------------------------
(* Lots that a signed quantity closes. *)
Runs == [open : Seq(OpenLots), due : Int, taken : Seq(OpenLots)]

LEMMA LotsQuantified == Quantified(OpenLots)
BY DEF Quantified, OpenLots

LEMMA TakenFacts ==
  ASSUME NEW lot \in OpenLots, NEW due \in Int, due # 0, Sign(lot.quantity) # Sign(due)
  PROVE  /\ Taken(lot, due) \in Int \ {0} /\ Sign(Taken(lot, due)) = Sign(due)
         /\ due - Taken(lot, due) = 0 \/ Sign(due - Taken(lot, due)) = Sign(due)
         /\ Magnitude(due) = Magnitude(Taken(lot, due)) + Magnitude(due - Taken(lot, due))
         /\ lot.quantity + Taken(lot, due) \in Int
<1>1. lot.quantity \in Int \ {0}
  BY DEF OpenLots
<1>2. CASE due > 0
  <2>1. lot.quantity < 0
    BY <1>1, <1>2 DEF Sign
  <2>2. Taken(lot, due) = IF -lot.quantity < due THEN -lot.quantity ELSE due
    BY <1>1, <1>2, <2>1 DEF Sign, Taken, Smaller, Magnitude
  <2> QED BY <1>1, <1>2, <2>1, <2>2 DEF Sign, Magnitude
<1>3. CASE due < 0
  <2>1. lot.quantity > 0
    BY <1>1, <1>3 DEF Sign
  <2>2. Taken(lot, due) = IF lot.quantity < -due THEN -lot.quantity ELSE due
    BY <1>1, <1>3, <2>1 DEF Sign, Taken, Smaller, Magnitude
  <2> QED BY <1>1, <1>3, <2>1, <2>2 DEF Sign, Magnitude
<1> QED BY <1>2, <1>3

LEMMA CloseLotTypes ==
  ASSUME NEW r \in Runs, NEW lot \in OpenLots, NEW c \in Owners
  PROVE  CloseLot(r, lot, c) \in Runs
<1>1. r.open \in Seq(OpenLots) /\ r.due \in Int /\ r.taken \in Seq(OpenLots)
  BY DEF Runs
<1>2. CASE r.due = 0 \/ Sign(lot.quantity) = Sign(r.due)
  BY <1>1, <1>2 DEF CloseLot, Runs
<1>3. CASE ~(r.due = 0 \/ Sign(lot.quantity) = Sign(r.due))
  <2> DEFINE part == Taken(lot, r.due)
             rest == [lot EXCEPT !.quantity = lot.quantity + part]
             used == AllocationOf(lot, part, c)
  <2>1. part \in Int \ {0} /\ lot.quantity + part \in Int
    BY <1>1, <1>3, TakenFacts
  <2>2. lot.id \in LotNames /\ lot.opened \in Nat /\ lot.campaign \in Owners
    BY DEF OpenLots
  <2>3. used \in OpenLots
    BY <2>1, <2>2 DEF AllocationOf, OpenLots
  <2>4. lot.quantity + part # 0 => rest \in OpenLots
    BY <2>1, <2>2 DEF OpenLots
  <2>5. CloseLot(r, lot, c) =
          [open |-> IF lot.quantity + part = 0 THEN r.open ELSE Append(r.open, rest),
           due |-> r.due - part, taken |-> Append(r.taken, used)]
    BY <1>3 DEF CloseLot
  <2> HIDE DEF part, rest, used
  <2>6. (IF lot.quantity + part = 0 THEN r.open ELSE Append(r.open, rest)) \in Seq(OpenLots)
    BY <1>1, <2>4
  <2>7. Append(r.taken, used) \in Seq(OpenLots)
    BY <1>1, <2>3
  <2>8. r.due - part \in Int
    BY <1>1, <2>1
  <2> QED BY <2>5, <2>6, <2>7, <2>8 DEF Runs
<1> QED BY <1>2, <1>3

LEMMA CloseRunLoop ==
  ASSUME NEW ls \in Seq(OpenLots), NEW due \in Int, NEW c \in Owners
  PROVE  \E f \in [0..Len(ls) -> Runs] :
           /\ f[0] = [open |-> << >>, due |-> due, taken |-> << >>]
           /\ \A k \in 1..Len(ls) : f[k] = CloseLot(f[k - 1], ls[k], c)
           /\ CloseRun(ls, due, c) = f[Len(ls)]
<1> DEFINE n == Len(ls)
           base == [open |-> << >>, due |-> due, taken |-> << >>]
           next == [kr \in (1..n) \X Runs |-> CloseLot(kr[2], ls[kr[1]], c)]
           Solves(g) == g = [k \in 0..n |-> IF k = 0 THEN base ELSE CloseLot(g[k - 1], ls[k], c)]
           run == CHOOSE g : Solves(g)
<1>1. n \in Nat /\ base \in Runs
  BY DEF Runs
<1>2. ASSUME NEW k \in 1..n, NEW r \in Runs PROVE CloseLot(r, ls[k], c) \in Runs
  BY <1>1, <1>2, CloseLotTypes
<1>3. next \in [(1..n) \X Runs -> Runs]
  BY <1>2
<1>4. PICK f : IsLoop(f, n, Runs, base, next)
  <2> HIDE DEF n, base, next
  <2> QED BY <1>1, <1>3, LoopExists
<1>5. /\ f \in [0..n -> Runs] /\ f[0] = base
      /\ \A k \in 1..n : f[k] = CloseLot(f[k - 1], ls[k], c)
  BY <1>4 DEF IsLoop
<1>6. Solves(f)
  BY <1>5
<1>7. Solves(run)
  <2> HIDE DEF Solves
  <2> QED BY <1>6
<1>8. CloseRun(ls, due, c) = run[n]
  BY DEF CloseRun
<1>9. run[n] = f[n]
  <2> HIDE DEF run, n
  <2>1. 0 \in 0..n /\ \A k \in 1..n : k \in 0..n /\ k # 0
    BY <1>1
  <2>2. run[0] = base /\ \A k \in 1..n : run[k] = CloseLot(run[k - 1], ls[k], c)
    BY <1>7, <2>1
  <2>3. Follows(run, n, Runs, base, next)
    BY <2>2 DEF Follows
  <2> HIDE DEF base, next
  <2> QED BY <1>1, <1>4, <2>3, LoopIsOnly
<1> HIDE DEF run
<1> QED BY <1>5, <1>8, <1>9

-----------------------------------------------------------------------------
(* Well-formed books stay well-formed. *)
Books == [lots : [Instruments -> Seq(OpenLots)], nextId : Nat, ok : BOOLEAN,
          taken : Seq(OpenLots)]

LEMMA BookFields ==
  ASSUME NEW b \in Books
  PROVE  /\ b.lots \in [Instruments -> Seq(OpenLots)] /\ b.nextId \in Nat /\ b.ok \in BOOLEAN
         /\ b.taken \in Seq(OpenLots)
         /\ b = [lots |-> b.lots, nextId |-> b.nextId, ok |-> b.ok, taken |-> b.taken]
BY DEF Books

\* The book between two steps: nothing is said of allocations any more.
LEMMA TakenReset ==
  ASSUME NEW b \in Books
  PROVE  /\ [b EXCEPT !.taken = << >>] \in Books
         /\ [b EXCEPT !.taken = << >>].lots = b.lots
         /\ [b EXCEPT !.taken = << >>].nextId = b.nextId
         /\ [b EXCEPT !.taken = << >>].ok = b.ok
         /\ [b EXCEPT !.taken = << >>].taken = << >>
<1>1. [b EXCEPT !.taken = << >>] =
        [lots |-> b.lots, nextId |-> b.nextId, ok |-> b.ok, taken |-> << >>]
  BY DEF Books
<1>2. << >> \in Seq(OpenLots)
  OBVIOUS
<1>3. PICK r : r = [b EXCEPT !.taken = << >>]
  OBVIOUS
<1>4. r.lots = b.lots /\ r.nextId = b.nextId /\ r.ok = b.ok /\ r.taken = << >>
  BY <1>1, <1>3
<1>5. r \in Books
  BY <1>1, <1>2, <1>3, BookFields DEF Books
<1> QED BY <1>3, <1>4, <1>5

LEMMA AppendNewTypes ==
  ASSUME NEW b \in Books, NEW i \in Instruments, NEW q \in Int \ {0}, NEW now \in Nat,
         NEW c \in Owners
  PROVE  /\ AppendNew(b, i, q, now, c) \in Books
         /\ BuildLot(NewId(b), q, now, c) \in OpenLots
<1>1. /\ b.lots \in [Instruments -> Seq(OpenLots)] /\ b.nextId \in Nat /\ b.ok \in BOOLEAN
      /\ b.taken \in Seq(OpenLots)
  BY BookFields
<1>2. NewId(b) \in LotNames
  <2>1. NewId(b) = [kind |-> "LOT", at |-> 0, of |-> NoCampaign, rank |-> b.nextId]
    BY DEF NewId, LotId
  <2> QED BY <1>1, <2>1 DEF LotNames
<1>3. BuildLot(NewId(b), q, now, c) \in OpenLots
  BY <1>2 DEF BuildLot, OpenLots
<1>4. PICK lot \in OpenLots : lot = BuildLot(NewId(b), q, now, c)
  BY <1>3
<1>5. Append(b.lots[i], lot) \in Seq(OpenLots)
  BY <1>1
<1>6. PICK ls \in Seq(OpenLots) : ls = Append(b.lots[i], lot)
  BY <1>5
<1>7. [b.lots EXCEPT ![i] = ls] \in [Instruments -> Seq(OpenLots)]
  BY <1>1
<1> QED BY <1>1, <1>3, <1>4, <1>6, <1>7 DEF AppendNew, Books

LEMMA ExecutedTypes ==
  ASSUME NEW leg \in LegRecords
  PROVE  /\ leg.instrument \in Instruments /\ leg.quantity \in Nat \ {0}
         /\ leg.effect \in {"OPEN", "CLOSE"} /\ leg.side \in {"BUY", "SELL"}
         /\ Executed(leg) \in Int \ {0} /\ Magnitude(Executed(leg)) = leg.quantity
BY DEF LegRecords, Executed, Magnitude

LEMMA CloseRunTypes ==
  ASSUME NEW ls \in Seq(OpenLots), NEW due \in Int, NEW c \in Owners
  PROVE  /\ CloseRun(ls, due, c) \in Runs
         /\ CloseRun(ls, due, c).open \in Seq(OpenLots) /\ CloseRun(ls, due, c).due \in Int
         /\ CloseRun(ls, due, c).taken \in Seq(OpenLots)
<1>1. PICK f \in [0..Len(ls) -> Runs] : CloseRun(ls, due, c) = f[Len(ls)]
  BY CloseRunLoop
<1>2. Len(ls) \in 0..Len(ls)
  OBVIOUS
<1>3. CloseRun(ls, due, c) \in Runs
  BY <1>1, <1>2
<1> QED BY <1>3 DEF Runs

LEMMA ApplyLegTypes ==
  ASSUME NEW b \in Books, NEW leg \in LegRecords, NEW now \in Nat, NEW c \in Owners
  PROVE  ApplyLeg(b, leg, now, c) \in Books
<1>1. /\ b.lots \in [Instruments -> Seq(OpenLots)] /\ b.nextId \in Nat /\ b.ok \in BOOLEAN
      /\ b.taken \in Seq(OpenLots)
  BY BookFields
<1>2. leg.instrument \in Instruments /\ Executed(leg) \in Int \ {0}
  BY ExecutedTypes
<1>3. PICK run : run = CloseRun(b.lots[leg.instrument], Executed(leg), c)
  OBVIOUS
<1>4. run.open \in Seq(OpenLots) /\ run.due \in Int /\ run.taken \in Seq(OpenLots)
  BY <1>1, <1>2, <1>3, CloseRunTypes
<1>5. CASE ~b.ok
  BY <1>5 DEF ApplyLeg
<1>6. CASE b.ok /\ leg.effect = "OPEN"
  <2>1. ApplyLeg(b, leg, now, c) = AppendNew(b, leg.instrument, Executed(leg), now, c)
    BY <1>6 DEF ApplyLeg
  <2> QED BY <1>2, <2>1, AppendNewTypes
<1>7. CASE b.ok /\ leg.effect # "OPEN"
  <2>1. ApplyLeg(b, leg, now, c) =
          [lots |-> [b.lots EXCEPT ![leg.instrument] = run.open], nextId |-> b.nextId,
           ok |-> run.due = 0, taken |-> b.taken \o run.taken]
    BY <1>3, <1>7 DEF ApplyLeg
  <2>2. [b.lots EXCEPT ![leg.instrument] = run.open] \in [Instruments -> Seq(OpenLots)]
    BY <1>1, <1>4
  <2>3. b.taken \o run.taken \in Seq(OpenLots)
    BY <1>1, <1>4
  <2> QED BY <1>1, <2>1, <2>2, <2>3 DEF Books
<1> QED BY <1>5, <1>6, <1>7

LEMMA ApplyTradeLoop ==
  ASSUME NEW b \in Books, NEW trade \in TradeRecords, NEW c \in Owners
  PROVE  \E f \in [0..Len(trade.legs) -> Books] :
           /\ f[0] = b
           /\ \A k \in 1..Len(trade.legs) : f[k] = ApplyLeg(f[k - 1], trade.legs[k], trade.time, c)
           /\ ApplyTrade(b, trade, c) = f[Len(trade.legs)]
<1> DEFINE n == Len(trade.legs)
           base == b
           next == [kr \in (1..n) \X Books |-> ApplyLeg(kr[2], trade.legs[kr[1]], trade.time, c)]
           Solves(g) == g = [k \in 0..n |-> IF k = 0 THEN base ELSE ApplyLeg(g[k - 1], trade.legs[k], trade.time, c)]
           run == CHOOSE g : Solves(g)
<1>1. n \in Nat /\ base \in Books
  BY DEF TradeRecords
<1>2. ASSUME NEW k \in 1..n, NEW r \in Books PROVE ApplyLeg(r, trade.legs[k], trade.time, c) \in Books
  <2>1. trade.legs[k] \in LegRecords /\ trade.time \in Nat
    BY <1>1, <1>2 DEF TradeRecords
  <2> QED BY <1>2, <2>1, ApplyLegTypes
<1>3. next \in [(1..n) \X Books -> Books]
  BY <1>2
<1>4. PICK f : IsLoop(f, n, Books, base, next)
  <2> HIDE DEF n, base, next
  <2> QED BY <1>1, <1>3, LoopExists
<1>5. /\ f \in [0..n -> Books] /\ f[0] = base
      /\ \A k \in 1..n : f[k] = ApplyLeg(f[k - 1], trade.legs[k], trade.time, c)
  BY <1>4 DEF IsLoop
<1>6. Solves(f)
  BY <1>5
<1>7. Solves(run)
  <2> HIDE DEF Solves
  <2> QED BY <1>6
<1>8. ApplyTrade(b, trade, c) = run[n]
  BY DEF ApplyTrade
<1>9. run[n] = f[n]
  <2> HIDE DEF run, n
  <2>1. 0 \in 0..n /\ \A k \in 1..n : k \in 0..n /\ k # 0
    BY <1>1
  <2>2. run[0] = base /\ \A k \in 1..n : run[k] = ApplyLeg(run[k - 1], trade.legs[k], trade.time, c)
    BY <1>7, <2>1
  <2>3. Follows(run, n, Books, base, next)
    BY <2>2 DEF Follows
  <2> HIDE DEF base, next
  <2> QED BY <1>1, <1>4, <2>3, LoopIsOnly
<1> HIDE DEF run
<1> QED BY <1>5, <1>8, <1>9

LEMMA TradeTypes ==
  ASSUME NEW b \in Books, NEW trade \in TradeRecords, NEW c \in Owners
  PROVE  ApplyTrade(b, trade, c) \in Books
<1>1. PICK f \in [0..Len(trade.legs) -> Books] : ApplyTrade(b, trade, c) = f[Len(trade.legs)]
  BY ApplyTradeLoop
<1>2. Len(trade.legs) \in 0..Len(trade.legs)
  BY DEF TradeRecords
<1> QED BY <1>1, <1>2

LEMMA ApplyChangeTypes ==
  ASSUME NEW b \in Books, NEW change \in ChangeRecords, NEW now \in Nat, NEW c \in Owners
  PROVE  ApplyChange(b, change, now, c) \in Books
<1>1. /\ b.lots \in [Instruments -> Seq(OpenLots)] /\ b.nextId \in Nat /\ b.ok \in BOOLEAN
      /\ b.taken \in Seq(OpenLots)
  BY BookFields
<1>2. change.instrument \in Instruments /\ change.quantity \in Int /\ NoCampaign \in Owners
  BY DEF ChangeRecords, Owners
<1>3. PICK run : run = CloseRun(b.lots[change.instrument], change.quantity, NoCampaign)
  OBVIOUS
<1>4. run.open \in Seq(OpenLots) /\ run.due \in Int /\ run.taken \in Seq(OpenLots)
  BY <1>1, <1>2, <1>3, CloseRunTypes
<1>5. PICK closed : closed = [lots |-> [b.lots EXCEPT ![change.instrument] = run.open],
                              nextId |-> b.nextId, ok |-> b.ok, taken |-> b.taken \o run.taken]
  OBVIOUS
<1>6. closed \in Books
  <2>1. [b.lots EXCEPT ![change.instrument] = run.open] \in [Instruments -> Seq(OpenLots)]
    BY <1>1, <1>4
  <2>2. b.taken \o run.taken \in Seq(OpenLots)
    BY <1>1, <1>4
  <2> QED BY <1>1, <1>5, <2>1, <2>2 DEF Books
<1>7. ApplyChange(b, change, now, c) =
        IF run.due = 0 THEN closed ELSE AppendNew(closed, change.instrument, run.due, now, c)
  BY <1>3, <1>5 DEF ApplyChange
<1> QED BY <1>2, <1>4, <1>6, <1>7, AppendNewTypes

Claims == [open : Seq(OpenLots), due : Nat, nextId : Nat]

LEMMA ClaimLotTypes ==
  ASSUME NEW r \in Claims, NEW lot \in OpenLots, NEW c \in Owners
  PROVE  ClaimLot(r, lot, c) \in Claims
<1>1. r.open \in Seq(OpenLots) /\ r.due \in Nat /\ r.nextId \in Nat
  BY DEF Claims
<1>2. /\ lot.id \in LotNames /\ lot.quantity \in Int \ {0} /\ lot.opened \in Nat
      /\ lot.campaign \in Owners
  BY DEF OpenLots
<1>3. CASE r.due = 0 \/ lot.campaign # NoCampaign \/ lot.quantity < 0
  BY <1>1, <1>3 DEF ClaimLot, Claims
<1>4. CASE ~(r.due = 0 \/ lot.campaign # NoCampaign \/ lot.quantity < 0)
  <2>1. PICK part : part = Smaller(lot.quantity, r.due)
    OBVIOUS
  <2>2. part \in Nat \ {0} /\ lot.quantity - part \in Nat /\ r.due - part \in Nat
    BY <1>1, <1>2, <1>4, <2>1 DEF Smaller
  <2>3. PICK mine, rest : /\ mine = BuildLot(lot.id, part, lot.opened, c)
                          /\ rest = BuildLot(LotId("LOT", 0, NoCampaign, r.nextId),
                                            lot.quantity - part, lot.opened, lot.campaign)
    OBVIOUS
  <2>4. mine \in OpenLots
    BY <1>2, <2>2, <2>3 DEF BuildLot, OpenLots
  <2>5. part # lot.quantity => rest \in OpenLots
    <3>1. LotId("LOT", 0, NoCampaign, r.nextId) \in LotNames
      BY <1>1 DEF LotId, LotNames
    <3> QED BY <1>2, <2>2, <2>3, <3>1 DEF BuildLot, OpenLots
  <2>6. ClaimLot(r, lot, c) =
          [open |-> r.open \o (IF part = lot.quantity THEN << mine >> ELSE << mine, rest >>),
           due |-> r.due - part,
           nextId |-> IF part = lot.quantity THEN r.nextId ELSE r.nextId + 1]
    BY <1>4, <2>1, <2>3 DEF ClaimLot
  <2>7. r.open \o (IF part = lot.quantity THEN << mine >> ELSE << mine, rest >>) \in Seq(OpenLots)
    <3>1. CASE part = lot.quantity
      <4>1. << mine >> \in Seq(OpenLots)
        BY <2>4
      <4> QED BY <1>1, <3>1, <4>1
    <3>2. CASE part # lot.quantity
      <4>1. << mine, rest >> \in Seq(OpenLots)
        BY <2>4, <2>5, <3>2
      <4> QED BY <1>1, <3>2, <4>1
    <3> QED BY <3>1, <3>2
  <2> QED BY <1>1, <2>2, <2>6, <2>7 DEF Claims
<1> QED BY <1>3, <1>4

LEMMA ClaimLoop ==
  ASSUME NEW ls \in Seq(OpenLots), NEW quantity \in Nat, NEW nextId \in Nat, NEW c \in Owners
  PROVE  \E f \in [0..Len(ls) -> Claims] :
           /\ f[0] = [open |-> << >>, due |-> quantity, nextId |-> nextId]
           /\ \A k \in 1..Len(ls) : f[k] = ClaimLot(f[k - 1], ls[k], c)
           /\ ClaimRun(ls, quantity, nextId, c) = f[Len(ls)]
<1> DEFINE n == Len(ls)
           base == [open |-> << >>, due |-> quantity, nextId |-> nextId]
           next == [kr \in (1..n) \X Claims |-> ClaimLot(kr[2], ls[kr[1]], c)]
           Solves(g) == g = [k \in 0..n |-> IF k = 0 THEN base ELSE ClaimLot(g[k - 1], ls[k], c)]
           run == CHOOSE g : Solves(g)
<1>1. n \in Nat /\ base \in Claims
  BY DEF Claims
<1>2. ASSUME NEW k \in 1..n, NEW r \in Claims PROVE ClaimLot(r, ls[k], c) \in Claims
  BY <1>1, <1>2, ClaimLotTypes
<1>3. next \in [(1..n) \X Claims -> Claims]
  BY <1>2
<1>4. PICK f : IsLoop(f, n, Claims, base, next)
  <2> HIDE DEF n, base, next
  <2> QED BY <1>1, <1>3, LoopExists
<1>5. /\ f \in [0..n -> Claims] /\ f[0] = base
      /\ \A k \in 1..n : f[k] = ClaimLot(f[k - 1], ls[k], c)
  BY <1>4 DEF IsLoop
<1>6. Solves(f)
  BY <1>5
<1>7. Solves(run)
  <2> HIDE DEF Solves
  <2> QED BY <1>6
<1>8. ClaimRun(ls, quantity, nextId, c) = run[n]
  BY DEF ClaimRun
<1>9. run[n] = f[n]
  <2> HIDE DEF run, n
  <2>1. 0 \in 0..n /\ \A k \in 1..n : k \in 0..n /\ k # 0
    BY <1>1
  <2>2. run[0] = base /\ \A k \in 1..n : run[k] = ClaimLot(run[k - 1], ls[k], c)
    BY <1>7, <2>1
  <2>3. Follows(run, n, Claims, base, next)
    BY <2>2 DEF Follows
  <2> HIDE DEF base, next
  <2> QED BY <1>1, <1>4, <2>3, LoopIsOnly
<1> HIDE DEF run
<1> QED BY <1>5, <1>8, <1>9

LEMMA ClaimRunTypes ==
  ASSUME NEW ls \in Seq(OpenLots), NEW quantity \in Nat, NEW nextId \in Nat, NEW c \in Owners
  PROVE  ClaimRun(ls, quantity, nextId, c) \in Claims
<1>1. PICK f \in [0..Len(ls) -> Claims] :
        /\ f[0] = [open |-> << >>, due |-> quantity, nextId |-> nextId]
        /\ \A k \in 1..Len(ls) : f[k] = ClaimLot(f[k - 1], ls[k], c)
        /\ ClaimRun(ls, quantity, nextId, c) = f[Len(ls)]
  BY ClaimLoop
<1>2. Len(ls) \in 0..Len(ls)
  OBVIOUS
<1> QED BY <1>1, <1>2

LEMMA ClaimUnassignedTypes ==
  ASSUME NEW b \in Books, NEW i \in Instruments, NEW quantity \in Nat, NEW c \in Owners
  PROVE  ClaimUnassigned(b, i, quantity, c) \in Books
<1>1. /\ b.lots \in [Instruments -> Seq(OpenLots)] /\ b.nextId \in Nat /\ b.ok \in BOOLEAN
      /\ b.taken \in Seq(OpenLots)
  BY BookFields
<1>2. PICK run : run = ClaimRun(b.lots[i], quantity, b.nextId, c)
  OBVIOUS
<1>3. run.open \in Seq(OpenLots) /\ run.nextId \in Nat
  BY <1>1, <1>2, ClaimRunTypes DEF Claims
<1>4. ClaimUnassigned(b, i, quantity, c) =
        IF Unclaimed(b.lots[i]) = {} THEN b
        ELSE [lots |-> [b.lots EXCEPT ![i] = run.open], nextId |-> run.nextId,
              ok |-> run.due = 0, taken |-> b.taken]
  BY <1>2 DEF ClaimUnassigned
<1>5. [b.lots EXCEPT ![i] = run.open] \in [Instruments -> Seq(OpenLots)]
  BY <1>1, <1>3
<1> QED BY <1>1, <1>3, <1>4, <1>5 DEF Books

LEMMA OwnerTypes ==
  ASSUME NEW taken \in Seq(OpenLots), NEW kind, NEW c \in Owners
  PROVE  OwnerOf(taken, kind, c) \in Owners
<1>1. PICK named : named = { a.campaign : a \in ToSet(taken) } \ {NoCampaign}
  OBVIOUS
<1>2. named \subseteq Owners
  <2>1. \A k \in DOMAIN taken : taken[k] \in OpenLots
    OBVIOUS
  <2>2. \A k \in DOMAIN taken : taken[k].campaign \in Owners
    BY <2>1 DEF OpenLots
  <2> QED BY <1>1, <2>2 DEF ToSet
<1>3. Cardinality(named) = 1 => named # {}
  <2>1. Cardinality({}) = 0
    BY FS_EmptySet
  <2> QED BY <2>1, SMTT(40)
<1>4. OwnerOf(taken, kind, c) = IF kind = "ASSIGNMENT" /\ Cardinality(named) = 1
                                THEN CHOOSE x \in named : TRUE ELSE c
  BY <1>1 DEF OwnerOf
<1>5. CASE kind = "ASSIGNMENT" /\ Cardinality(named) = 1
  BY <1>2, <1>3, <1>4, <1>5
<1>6. CASE ~(kind = "ASSIGNMENT" /\ Cardinality(named) = 1)
  BY <1>4, <1>6
<1> QED BY <1>5, <1>6

EventRuns == [book : Books, owner : Owners]

LEMMA EventChangeTypes ==
  ASSUME NEW r \in EventRuns, NEW event \in EventRecords, NEW change \in ChangeRecords
  PROVE  EventChange(r, event, change) \in EventRuns
<1>1. r.book \in Books /\ r.owner \in Owners /\ event.time \in Nat /\ NoCampaign \in Owners
  BY DEF EventRuns, EventRecords, Owners
<1>2. change.instrument \in Instruments /\ change.quantity \in Int
  BY DEF ChangeRecords
<1>3. PICK bound : bound = IF r.owner # NoCampaign /\ change.quantity < 0
                 THEN ClaimUnassigned(r.book, change.instrument, -change.quantity, r.owner)
                 ELSE r.book
  OBVIOUS
<1>4. bound \in Books
  BY <1>1, <1>2, <1>3, ClaimUnassignedTypes
<1>5. PICK closed : closed = ApplyChange([r.book EXCEPT !.taken = << >>], change, event.time, NoCampaign)
  OBVIOUS
<1>6. closed \in Books
  BY <1>1, <1>5, TakenReset, ApplyChangeTypes
<1>7. ApplyChange(bound, change, event.time, r.owner) \in Books
  BY <1>1, <1>4, ApplyChangeTypes
<1>8. OwnerOf(closed.taken, event.kind, r.owner) \in Owners
  BY <1>1, <1>6, BookFields, OwnerTypes
<1>9. EventChange(r, event, change) =
        IF ~r.book.ok THEN r
        ELSE IF change.instrument \in Options
        THEN [book |-> closed, owner |-> OwnerOf(closed.taken, event.kind, r.owner)]
        ELSE [book |-> IF bound.ok THEN ApplyChange(bound, change, event.time, r.owner) ELSE bound,
              owner |-> r.owner]
  BY <1>3, <1>5 DEF EventChange
<1>10. (IF bound.ok THEN ApplyChange(bound, change, event.time, r.owner) ELSE bound) \in Books
  BY <1>4, <1>7
<1> QED BY <1>1, <1>6, <1>8, <1>9, <1>10 DEF EventRuns

LEMMA ApplyEventLoop ==
  ASSUME NEW b \in Books, NEW event \in EventRecords
  PROVE  \E f \in [0..Len(event.changes) -> EventRuns] :
           /\ f[0] = [book |-> b, owner |-> NoCampaign]
           /\ \A k \in 1..Len(event.changes) : f[k] = EventChange(f[k - 1], event, event.changes[k])
           /\ ApplyEvent(b, event) = f[Len(event.changes)].book
<1> DEFINE n == Len(event.changes)
           base == [book |-> b, owner |-> NoCampaign]
           next == [kr \in (1..n) \X EventRuns |-> EventChange(kr[2], event, event.changes[kr[1]])]
           Solves(g) == g = [k \in 0..n |-> IF k = 0 THEN base ELSE EventChange(g[k - 1], event, event.changes[k])]
           run == CHOOSE g : Solves(g)
<1>1. n \in Nat /\ base \in EventRuns
  BY DEF EventRuns, EventRecords, Owners
<1>2. ASSUME NEW k \in 1..n, NEW r \in EventRuns PROVE EventChange(r, event, event.changes[k]) \in EventRuns
  <2>1. event.changes[k] \in ChangeRecords
    BY <1>1, <1>2 DEF EventRecords
  <2> QED BY <1>2, <2>1, EventChangeTypes
<1>3. next \in [(1..n) \X EventRuns -> EventRuns]
  BY <1>2
<1>4. PICK f : IsLoop(f, n, EventRuns, base, next)
  <2> HIDE DEF n, base, next
  <2> QED BY <1>1, <1>3, LoopExists
<1>5. /\ f \in [0..n -> EventRuns] /\ f[0] = base
      /\ \A k \in 1..n : f[k] = EventChange(f[k - 1], event, event.changes[k])
  BY <1>4 DEF IsLoop
<1>6. Solves(f)
  BY <1>5
<1>7. Solves(run)
  <2> HIDE DEF Solves
  <2> QED BY <1>6
<1>8. ApplyEvent(b, event) = run[n].book
  BY DEF ApplyEvent
<1>9. run[n] = f[n]
  <2> HIDE DEF run, n
  <2>1. 0 \in 0..n /\ \A k \in 1..n : k \in 0..n /\ k # 0
    BY <1>1
  <2>2. run[0] = base /\ \A k \in 1..n : run[k] = EventChange(run[k - 1], event, event.changes[k])
    BY <1>7, <2>1
  <2>3. Follows(run, n, EventRuns, base, next)
    BY <2>2 DEF Follows
  <2> HIDE DEF base, next
  <2> QED BY <1>1, <1>4, <2>3, LoopIsOnly
<1> HIDE DEF run
<1> QED BY <1>5, <1>8, <1>9

LEMMA EventTypes ==
  ASSUME NEW b \in Books, NEW event \in EventRecords
  PROVE  ApplyEvent(b, event) \in Books
<1>1. PICK f \in [0..Len(event.changes) -> EventRuns] :
        ApplyEvent(b, event) = f[Len(event.changes)].book
  BY ApplyEventLoop
<1>2. Len(event.changes) \in 0..Len(event.changes)
  BY DEF EventRecords
<1> QED BY <1>1, <1>2 DEF EventRuns

-----------------------------------------------------------------------------
(* The campaigns of the month, and the order in which its history is replayed. *)
LEMMA JoinedMembers ==
  ASSUME NEW groups \in Seq(Seq(TradeRecords)), NEW trade \in TradeRecords
  PROVE  /\ Joined(groups, trade) \in Seq(Seq(TradeRecords))
         /\ Len(Joined(groups, trade)) <= Len(groups) + 1
         /\ Members(groups) \cup {trade} \subseteq Members(Joined(groups, trade))
<1>1. PICK takers : takers = { k \in DOMAIN groups : Joins(groups[k], trade) }
  OBVIOUS
<1>2. DOMAIN groups = 1..Len(groups) /\ Len(groups) \in Nat
      /\ \A k \in 1..Len(groups) : groups[k] \in Seq(TradeRecords)
  OBVIOUS
<1>3. CASE takers = {}
  <2>1. Joined(groups, trade) = Append(groups, << trade >>)
    BY <1>1, <1>3 DEF Joined
  <2>2. PICK more : more = Append(groups, << trade >>)
    OBVIOUS
  <2>3. << trade >> \in Seq(TradeRecords)
    OBVIOUS
  <2>4. /\ more \in Seq(Seq(TradeRecords)) /\ Len(more) = Len(groups) + 1
        /\ DOMAIN more = 1..(Len(groups) + 1)
        /\ \A k \in 1..Len(groups) : more[k] = groups[k]
        /\ more[Len(groups) + 1] = << trade >>
    BY <1>2, <2>2, <2>3
  <2>5. ASSUME NEW x \in Members(groups) PROVE x \in Members(more)
    <3>1. PICK k \in 1..Len(groups) : x \in ToSet(groups[k])
      BY <1>2, <2>5 DEF Members
    <3>2. k \in DOMAIN more /\ x \in ToSet(more[k])
      BY <1>2, <2>4, <3>1
    <3> QED BY <3>2 DEF Members
  <2>6. trade \in Members(more)
    <3>1. Len(groups) + 1 \in DOMAIN more /\ trade \in ToSet(more[Len(groups) + 1])
      BY <1>2, <2>4 DEF ToSet
    <3> QED BY <3>1 DEF Members
  <2> QED BY <1>2, <2>1, <2>2, <2>4, <2>5, <2>6
<1>4. CASE takers # {}
  <2>1. PICK m : m = Min(takers)
    OBVIOUS
  <2>2. m \in 1..Len(groups)
    <3>1. takers \in SUBSET Nat
      BY <1>1, <1>2
    <3> QED BY <1>1, <1>2, <1>4, <2>1, <3>1, MinIsLeast
  <2>3. PICK longer : longer = Append(groups[m], trade)
    OBVIOUS
  <2>4. Joined(groups, trade) = [groups EXCEPT ![m] = longer]
    BY <1>1, <1>4, <2>1, <2>3 DEF Joined
  <2>5. /\ longer \in Seq(TradeRecords) /\ trade \in ToSet(longer)
        /\ ToSet(groups[m]) \subseteq ToSet(longer)
    <3>1. PICK old \in Seq(TradeRecords) : old = groups[m]
      BY <1>2, <2>2
    <3>2. longer = Append(old, trade) /\ longer \in Seq(TradeRecords)
          /\ DOMAIN longer = 1..(Len(old) + 1) /\ Len(old) \in Nat /\ DOMAIN old = 1..Len(old)
          /\ (\A k \in 1..Len(old) : longer[k] = old[k]) /\ longer[Len(old) + 1] = trade
      BY <2>3, <3>1
    <3> QED BY <3>1, <3>2 DEF ToSet
  <2>6. PICK more : more = [groups EXCEPT ![m] = longer]
    OBVIOUS
  <2>7. /\ more \in Seq(Seq(TradeRecords)) /\ Len(more) = Len(groups)
        /\ DOMAIN more = 1..Len(groups)
        /\ \A k \in 1..Len(groups) : more[k] = IF k = m THEN longer ELSE groups[k]
    BY <1>2, <2>2, <2>5, <2>6
  <2>8. ASSUME NEW x \in Members(groups) PROVE x \in Members(more)
    <3>1. PICK k \in 1..Len(groups) : x \in ToSet(groups[k])
      BY <1>2, <2>8 DEF Members
    <3>2. k \in DOMAIN more /\ x \in ToSet(more[k])
      BY <2>5, <2>7, <3>1
    <3> QED BY <3>2 DEF Members
  <2>9. trade \in Members(more)
    <3>1. m \in DOMAIN more /\ trade \in ToSet(more[m])
      BY <2>2, <2>5, <2>7
    <3> QED BY <3>1 DEF Members
  <2>10. Joined(groups, trade) = more
    BY <2>4, <2>6
  <2>11. Members(groups) \cup {trade} \subseteq Members(more)
    BY <2>8, <2>9
  <2>12. Len(more) <= Len(groups) + 1
    BY ONLY <1>2, <2>7
  <2> QED BY ONLY <2>7, <2>10, <2>11, <2>12
<1> QED BY <1>3, <1>4

LEMMA ReconstructLoop ==
  ASSUME NEW trades \in Seq(TradeRecords)
  PROVE  \E f \in [0..Len(trades) -> Seq(Seq(TradeRecords))] :
           /\ f[0] = << >>
           /\ \A k \in 1..Len(trades) : f[k] = Joined(f[k - 1], trades[k])
           /\ Reconstruct(trades) = f[Len(trades)]
<1> DEFINE n == Len(trades)
           base == << >>
           next == [kr \in (1..n) \X Seq(Seq(TradeRecords)) |-> Joined(kr[2], trades[kr[1]])]
           Solves(g) == g = [k \in 0..n |-> IF k = 0 THEN base ELSE Joined(g[k - 1], trades[k])]
           run == CHOOSE g : Solves(g)
<1>1. n \in Nat /\ base \in Seq(Seq(TradeRecords))
  OBVIOUS
<1>2. ASSUME NEW k \in 1..n, NEW r \in Seq(Seq(TradeRecords)) PROVE Joined(r, trades[k]) \in Seq(Seq(TradeRecords))
  <2>1. trades[k] \in TradeRecords
    BY <1>1, <1>2
  <2> QED BY <1>2, <2>1, JoinedMembers
<1>3. next \in [(1..n) \X Seq(Seq(TradeRecords)) -> Seq(Seq(TradeRecords))]
  BY <1>2
<1>4. PICK f : IsLoop(f, n, Seq(Seq(TradeRecords)), base, next)
  <2> HIDE DEF n, base, next
  <2> QED BY <1>1, <1>3, LoopExists
<1>5. /\ f \in [0..n -> Seq(Seq(TradeRecords))] /\ f[0] = base
      /\ \A k \in 1..n : f[k] = Joined(f[k - 1], trades[k])
  BY <1>4 DEF IsLoop
<1>6. Solves(f)
  BY <1>5
<1>7. Solves(run)
  <2> HIDE DEF Solves
  <2> QED BY <1>6
<1>8. Reconstruct(trades) = run[n]
  BY DEF Reconstruct
<1>9. run[n] = f[n]
  <2> HIDE DEF run, n
  <2>1. 0 \in 0..n /\ \A k \in 1..n : k \in 0..n /\ k # 0
    BY <1>1
  <2>2. run[0] = base /\ \A k \in 1..n : run[k] = Joined(run[k - 1], trades[k])
    BY <1>7, <2>1
  <2>3. Follows(run, n, Seq(Seq(TradeRecords)), base, next)
    BY <2>2 DEF Follows
  <2> HIDE DEF base, next
  <2> QED BY <1>1, <1>4, <2>3, LoopIsOnly
<1> HIDE DEF run
<1> QED BY <1>5, <1>8, <1>9

\* Every trade of a file is in a campaign, and there are no more campaigns than trades.
LEMMA ReconstructMembers ==
  ASSUME NEW trades \in Seq(TradeRecords)
  PROVE  /\ Reconstruct(trades) \in Seq(Seq(TradeRecords))
         /\ Len(Reconstruct(trades)) <= Len(trades)
         /\ ToSet(trades) \subseteq Members(Reconstruct(trades))
<1>1. PICK f \in [0..Len(trades) -> Seq(Seq(TradeRecords))] :
        /\ f[0] = << >>
        /\ \A k \in 1..Len(trades) : f[k] = Joined(f[k - 1], trades[k])
        /\ Reconstruct(trades) = f[Len(trades)]
  BY ReconstructLoop
<1> DEFINE n == Len(trades)
           S == { k \in 0..n : /\ Len(f[k]) <= k
                               /\ \A j \in 1..k : trades[j] \in Members(f[k]) }
<1>2. n \in Nat /\ DOMAIN trades = 1..n /\ \A k \in 1..n : trades[k] \in TradeRecords
  OBVIOUS
<1>3. 0 \in S
  BY <1>1, <1>2
<1>4. ASSUME NEW k \in 1..n, k - 1 \in S PROVE k \in S
  <2>1. f[k - 1] \in Seq(Seq(TradeRecords)) /\ f[k] = Joined(f[k - 1], trades[k])
        /\ trades[k] \in TradeRecords
    BY <1>1, <1>2
  <2>2. /\ f[k] \in Seq(Seq(TradeRecords)) /\ Len(f[k]) <= Len(f[k - 1]) + 1
        /\ Members(f[k - 1]) \cup {trades[k]} \subseteq Members(f[k])
    BY <2>1, JoinedMembers
  <2>3. Len(f[k]) \in Nat /\ Len(f[k - 1]) \in Nat
    BY <2>1, <2>2
  <2>4. Len(f[k - 1]) <= k - 1 /\ \A j \in 1..(k - 1) : trades[j] \in Members(f[k - 1])
    BY <1>4
  <2>5. Len(f[k]) <= k
    BY <2>2, <2>3, <2>4
  <2>6. ASSUME NEW j \in 1..k PROVE trades[j] \in Members(f[k])
    <3>1. j = k \/ j \in 1..(k - 1)
      BY <1>2
    <3> QED BY <2>2, <2>4, <3>1
  <2> QED BY <1>2, <2>5, <2>6
<1>5. n \in S
  <2>1. n \in 0..n
    BY <1>2
  <2> HIDE DEF S, n
  <2> QED BY <1>2, <1>3, <1>4, <2>1, Upward
<1>6. Len(f[n]) <= n /\ \A j \in 1..n : trades[j] \in Members(f[n])
  BY <1>5
<1>7. f[n] \in Seq(Seq(TradeRecords))
  BY <1>1, <1>2
<1> QED BY <1>1, <1>2, <1>6, <1>7 DEF ToSet

-----------------------------------------------------------------------------
(* What closing leaves and what it takes. *)
\* One lot: units only move from the lot to the allocation.
CloseStep(r, lot, next) ==
  /\ SumQuantities(next.open) - SumQuantities(next.taken)
       = SumQuantities(r.open) - SumQuantities(r.taken) + lot.quantity
  /\ next.due + SumQuantities(next.taken) = r.due + SumQuantities(r.taken)
  /\ next.due = 0 \/ Sign(next.due) = Sign(r.due)
  /\ \/ next.taken = r.taken
     \/ \E x \in OpenLots : /\ next.taken = Append(r.taken, x)
                            /\ r.due # 0 /\ Sign(x.quantity) = Sign(r.due)
  /\ \/ next.open = r.open
     \/ \E y \in OpenLots : /\ next.open = Append(r.open, y)
                            /\ y.id = lot.id /\ y.campaign = lot.campaign

LEMMA CloseLotSteps ==
  ASSUME NEW r \in Runs, NEW lot \in OpenLots, NEW c \in Owners
  PROVE  CloseStep(r, lot, CloseLot(r, lot, c))
<1>1. r.open \in Seq(OpenLots) /\ r.due \in Int /\ r.taken \in Seq(OpenLots)
  BY DEF Runs
<1>2. SumQuantities(r.open) \in Int /\ SumQuantities(r.taken) \in Int
  BY <1>1, LotsQuantified, QuantitiesAreInts
<1>3. lot.quantity \in Int /\ lot.id \in LotNames /\ lot.opened \in Nat /\ lot.campaign \in Owners
  BY DEF OpenLots
<1>4. PICK next : next = CloseLot(r, lot, c)
  OBVIOUS
<1>5. CASE r.due = 0 \/ Sign(lot.quantity) = Sign(r.due)
  <2>1. next = [open |-> Append(r.open, lot), due |-> r.due, taken |-> r.taken]
    BY <1>4, <1>5 DEF CloseLot
  <2>2. next.open = Append(r.open, lot) /\ next.due = r.due /\ next.taken = r.taken
    BY <2>1
  <2>3. SumQuantities(next.open) = SumQuantities(r.open) + lot.quantity
    BY <1>1, <2>2, LotsQuantified, SumOfOneMore
  <2>4. \E y \in OpenLots : /\ next.open = Append(r.open, y)
                           /\ y.id = lot.id /\ y.campaign = lot.campaign
    BY <2>2
  <2> QED BY <1>1, <1>2, <1>3, <1>4, <2>2, <2>3, <2>4 DEF CloseStep
<1>6. CASE ~(r.due = 0 \/ Sign(lot.quantity) = Sign(r.due))
  <2>1. PICK part : part = Taken(lot, r.due)
    OBVIOUS
  <2>2. PICK rest, used : /\ rest = [lot EXCEPT !.quantity = lot.quantity + part]
                          /\ used = AllocationOf(lot, part, c)
    OBVIOUS
  <2>3. next = [open |-> IF lot.quantity + part = 0 THEN r.open ELSE Append(r.open, rest),
                due |-> r.due - part, taken |-> Append(r.taken, used)]
    BY <1>4, <1>6, <2>1, <2>2 DEF CloseLot
  <2>4. /\ next.open = IF lot.quantity + part = 0 THEN r.open ELSE Append(r.open, rest)
        /\ next.due = r.due - part /\ next.taken = Append(r.taken, used)
    BY <2>3
  <2>5. /\ part \in Int \ {0} /\ Sign(part) = Sign(r.due) /\ lot.quantity + part \in Int
        /\ r.due - part = 0 \/ Sign(r.due - part) = Sign(r.due)
    BY <1>1, <1>6, <2>1, TakenFacts
  <2>6. used \in OpenLots /\ used.quantity = part
    BY <1>3, <2>2, <2>5 DEF AllocationOf, OpenLots
  <2>7. lot.quantity + part # 0 =>
          /\ rest \in OpenLots /\ rest.quantity = lot.quantity + part
          /\ rest.id = lot.id /\ rest.campaign = lot.campaign
    BY <1>3, <2>2, <2>5 DEF OpenLots
  <2>8. SumQuantities(next.taken) = SumQuantities(r.taken) + part
    BY <1>1, <2>4, <2>6, LotsQuantified, SumOfOneMore
  <2>9. SumQuantities(next.open) = SumQuantities(r.open) + lot.quantity + part
    <3>1. CASE lot.quantity + part = 0
      <4>1. next.open = r.open
        BY <2>4, <3>1
      <4> QED BY ONLY <1>2, <1>3, <2>5, <3>1, <4>1
    <3>2. CASE lot.quantity + part # 0
      <4>1. SumQuantities(next.open) = SumQuantities(r.open) + rest.quantity
        BY <1>1, <2>4, <2>7, <3>2, LotsQuantified, SumOfOneMore
      <4> QED BY <1>2, <1>3, <2>5, <2>7, <3>2, <4>1
    <3> QED BY <3>1, <3>2
  <2>10. \/ next.open = r.open
         \/ \E y \in OpenLots : /\ next.open = Append(r.open, y)
                               /\ y.id = lot.id /\ y.campaign = lot.campaign
    BY <2>4, <2>7
  <2>11. \E x \in OpenLots : /\ next.taken = Append(r.taken, x)
                            /\ r.due # 0 /\ Sign(x.quantity) = Sign(r.due)
    BY <1>6, <2>4, <2>5, <2>6
  <2>12. /\ SumQuantities(next.open) - SumQuantities(next.taken)
              = SumQuantities(r.open) - SumQuantities(r.taken) + lot.quantity
         /\ next.due + SumQuantities(next.taken) = r.due + SumQuantities(r.taken)
    <3>1. PICK a, b, q, p, due : /\ a = SumQuantities(r.open) /\ b = SumQuantities(r.taken)
                              /\ q = lot.quantity /\ p = part /\ due = r.due
      OBVIOUS
    <3>2. a \in Int /\ b \in Int /\ q \in Int /\ p \in Int /\ due \in Int
      BY <1>1, <1>2, <1>3, <2>5, <3>1
    <3>3. /\ SumQuantities(next.open) = a + q + p /\ SumQuantities(next.taken) = b + p
          /\ next.due = due - p
      BY <2>4, <2>8, <2>9, <3>1
    <3>4. (a + q + p) - (b + p) = a - b + q /\ (due - p) + (b + p) = due + b
      BY <3>2
    <3> QED BY ONLY <3>1, <3>3, <3>4
  <2>13. next.due = 0 \/ Sign(next.due) = Sign(r.due)
    BY <2>4, <2>5
  <2> QED BY <1>4, <2>10, <2>11, <2>12, <2>13 DEF CloseStep
<1> QED BY <1>5, <1>6

LEMMA CloseRunSums ==
  ASSUME NEW ls \in Seq(OpenLots), NEW due \in Int, NEW c \in Owners
  PROVE  LET run == CloseRun(ls, due, c) IN
         /\ SumQuantities(run.open) = SumQuantities(ls) + SumQuantities(run.taken)
         /\ run.due = due - SumQuantities(run.taken)
         /\ run.due = 0 \/ Sign(run.due) = Sign(due)
         /\ \A j \in 1..Len(run.taken) :
              due # 0 /\ Sign(run.taken[j].quantity) = Sign(due)
<1>1. PICK f \in [0..Len(ls) -> Runs] :
        /\ f[0] = [open |-> << >>, due |-> due, taken |-> << >>]
        /\ \A k \in 1..Len(ls) : f[k] = CloseLot(f[k - 1], ls[k], c)
        /\ CloseRun(ls, due, c) = f[Len(ls)]
  BY CloseRunLoop
<1>2. PICK d : d = QuantitiesOf(ls)
  OBVIOUS
<1>3. d \in Seq(Int) /\ Len(d) = Len(ls) /\ \A k \in 1..Len(ls) : d[k] = ls[k].quantity
  BY <1>2, LotsQuantified, QuantitiesAreInts
<1>4. PICK rho : IsRunning(rho, d)
  BY <1>3, RunningExists
<1>5. SumQuantities(ls) = rho[Len(ls)]
  BY <1>2, <1>3, <1>4, TotalIs DEF SumQuantities
<1>6. /\ rho[0] = 0 /\ \A k \in 0..Len(ls) : rho[k] \in Int
      /\ \A k \in 1..Len(ls) : rho[k] = rho[k - 1] + ls[k].quantity
  BY <1>3, <1>4, RunningFacts
<1>7. Len(ls) \in Nat /\ \A k \in 1..Len(ls) : ls[k] \in OpenLots
  OBVIOUS
<1>8. \A k \in 0..Len(ls) : /\ f[k].open \in Seq(OpenLots) /\ f[k].due \in Int
                            /\ f[k].taken \in Seq(OpenLots)
                            /\ SumQuantities(f[k].open) \in Int /\ SumQuantities(f[k].taken) \in Int
  <2> TAKE k \in 0..Len(ls)
  <2>1. f[k].open \in Seq(OpenLots) /\ f[k].due \in Int /\ f[k].taken \in Seq(OpenLots)
    BY <1>1 DEF Runs
  <2> QED BY <2>1, LotsQuantified, QuantitiesAreInts
<1> DEFINE Good(k) ==
             /\ SumQuantities(f[k].open) = rho[k] + SumQuantities(f[k].taken)
             /\ f[k].due = due - SumQuantities(f[k].taken)
             /\ f[k].due = 0 \/ Sign(f[k].due) = Sign(due)
             /\ \A j \in 1..Len(f[k].taken) : due # 0 /\ Sign(f[k].taken[j].quantity) = Sign(due)
           S == { k \in 0..Len(ls) : Good(k) }
<1>9. 0 \in S
  <2>1. f[0].open = << >> /\ f[0].due = due /\ f[0].taken = << >>
    BY <1>1
  <2>2. SumQuantities(f[0].open) = 0 /\ SumQuantities(f[0].taken) = 0
    BY <2>1, SumOfNothing
  <2>3. Good(0)
    BY <1>6, <2>1, <2>2
  <2> QED BY <1>7, <2>3
<1>10. ASSUME NEW k \in 1..Len(ls), k - 1 \in S PROVE k \in S
  <2>1. k - 1 \in 0..Len(ls) /\ k \in 0..Len(ls)
    BY <1>7
  <2>2. CloseStep(f[k - 1], ls[k], f[k])
    BY <1>1, <1>7, <2>1, CloseLotSteps
  <2>3. Good(k - 1)
    BY <1>10
  <2>4. PICK p, q : p = f[k - 1] /\ q = f[k]
    OBVIOUS
  <2>5. /\ p.due \in Int /\ q.due \in Int /\ p.taken \in Seq(OpenLots)
        /\ SumQuantities(p.open) \in Int /\ SumQuantities(p.taken) \in Int
        /\ SumQuantities(q.open) \in Int /\ SumQuantities(q.taken) \in Int
        /\ rho[k] = rho[k - 1] + ls[k].quantity /\ rho[k] \in Int /\ rho[k - 1] \in Int
        /\ ls[k].quantity \in Int
    BY <1>6, <1>7, <1>8, <2>1, <2>4 DEF OpenLots
  <2>6. /\ SumQuantities(p.open) = rho[k - 1] + SumQuantities(p.taken)
        /\ p.due = due - SumQuantities(p.taken)
        /\ p.due = 0 \/ Sign(p.due) = Sign(due)
        /\ \A j \in 1..Len(p.taken) : due # 0 /\ Sign(p.taken[j].quantity) = Sign(due)
    BY <2>3, <2>4
  <2>7. CloseStep(p, ls[k], q)
    BY <2>2, <2>4
  <2>8. SumQuantities(q.open) = rho[k] + SumQuantities(q.taken)
    <3>1. SumQuantities(q.open) - SumQuantities(q.taken)
            = SumQuantities(p.open) - SumQuantities(p.taken) + ls[k].quantity
      BY <2>7 DEF CloseStep
    <3>2. SumQuantities(p.open) = rho[k - 1] + SumQuantities(p.taken)
      BY <2>6
    <3>3. PICK a, b, c1, d1, r, l : /\ a = SumQuantities(q.open) /\ b = SumQuantities(q.taken)
                                  /\ c1 = SumQuantities(p.open) /\ d1 = SumQuantities(p.taken)
                                  /\ r = rho[k - 1] /\ l = ls[k].quantity
      OBVIOUS
    <3>4. /\ a \in Int /\ b \in Int /\ c1 \in Int /\ d1 \in Int /\ r \in Int /\ l \in Int
          /\ rho[k] = r + l
      BY <2>5, <3>3
    <3>5. a - b = c1 - d1 + l /\ c1 = r + d1
      BY ONLY <3>1, <3>2, <3>3
    <3>6. a = (r + l) + b
      BY ONLY <3>4, <3>5
    <3> QED BY ONLY <3>3, <3>4, <3>6
  <2>9. q.due = due - SumQuantities(q.taken)
    <3>1. q.due + SumQuantities(q.taken) = p.due + SumQuantities(p.taken)
      BY <2>7 DEF CloseStep
    <3>2. p.due = due - SumQuantities(p.taken)
      BY <2>6
    <3>3. PICK a, b, c1, d1 : /\ a = q.due /\ b = SumQuantities(q.taken)
                            /\ c1 = p.due /\ d1 = SumQuantities(p.taken)
      OBVIOUS
    <3>4. a \in Int /\ b \in Int /\ c1 \in Int /\ d1 \in Int
      BY <2>5, <3>3
    <3>5. a + b = c1 + d1 /\ c1 = due - d1
      BY ONLY <3>1, <3>2, <3>3
    <3>6. a = due - b
      BY ONLY <3>4, <3>5, due \in Int
    <3> QED BY ONLY <3>3, <3>6
  <2>10. q.due = 0 \/ Sign(q.due) = Sign(due)
    <3>1. CASE p.due = 0
      <4>1. q.due + SumQuantities(q.taken) = p.due + SumQuantities(p.taken)
        BY <2>7 DEF CloseStep
      <4>2. q.taken = p.taken
        BY <2>7, <3>1 DEF CloseStep
      <4> QED BY <2>5, <3>1, <4>1, <4>2, SMTT(40)
    <3>2. CASE p.due # 0
      BY <2>6, <2>7, <3>2 DEF CloseStep
    <3> QED BY <3>1, <3>2
  <2>11. \A j \in 1..Len(q.taken) : due # 0 /\ Sign(q.taken[j].quantity) = Sign(due)
    <3>1. CASE q.taken = p.taken
      BY <2>6, <3>1
    <3>2. CASE q.taken # p.taken
      <4>1. PICK x \in OpenLots : /\ q.taken = Append(p.taken, x)
                                 /\ p.due # 0 /\ Sign(x.quantity) = Sign(p.due)
        BY <2>7, <3>2 DEF CloseStep
      <4>2. due # 0 /\ Sign(p.due) = Sign(due)
        <5>1. Sign(p.due) = Sign(due)
          BY <2>6, <4>1
        <5>2. CASE Len(p.taken) = 0
          <6>1. p.taken = << >>
            BY <2>5, <5>2
          <6>2. SumQuantities(p.taken) = 0
            BY <6>1, SumOfNothing
          <6> QED BY <2>6, <4>1, <5>1, <6>2
        <5>3. CASE Len(p.taken) # 0
          <6>1. 1 \in 1..Len(p.taken)
            BY <2>5, <5>3
          <6> QED BY <2>6, <5>1, <6>1
        <5> QED BY <5>2, <5>3
      <4>3. /\ Len(q.taken) = Len(p.taken) + 1 /\ q.taken[Len(p.taken) + 1] = x /\ Len(p.taken) \in Nat
            /\ \A j \in 1..Len(p.taken) : q.taken[j] = p.taken[j]
        <5>1. PICK old \in Seq(OpenLots) : old = p.taken
          BY <2>5
        <5>2. q.taken = Append(old, x)
          BY <4>1, <5>1
        <5> QED BY ONLY <5>1, <5>2, x \in OpenLots
      <4> QED BY <2>6, <4>1, <4>2, <4>3
    <3> QED BY <3>1, <3>2
  <2>12. Good(k)
    BY <2>4, <2>8, <2>9, <2>10, <2>11
  <2> QED BY <2>1, <2>12
<1>11. Len(ls) \in S
  <2>1. Len(ls) \in 0..Len(ls)
    BY <1>7
  <2> HIDE DEF S
  <2> QED BY <1>7, <1>9, <1>10, <2>1, Upward
<1>12. Good(Len(ls))
  <2> HIDE DEF Good
  <2> QED BY <1>11
<1> QED BY <1>1, <1>5, <1>12

-----------------------------------------------------------------------------
(* The parts of a closing activity. *)
PartRecords == [id : LotNames, campaign : Owners, quantity : Nat \ {0}]

LEMMA PartsQuantified == Quantified(PartRecords)
BY DEF Quantified, PartRecords

LEMMA PartsOfTaken ==
  ASSUME NEW taken \in Seq(OpenLots), NEW due \in Int, NEW unit \in Nat \ {0},
         \A j \in 1..Len(taken) : Sign(taken[j].quantity) = Sign(due)
  PROVE  /\ Parts(taken, unit) \in Seq(PartRecords) /\ Len(Parts(taken, unit)) = Len(taken)
         /\ SumQuantities(Parts(taken, unit)) = SumQuantities(taken) * (Sign(due) * unit)
<1>1. Len(taken) \in Nat /\ DOMAIN taken = 1..Len(taken)
      /\ \A j \in 1..Len(taken) : taken[j] \in OpenLots
  OBVIOUS
<1>2. \A j \in 1..Len(taken) : /\ taken[j].id \in LotNames /\ taken[j].campaign \in Owners
                               /\ taken[j].quantity \in Int \ {0}
  BY <1>1 DEF OpenLots
<1>3. PICK parts : parts = Parts(taken, unit)
  OBVIOUS
<1>4. parts = [k \in 1..Len(taken) |-> [id |-> taken[k].id, campaign |-> taken[k].campaign,
                                       quantity |-> Magnitude(taken[k].quantity) * unit]]
  BY <1>1, <1>3 DEF Parts
<1>5. ASSUME NEW k \in 1..Len(taken)
      PROVE  /\ parts[k] \in PartRecords
             /\ parts[k].quantity = taken[k].quantity * (Sign(due) * unit)
  <2>1. PICK q : q = taken[k].quantity
    OBVIOUS
  <2>2. q \in Int \ {0} /\ Sign(q) = Sign(due)
    BY <1>2, <2>1
  <2>3. Magnitude(q) \in Nat \ {0} /\ Magnitude(q) * unit = q * (Sign(due) * unit)
    <3>1. CASE q > 0
      <4>1. Sign(q) = 1 /\ Magnitude(q) = q
        BY <2>2, <3>1 DEF Sign, Magnitude
      <4> QED BY <2>2, <3>1, <4>1
    <3>2. CASE ~(q > 0)
      <4>1. Sign(q) = -1 /\ Magnitude(q) = -q
        BY <2>2, <3>2 DEF Sign, Magnitude
      <4>2. (-q) * unit = q * ((-1) * unit)
        BY <2>2
      <4> QED BY <2>2, <3>2, <4>1, <4>2
    <3> QED BY <3>1, <3>2
  <2>4. Magnitude(q) * unit \in Nat \ {0}
    BY <2>3, ProductPositive
  <2>5. parts[k] = [id |-> taken[k].id, campaign |-> taken[k].campaign,
                    quantity |-> Magnitude(q) * unit]
    BY <1>4, <2>1
  <2>6. parts[k] \in PartRecords
    BY <1>2, <2>4, <2>5 DEF PartRecords
  <2>7. parts[k].quantity = Magnitude(q) * unit
    BY <2>5
  <2> QED BY <2>1, <2>3, <2>6, <2>7
<1>6. parts \in Seq(PartRecords) /\ Len(parts) = Len(taken)
  <2>1. parts \in [1..Len(taken) -> PartRecords]
    BY <1>4, <1>5
  <2> QED BY <1>1, <2>1
<1>7. PICK d, e, r : /\ d = QuantitiesOf(taken) /\ e = QuantitiesOf(parts)
                     /\ r = Sign(due) * unit
  OBVIOUS
<1>8. /\ d \in Seq(Int) /\ Len(d) = Len(taken)
      /\ \A k \in 1..Len(taken) : d[k] = taken[k].quantity
  BY <1>7, LotsQuantified, QuantitiesAreInts
<1>9. /\ e \in Seq(Int) /\ Len(e) = Len(taken)
      /\ \A k \in 1..Len(taken) : e[k] = parts[k].quantity
  BY <1>6, <1>7, PartsQuantified, QuantitiesAreInts
<1>10. r \in Int
  BY <1>7 DEF Sign
<1>11. \A k \in 1..Len(d) : e[k] = d[k] * r
  BY <1>5, <1>7, <1>8, <1>9
<1>12. Total(e) = Total(d) * r
  BY ONLY <1>8, <1>9, <1>10, <1>11, TotalScaled
<1> QED BY <1>3, <1>6, <1>7, <1>12 DEF SumQuantities

\* A close takes no more than it is to close.
LEMMA ClosedParts ==
  ASSUME NEW ls \in Seq(OpenLots), NEW due \in Int, NEW c \in Owners, NEW unit \in Nat \ {0}
  PROVE  /\ Parts(CloseRun(ls, due, c).taken, unit) \in Seq(PartRecords)
         /\ SumQuantities(Parts(CloseRun(ls, due, c).taken, unit)) <= Magnitude(due) * unit
<1>1. PICK run : run = CloseRun(ls, due, c)
  OBVIOUS
<1>2. run.due \in Int /\ run.taken \in Seq(OpenLots)
  BY <1>1, CloseRunTypes
<1>3. /\ run.due = due - SumQuantities(run.taken)
      /\ run.due = 0 \/ Sign(run.due) = Sign(due)
      /\ \A j \in 1..Len(run.taken) : Sign(run.taken[j].quantity) = Sign(due)
  BY <1>1, CloseRunSums
<1>4. /\ Parts(run.taken, unit) \in Seq(PartRecords)
      /\ SumQuantities(Parts(run.taken, unit)) = SumQuantities(run.taken) * (Sign(due) * unit)
  BY <1>2, <1>3, PartsOfTaken
<1>5. PICK t : t = SumQuantities(run.taken)
  OBVIOUS
<1>6. t \in Int
  BY <1>2, <1>5, LotsQuantified, QuantitiesAreInts
<1>7. t * (Sign(due) * unit) <= Magnitude(due) * unit
  <2>1. CASE due > 0
    <3>1. t <= due
      <4>1. run.due >= 0
        BY <1>2, <1>3, <2>1 DEF Sign
      <4> QED BY <1>2, <1>3, <1>5, <1>6, <4>1
    <3>2. Sign(due) = 1 /\ Magnitude(due) = due
      BY <2>1 DEF Sign, Magnitude
    <3>3. t * unit <= due * unit
      BY <1>6, <3>1, ProductOrdered
    <3> QED BY <3>2, <3>3
  <2>2. CASE ~(due > 0)
    <3>1. -t <= -due
      <4>1. run.due <= 0
        BY <1>2, <1>3, <2>2 DEF Sign
      <4> QED BY <1>2, <1>3, <1>5, <1>6, <4>1
    <3>2. Sign(due) = -1 /\ Magnitude(due) = -due
      BY <2>2 DEF Sign, Magnitude
    <3>3. (-t) * unit <= (-due) * unit
      BY <1>6, <3>1, ProductOrdered
    <3>4. (-t) * unit = t * ((-1) * unit)
      BY <1>6
    <3> QED BY <3>2, <3>3, <3>4
  <2> QED BY <2>1, <2>2
<1> QED BY <1>1, <1>4, <1>5, <1>7

-----------------------------------------------------------------------------
(* The assignments that trades of the month may settle. *)
LEMMA InputTypes ==
  ASSUME input \in Inputs
  PROVE  /\ input.lots \in [Instruments -> Seq(OpenLots)] /\ input.nextId \in Nat
         /\ input.trades \in Seq(TradeRecords)
         /\ input.events \in Seq(EventRecords) /\ input.boundary \in Seq(EventRecords)
         /\ \A k \in DOMAIN input.trades : MonthCampaign(k) \in Campaigns
BY EvidenceAssumption

FirstOpen(day, off) ==
  Min({ d \in day + 1 .. day + 7 + Cardinality(off) : d % 7 < 5 /\ d \notin off })

Days == Nat \cup { FirstOpen(day, off) : day \in Nat, off \in {Holidays, Holidays \cup BankHolidays} }

LEMMA DayTypes == ASSUME NEW time \in Nat PROVE Day(time) \in Nat
BY EvidenceAssumption DEF Day

LEMMA NextDayTypes == ASSUME NEW day \in Nat PROVE NextBusinessDay(day) \in Days
<1>1. PICK off : off = Deferred
  OBVIOUS
<1>2. off \in {Holidays, Holidays \cup BankHolidays}
  BY <1>1 DEF Deferred
<1>3. NextBusinessDay(day) = FirstOpen(day, off)
  BY <1>1 DEF NextBusinessDay, FirstOpen
<1> QED BY <1>2, <1>3 DEF Days

ClosureRecs == [event : Nat, underlying : Equities, strike : Nat, day : Nat, remaining : Nat,
                moves : BOOLEAN]

LEMMA ClosuresTypes ==
  ASSUME NEW events \in Seq(EventRecords)
  PROVE  ClosuresOf(events) \in Seq(ClosureRecs)
<1> DEFINE Found(n, k) ==
             LET e == events[n]
                 option == e.changes[k].instrument
             IN IF e.kind # "ASSIGNMENT" \/ option \notin Options THEN << >>
                ELSE << [event |-> n, underlying |-> Underlying[option], strike |-> Strike[option],
                         day |-> Day(e.time),
                         remaining |-> Magnitude(e.changes[k].quantity) * PerContract,
                         moves |-> \E c \in ToSet(e.changes) :
                                     c.instrument = Underlying[option] /\ c.quantity # 0] >>
           Row(n) == [k \in DOMAIN events[n].changes |-> Found(n, k)]
           Rows == [n \in DOMAIN events |-> FlattenSeq(Row(n))]
<1>1. DOMAIN events = 1..Len(events) /\ Len(events) \in Nat
      /\ \A n \in 1..Len(events) : events[n] \in EventRecords
  OBVIOUS
<1>2. ASSUME NEW n \in 1..Len(events) PROVE FlattenSeq(Row(n)) \in Seq(ClosureRecs)
  <2>1. PICK e : e = events[n]
    OBVIOUS
  <2>2. /\ e.time \in Nat /\ e.changes \in Seq(ChangeRecords)
    BY <1>1, <2>1 DEF EventRecords
  <2>3. ASSUME NEW k \in DOMAIN e.changes PROVE Found(n, k) \in Seq(ClosureRecs)
    <3>1. PICK o, q : o = e.changes[k].instrument /\ q = e.changes[k].quantity
      OBVIOUS
    <3>2. q \in Int
      <4>1. e.changes[k] \in ChangeRecords
        BY <2>2, <2>3
      <4> QED BY <3>1, <4>1 DEF ChangeRecords
    <3>3. CASE e.kind # "ASSIGNMENT" \/ o \notin Options
      <4>1. Found(n, k) = << >>
        BY <2>1, <3>1, <3>3
      <4> QED BY <4>1
    <3>4. CASE ~(e.kind # "ASSIGNMENT" \/ o \notin Options)
      <4>1. PICK rec : rec = [event |-> n, underlying |-> Underlying[o], strike |-> Strike[o],
                day |-> Day(e.time), remaining |-> Magnitude(q) * PerContract,
                moves |-> \E c \in ToSet(e.changes) :
                            c.instrument = Underlying[o] /\ c.quantity # 0]
        OBVIOUS
      <4>2. Found(n, k) = << rec >>
        BY <2>1, <3>1, <3>4, <4>1
      <4>3. /\ Underlying[o] \in Equities /\ Strike[o] \in Nat /\ Day(e.time) \in Nat
            /\ Magnitude(q) * PerContract \in Nat
        <5>1. Underlying[o] \in Equities /\ Strike[o] \in Nat
          BY <3>4, InstrumentAssumption, TradeAssumption
        <5>2. Day(e.time) \in Nat
          BY <2>2, DayTypes
        <5>3. Magnitude(q) \in Nat /\ PerContract \in Nat
          BY <3>2, TradeAssumption DEF Magnitude
        <5>4. \A x, y \in Nat : x * y \in Nat
          OBVIOUS
        <5> QED BY <5>1, <5>2, <5>3, <5>4
      <4>4. rec \in ClosureRecs
        BY <1>1, <4>1, <4>3 DEF ClosureRecs
      <4> HIDE DEF Found
      <4> QED BY <4>2, <4>4
    <3> HIDE DEF Found
    <3> QED BY <3>3, <3>4
  <2>4. Row(n) \in Seq(Seq(ClosureRecs))
    <3>1. DOMAIN e.changes = 1..Len(e.changes) /\ Len(e.changes) \in Nat
      BY <2>2
    <3>2. Row(n) \in [1..Len(e.changes) -> Seq(ClosureRecs)]
      <4> HIDE DEF Found
      <4> QED BY <2>1, <2>3, <3>1
    <3> HIDE DEF Row
    <3> QED BY <3>1, <3>2
  <2> HIDE DEF Row
  <2> QED BY <2>4, FlattenedMembers
<1>3. Rows \in Seq(Seq(ClosureRecs))
  <2> HIDE DEF Row
  <2>1. Rows \in [1..Len(events) -> Seq(ClosureRecs)]
    BY <1>1, <1>2
  <2> HIDE DEF Rows
  <2> QED BY <1>1, <2>1
<1>4. ClosuresOf(events) = FlattenSeq(Rows)
  BY DEF ClosuresOf
<1> HIDE DEF Rows
<1> QED BY <1>3, <1>4, FlattenedMembers

LEMMA LatestTypes ==
  ASSUME NEW pending \in Seq(ClosureRecs), NEW leg, NEW day, Settled(leg, day, pending) # {}
  PROVE  LatestSettled(leg, day, pending) \in Settled(leg, day, pending)
<1>1. PICK found : found = Settled(leg, day, pending)
  OBVIOUS
<1>2. /\ DOMAIN pending = 1..Len(pending) /\ Len(pending) \in Nat
      /\ \A k \in 1..Len(pending) : pending[k] \in ClosureRecs
  OBVIOUS
<1>3. found \in SUBSET (1..Len(pending)) /\ found # {}
  BY <1>1, <1>2 DEF Settled
<1>4. PICK f : f = [k \in 1..Len(pending) |-> pending[k].day]
  OBVIOUS
<1>5. \A k \in 1..Len(pending) : f[k] = pending[k].day /\ f[k] \in Nat
  BY <1>2, <1>4 DEF ClosureRecs
<1>6. PICK k \in found : \A j \in found : f[j] <= f[k]
  BY <1>2, <1>3, <1>5, MostExists
<1>7. PICK latest : latest = { n \in found : \A j \in found : pending[j].day <= pending[n].day }
  OBVIOUS
<1>8. k \in latest /\ latest \in SUBSET Nat
  <2>1. \A j \in found : f[j] = pending[j].day
    BY <1>3, <1>5
  <2>2. \A j \in found : pending[j].day <= pending[k].day
    BY <1>6, <2>1
  <2>3. found \subseteq Nat
    BY <1>3
  <2> QED BY <1>6, <1>7, <2>2, <2>3
<1>9. Min(latest) \in latest
  BY <1>8, MinIsLeast
<1>10. LatestSettled(leg, day, pending) = Min(latest)
  BY <1>1, <1>7 DEF LatestSettled
<1> QED BY <1>1, <1>7, <1>9, <1>10

LEMMA ClosedDayTypes ==
  ASSUME NEW pending \in Seq(ClosureRecs), NEW leg, NEW day \in Nat
  PROVE  ClosedDay(leg, day, pending) \in Days
<1>1. CASE Settled(leg, day, pending) # {}
  <2>1. LatestSettled(leg, day, pending) \in DOMAIN pending
    BY <1>1, LatestTypes DEF Settled
  <2>2. pending[LatestSettled(leg, day, pending)] \in ClosureRecs
    BY <2>1
  <2> QED BY <1>1, <2>2 DEF ClosedDay, ClosureRecs, Days
<1>2. CASE Settled(leg, day, pending) = {}
  <2>1. ClosedDay(leg, day, pending) = IF leg.instrument \in Options THEN NextBusinessDay(day) ELSE day
    BY <1>2 DEF ClosedDay
  <2>2. day \in Days
    BY DEF Days
  <2> QED BY <2>1, <2>2, NextDayTypes
<1> QED BY <1>1, <1>2

LEMMA AfterLegTypes ==
  ASSUME NEW pending \in Seq(ClosureRecs), NEW leg \in LegRecords, NEW day \in Nat
  PROVE  AfterLeg(leg, day, pending) \in Seq(ClosureRecs)
<1>1. CASE Settled(leg, day, pending) = {}
  BY <1>1 DEF AfterLeg
<1>2. CASE Settled(leg, day, pending) # {}
  <2>1. PICK k : k = LatestSettled(leg, day, pending)
    OBVIOUS
  <2>2. k \in DOMAIN pending
    BY <1>2, <2>1, LatestTypes DEF Settled
  <2>3. pending[k] \in ClosureRecs
    BY <2>2
  <2>4. PICK left : left = pending[k].remaining - Smaller(leg.quantity, pending[k].remaining)
    OBVIOUS
  <2>5. left \in Nat
    <3>1. pending[k].remaining \in Nat /\ leg.quantity \in Nat
      BY <2>3 DEF ClosureRecs, LegRecords
    <3> QED BY <2>4, <3>1 DEF Smaller
  <2>6. PICK rec : rec = [pending[k] EXCEPT !.remaining = left]
    OBVIOUS
  <2>7. rec \in ClosureRecs
    BY <2>3, <2>5, <2>6 DEF ClosureRecs
  <2>8. AfterLeg(leg, day, pending) = [pending EXCEPT ![k] = rec]
    BY <1>2, <2>1, <2>4, <2>6 DEF AfterLeg
  <2>9. [pending EXCEPT ![k] = rec] \in Seq(ClosureRecs)
    BY <2>2, <2>7
  <2> QED BY <2>8, <2>9
<1> QED BY <1>1, <1>2

LEMMA ReservedLoop ==
  ASSUME NEW pending \in Seq(ClosureRecs), NEW trade \in TradeRecords
  PROVE  \E f \in [0..Len(trade.legs) -> Seq(ClosureRecs)] :
           /\ f[0] = pending
           /\ \A k \in 1..Len(trade.legs) : f[k] = AfterLeg(trade.legs[k], Day(trade.time), f[k - 1])
           /\ Reserved(pending, trade) = f[Len(trade.legs)]
<1> DEFINE n == Len(trade.legs)
           base == pending
           next == [kr \in (1..n) \X Seq(ClosureRecs) |-> AfterLeg(trade.legs[kr[1]], Day(trade.time), kr[2])]
           Solves(g) == g = [k \in 0..n |-> IF k = 0 THEN base ELSE AfterLeg(trade.legs[k], Day(trade.time), g[k - 1])]
           run == CHOOSE g : Solves(g)
<1>1. n \in Nat /\ base \in Seq(ClosureRecs)
  BY DEF TradeRecords
<1>2. ASSUME NEW k \in 1..n, NEW r \in Seq(ClosureRecs) PROVE AfterLeg(trade.legs[k], Day(trade.time), r) \in Seq(ClosureRecs)
  <2>1. trade.legs[k] \in LegRecords /\ Day(trade.time) \in Nat
    BY <1>1, <1>2, DayTypes, SMTT(40) DEF TradeRecords
  <2> QED BY <1>2, <2>1, AfterLegTypes
<1>3. next \in [(1..n) \X Seq(ClosureRecs) -> Seq(ClosureRecs)]
  BY <1>2
<1>4. PICK f : IsLoop(f, n, Seq(ClosureRecs), base, next)
  <2> HIDE DEF n, base, next
  <2> QED BY <1>1, <1>3, LoopExists
<1>5. /\ f \in [0..n -> Seq(ClosureRecs)] /\ f[0] = base
      /\ \A k \in 1..n : f[k] = AfterLeg(trade.legs[k], Day(trade.time), f[k - 1])
  BY <1>4 DEF IsLoop
<1>6. Solves(f)
  BY <1>5
<1>7. Solves(run)
  <2> HIDE DEF Solves
  <2> QED BY <1>6
<1>8. Reserved(pending, trade) = run[n]
  BY DEF Reserved
<1>9. run[n] = f[n]
  <2> HIDE DEF run, n
  <2>1. 0 \in 0..n /\ \A k \in 1..n : k \in 0..n /\ k # 0
    BY <1>1
  <2>2. run[0] = base /\ \A k \in 1..n : run[k] = AfterLeg(trade.legs[k], Day(trade.time), run[k - 1])
    BY <1>7, <2>1
  <2>3. Follows(run, n, Seq(ClosureRecs), base, next)
    BY <2>2 DEF Follows
  <2> HIDE DEF base, next
  <2> QED BY <1>1, <1>4, <2>3, LoopIsOnly
<1> HIDE DEF run
<1> QED BY <1>5, <1>8, <1>9

LEMMA ReservedTypes ==
  ASSUME NEW pending \in Seq(ClosureRecs), NEW trade \in TradeRecords
  PROVE  Reserved(pending, trade) \in Seq(ClosureRecs)
<1>1. PICK f \in [0..Len(trade.legs) -> Seq(ClosureRecs)] : Reserved(pending, trade) = f[Len(trade.legs)]
  BY ReservedLoop
<1>2. Len(trade.legs) \in 0..Len(trade.legs)
  BY DEF TradeRecords
<1> QED BY <1>1, <1>2

\* The month's trades, campaign by campaign.
LEMMA MonthTrades ==
  ASSUME input \in Inputs
  PROVE  /\ MonthCampaigns \in Seq(Seq(TradeRecords))
         /\ FlattenSeq(MonthCampaigns) \in Seq(TradeRecords)
         /\ \A trade \in Members(MonthCampaigns) : CampaignOf(trade) \in Campaigns
         /\ ToSet(FlattenSeq(MonthCampaigns)) \subseteq Members(MonthCampaigns)
         /\ ToSet(input.trades) \subseteq Members(MonthCampaigns)
<1>1. PICK months : months = MonthCampaigns
  OBVIOUS
<1>2. /\ months \in Seq(Seq(TradeRecords)) /\ Len(months) <= Len(input.trades)
      /\ ToSet(input.trades) \subseteq Members(months)
  BY <1>1, InputTypes, ReconstructMembers DEF MonthCampaigns
<1>3. /\ FlattenSeq(months) \in Seq(TradeRecords)
      /\ \A x \in ToSet(FlattenSeq(months)) : \E k \in DOMAIN months : x \in ToSet(months[k])
  BY <1>2, FlattenedMembers
<1>4. ToSet(FlattenSeq(months)) \subseteq Members(months)
  BY <1>3 DEF Members
<1>5. ASSUME NEW trade \in Members(months) PROVE CampaignOf(trade) \in Campaigns
  <2>1. \E k \in DOMAIN months : trade \in ToSet(months[k])
    BY <1>5 DEF Members
  <2>2. PICK k : k = CHOOSE j \in DOMAIN months : trade \in ToSet(months[j])
    OBVIOUS
  <2>3. k \in DOMAIN months
    BY <2>1, <2>2
  <2>4. k \in DOMAIN input.trades
    <3>1. DOMAIN months = 1..Len(months) /\ Len(months) \in Nat
      BY <1>2
    <3>2. DOMAIN input.trades = 1..Len(input.trades) /\ Len(input.trades) \in Nat
      BY InputTypes
    <3> QED BY <1>2, <2>3, <3>1, <3>2
  <2>5. CampaignOf(trade) = MonthCampaign(k)
    BY <1>1, <2>2 DEF CampaignOf
  <2> QED BY <2>4, <2>5, InputTypes
<1> QED BY <1>1, <1>2, <1>3, <1>4, <1>5

LEMMA PlannedLoop ==
  ASSUME input \in Inputs, NEW sorted \in Seq(TradeRecords),
         sorted = Timeline(FlattenSeq(MonthCampaigns), << >>)
  PROVE  \E f \in [0..Len(sorted) -> Seq(ClosureRecs)] :
           /\ f[0] = ClosuresOf(AttributedEvents)
           /\ \A k \in 1..Len(sorted) : f[k] = Reserved(f[k - 1], sorted[k])
           /\ Planned = f[Len(sorted)]
<1> DEFINE n == Len(sorted)
           base == ClosuresOf(AttributedEvents)
           next == [kr \in (1..n) \X Seq(ClosureRecs) |-> Reserved(kr[2], sorted[kr[1]])]
           Solves(g) == g = [k \in 0..n |-> IF k = 0 THEN base ELSE Reserved(g[k - 1], sorted[k])]
           run == CHOOSE g : Solves(g)
<1>1. n \in Nat /\ base \in Seq(ClosureRecs)
  <2>1. AttributedEvents \in Seq(EventRecords)
    BY InputTypes DEF AttributedEvents
  <2> QED BY <2>1, ClosuresTypes
<1>2. ASSUME NEW k \in 1..n, NEW r \in Seq(ClosureRecs) PROVE Reserved(r, sorted[k]) \in Seq(ClosureRecs)
  <2>1. sorted[k] \in TradeRecords
    BY <1>1, <1>2
  <2> QED BY <1>2, <2>1, ReservedTypes
<1>3. next \in [(1..n) \X Seq(ClosureRecs) -> Seq(ClosureRecs)]
  BY <1>2
<1>4. PICK f : IsLoop(f, n, Seq(ClosureRecs), base, next)
  <2> HIDE DEF n, base, next
  <2> QED BY <1>1, <1>3, LoopExists
<1>5. /\ f \in [0..n -> Seq(ClosureRecs)] /\ f[0] = base
      /\ \A k \in 1..n : f[k] = Reserved(f[k - 1], sorted[k])
  BY <1>4 DEF IsLoop
<1>6. Solves(f)
  BY <1>5
<1>7. Solves(run)
  <2> HIDE DEF Solves
  <2> QED BY <1>6
<1>8. Planned = run[n]
  BY DEF Planned
<1>9. run[n] = f[n]
  <2> HIDE DEF run, n
  <2>1. 0 \in 0..n /\ \A k \in 1..n : k \in 0..n /\ k # 0
    BY <1>1
  <2>2. run[0] = base /\ \A k \in 1..n : run[k] = Reserved(run[k - 1], sorted[k])
    BY <1>7, <2>1
  <2>3. Follows(run, n, Seq(ClosureRecs), base, next)
    BY <2>2 DEF Follows
  <2> HIDE DEF base, next
  <2> QED BY <1>1, <1>4, <2>3, LoopIsOnly
<1> HIDE DEF run
<1> QED BY <1>5, <1>8, <1>9

LEMMA PlannedTypes == ASSUME input \in Inputs PROVE Planned \in Seq(ClosureRecs)
<1>1. PICK sorted : sorted = Timeline(FlattenSeq(MonthCampaigns), << >>)
  OBVIOUS
<1>2. \A x \in TradeRecords : x.time \in Nat
  BY DEF TradeRecords
<1>3. FlattenSeq(MonthCampaigns) \in Seq(TradeRecords) /\ << >> \in Seq(TradeRecords)
  BY MonthTrades
<1>4. sorted \in Seq(TradeRecords)
  BY <1>1, <1>2, <1>3, TimelineItems
<1>5. PICK f \in [0..Len(sorted) -> Seq(ClosureRecs)] : Planned = f[Len(sorted)]
  BY <1>1, <1>4, PlannedLoop
<1>6. Len(sorted) \in 0..Len(sorted)
  BY <1>4
<1> QED BY <1>5, <1>6

-----------------------------------------------------------------------------
(* The attributor: closing activity is well-formed, and its allocations    *)
(* never exceed its quantity.                                              *)
Closings ==
  { a \in [closed : Days, instrument : Instruments, quantity : Nat, parts : Seq(PartRecords),
           assigned : BOOLEAN, executed : Int] : SumQuantities(a.parts) <= a.quantity }

AttributeRuns == [book : Books, closures : Seq(ClosureRecs), found : Seq(Closings), owner : Owners]

LEMMA ActivityTypes ==
  ASSUME NEW closed \in Days, NEW i \in Instruments, NEW quantity \in Nat,
         NEW parts \in Seq(PartRecords), SumQuantities(parts) <= quantity,
         NEW assigned \in BOOLEAN, NEW executed \in Int
  PROVE  Activity(closed, i, quantity, parts, assigned, executed) \in Closings
BY DEF Activity, Closings

LEMMA LegTaken ==
  ASSUME NEW b \in Books, b.ok, NEW leg \in LegRecords, leg.effect = "CLOSE", NEW now, NEW c \in Owners
  PROVE  ApplyLeg([b EXCEPT !.taken = << >>], leg, now, c).taken
           = CloseRun(b.lots[leg.instrument], Executed(leg), c).taken
<1>1. PICK e : e = [b EXCEPT !.taken = << >>]
  OBVIOUS
<1>2. e.lots = b.lots /\ e.ok = b.ok /\ e.taken = << >>
  BY <1>1, TakenReset
<1>3. PICK run : run = CloseRun(b.lots[leg.instrument], Executed(leg), c)
  OBVIOUS
<1>4. run.taken \in Seq(OpenLots)
  BY <1>3, BookFields, ExecutedTypes, CloseRunTypes
<1>5. ApplyLeg(e, leg, now, c) =
        [lots |-> [e.lots EXCEPT ![leg.instrument] = run.open], nextId |-> e.nextId,
         ok |-> run.due = 0, taken |-> e.taken \o run.taken]
  BY <1>2, <1>3 DEF ApplyLeg
<1>6. << >> \o run.taken = run.taken
  BY <1>4
<1> QED BY <1>1, <1>2, <1>3, <1>5, <1>6

LEMMA ChangeTaken ==
  ASSUME NEW b \in Books, NEW change \in ChangeRecords, NEW now, NEW c
  PROVE  ApplyChange([b EXCEPT !.taken = << >>], change, now, c).taken
           = CloseRun(b.lots[change.instrument], change.quantity, NoCampaign).taken
<1>1. PICK e : e = [b EXCEPT !.taken = << >>]
  OBVIOUS
<1>2. e.lots = b.lots /\ e.ok = b.ok /\ e.taken = << >>
  BY <1>1, TakenReset
<1>3. PICK run : run = CloseRun(b.lots[change.instrument], change.quantity, NoCampaign)
  OBVIOUS
<1>4. run.taken \in Seq(OpenLots)
  <2>1. change.instrument \in Instruments /\ change.quantity \in Int /\ NoCampaign \in Owners
    BY DEF ChangeRecords, Owners
  <2> QED BY <1>3, <2>1, BookFields, CloseRunTypes
<1>5. PICK closed : closed = [lots |-> [e.lots EXCEPT ![change.instrument] = run.open],
                 nextId |-> e.nextId, ok |-> e.ok, taken |-> e.taken \o run.taken]
  OBVIOUS
<1>6. ApplyChange(e, change, now, c) =
        IF run.due = 0 THEN closed ELSE AppendNew(closed, change.instrument, run.due, now, c)
  BY <1>2, <1>3, <1>5 DEF ApplyChange
<1>7. << >> \o run.taken = run.taken
  BY <1>4
<1>8. closed.taken = run.taken
  BY <1>2, <1>5, <1>7
<1>9. AppendNew(closed, change.instrument, run.due, now, c).taken = closed.taken
  BY DEF AppendNew
<1> QED BY <1>1, <1>3, <1>6, <1>8, <1>9

LEMMA AttributedLegTypes ==
  ASSUME NEW r \in AttributeRuns, NEW trade \in TradeRecords, CampaignOf(trade) \in Owners,
         NEW leg \in LegRecords
  PROVE  AttributedLeg(r, trade, leg) \in AttributeRuns
<1>1. /\ r.book \in Books /\ r.closures \in Seq(ClosureRecs) /\ r.found \in Seq(Closings)
      /\ r.owner \in Owners /\ r.book.ok \in BOOLEAN
  BY BookFields DEF AttributeRuns
<1>2. PICK day, after : /\ day = Day(trade.time)
                        /\ after = ApplyLeg([r.book EXCEPT !.taken = << >>], leg, trade.time,
                                           CampaignOf(trade))
  OBVIOUS
<1>3. day \in Nat /\ trade.time \in Nat
  BY <1>2, DayTypes DEF TradeRecords
<1>4. after \in Books
  BY <1>1, <1>2, <1>3, TakenReset, ApplyLegTypes
<1>5. PICK closing : closing = Activity(ClosedDay(leg, day, r.closures), leg.instrument, leg.quantity,
                          Parts(after.taken, 1), Settled(leg, day, r.closures) # {}, day)
  OBVIOUS
<1>6. CASE ~r.book.ok
  BY <1>6 DEF AttributedLeg
<1>7. CASE r.book.ok /\ leg.effect # "CLOSE"
  <2>1. AttributedLeg(r, trade, leg) =
          [book |-> after, closures |-> r.closures, found |-> r.found, owner |-> r.owner]
    BY <1>2, <1>7 DEF AttributedLeg
  <2> QED BY <1>1, <1>4, <2>1 DEF AttributeRuns
<1>8. CASE r.book.ok /\ leg.effect = "CLOSE"
  <2>1. AttributedLeg(r, trade, leg) =
          [book |-> after, closures |-> AfterLeg(leg, day, r.closures),
           found |-> Append(r.found, closing), owner |-> r.owner]
    BY <1>2, <1>5, <1>8 DEF AttributedLeg
  <2>2. PICK ls : ls = r.book.lots[leg.instrument]
    OBVIOUS
  <2>3. /\ ls \in Seq(OpenLots) /\ leg.instrument \in Instruments /\ leg.quantity \in Nat
        /\ Executed(leg) \in Int /\ Magnitude(Executed(leg)) = leg.quantity
    BY <1>1, <2>2, BookFields, ExecutedTypes
  <2>4. after.taken = CloseRun(ls, Executed(leg), CampaignOf(trade)).taken
    BY <1>1, <1>2, <1>8, <2>2, LegTaken
  <2>5. /\ Parts(after.taken, 1) \in Seq(PartRecords)
        /\ SumQuantities(Parts(after.taken, 1)) <= leg.quantity * 1
    <3>1. CampaignOf(trade) \in Owners /\ 1 \in Nat \ {0}
      OBVIOUS
    <3>2. PICK q : q = Executed(leg)
      OBVIOUS
    <3>3. q \in Int /\ Magnitude(q) = leg.quantity /\ after.taken = CloseRun(ls, q, CampaignOf(trade)).taken
      BY <2>3, <2>4, <3>2
    <3>4. /\ Parts(CloseRun(ls, q, CampaignOf(trade)).taken, 1) \in Seq(PartRecords)
          /\ SumQuantities(Parts(CloseRun(ls, q, CampaignOf(trade)).taken, 1)) <= Magnitude(q) * 1
      BY ONLY <2>3, <3>1, <3>3, ClosedParts
    <3> QED BY ONLY <3>3, <3>4
  <2>6. ClosedDay(leg, day, r.closures) \in Days
    BY <1>1, <1>3, ClosedDayTypes
  <2>7. SumQuantities(Parts(after.taken, 1)) <= leg.quantity
    BY <2>3, <2>5
  <2>8. closing \in Closings
    <3>1. (Settled(leg, day, r.closures) # {}) \in BOOLEAN /\ day \in Int
      BY <1>3
    <3> QED BY <1>5, <2>3, <2>5, <2>6, <2>7, <3>1, ActivityTypes
  <2>9. Append(r.found, closing) \in Seq(Closings)
    BY <1>1, <2>8
  <2>10. AfterLeg(leg, day, r.closures) \in Seq(ClosureRecs)
    BY <1>1, <1>3, AfterLegTypes
  <2> QED BY <1>1, <1>4, <2>1, <2>9, <2>10 DEF AttributeRuns
<1> QED BY <1>1, <1>6, <1>7, <1>8, ExecutedTypes

LEMMA UnitsTypes ==
  ASSUME NEW pending \in Seq(ClosureRecs), NEW event, NEW change \in ChangeRecords
  PROVE  Units(event, change, pending) \in Int
<1>1. PICK open : open = Undelivered(pending, event, change.instrument)
  OBVIOUS
<1>2. PICK f : f = [k \in open |-> pending[k].remaining]
  OBVIOUS
<1>3. open \subseteq 1..Len(pending) /\ Len(pending) \in Nat
  BY <1>1 DEF Undelivered
<1>4. IsFiniteSet(open)
  <2>1. IsFiniteSet(1..Len(pending))
    BY <1>3, FS_Interval
  <2> QED BY <1>3, <2>1, FS_Subset
<1>5. DOMAIN f = open /\ f \in [open -> Int]
  <2>1. \A k \in open : pending[k].remaining \in Int
    <3>1. \A k \in 1..Len(pending) : pending[k] \in ClosureRecs
      OBVIOUS
    <3> QED BY <1>3, <3>1, SMTT(40) DEF ClosureRecs
  <2> QED BY <1>2, <2>1
<1>6. SumFunction(f) \in Int
  BY <1>4, <1>5, SumOverInt
<1>7. change.quantity \in Int
  BY DEF ChangeRecords
<1>8. PICK left : left = SumFunction(f)
  OBVIOUS
<1>9. Units(event, change, pending) =
        IF event.kind = "ASSIGNMENT" /\ change.quantity < 0
        THEN IF open = {} THEN change.quantity ELSE -Smaller(-change.quantity, left)
        ELSE IF /\ ClosedByTrade(change.instrument)
                /\ \/ input.variant = "month"
                   \/ event.kind # "EXPIRATION" /\ change.quantity < 0
        THEN 0 ELSE change.quantity
  BY <1>1, <1>2, <1>8 DEF Units
<1>10. -Smaller(-change.quantity, left) \in Int
  BY <1>6, <1>7, <1>8 DEF Smaller
<1> QED BY <1>7, <1>9, <1>10

LEMMA AssignedOptionTypes ==
  ASSUME NEW r \in AttributeRuns, NEW event \in EventRecords, NEW change \in ChangeRecords
  PROVE  AssignedOption(r, event, change) \in AttributeRuns
<1>1. /\ r.book \in Books /\ r.closures \in Seq(ClosureRecs) /\ r.found \in Seq(Closings)
      /\ r.owner \in Owners /\ NoCampaign \in Owners
  BY DEF AttributeRuns, Owners
<1>2. /\ event.time \in Nat /\ Day(event.time) \in Nat
      /\ change.instrument \in Instruments /\ change.quantity \in Int
  BY DayTypes DEF EventRecords, ChangeRecords
<1>3. PICK after : after = ApplyChange([r.book EXCEPT !.taken = << >>], change, event.time, NoCampaign)
  OBVIOUS
<1>4. after \in Books /\ after.taken \in Seq(OpenLots)
  BY <1>1, <1>2, <1>3, TakenReset, ApplyChangeTypes, BookFields
<1>5. PICK closing : closing = Activity(Day(event.time), change.instrument, change.quantity * PerContract,
                          Parts(after.taken, PerContract), TRUE, NoDay)
  OBVIOUS
<1>6. AssignedOption(r, event, change) =
        [book |-> after, closures |-> r.closures,
         found |-> IF after.taken = << >> \/ change.quantity < 0 THEN r.found
                   ELSE Append(r.found, closing),
         owner |-> OwnerOf(after.taken, event.kind, r.owner)]
  BY <1>3, <1>5 DEF AssignedOption
<1>7. ~(change.quantity < 0) => closing \in Closings
  <2>1. SUFFICES ASSUME change.quantity >= 0 PROVE closing \in Closings
    BY <1>2
  <2>2. PerContract \in Nat \ {0}
    BY TradeAssumption
  <2>3. PICK ls : ls = r.book.lots[change.instrument]
    OBVIOUS
  <2>4. ls \in Seq(OpenLots)
    BY <1>1, <1>2, <2>3, BookFields
  <2>5. after.taken = CloseRun(ls, change.quantity, NoCampaign).taken
    BY <1>1, <1>3, <2>3, ChangeTaken
  <2>6. /\ Parts(after.taken, PerContract) \in Seq(PartRecords)
        /\ SumQuantities(Parts(after.taken, PerContract)) <= Magnitude(change.quantity) * PerContract
    BY <1>1, <1>2, <2>2, <2>4, <2>5, ClosedParts
  <2>7. Magnitude(change.quantity) = change.quantity
    BY <1>2, <2>1 DEF Magnitude
  <2>8. change.quantity * PerContract \in Nat
    <3>1. \A x, y \in Nat : x * y \in Nat
      OBVIOUS
    <3> QED BY <1>2, <2>1, <2>2, <3>1
  <2>9. Day(event.time) \in Days /\ NoDay \in Int /\ TRUE \in BOOLEAN
    BY <1>2 DEF Days, NoDay
  <2>10. SumQuantities(Parts(after.taken, PerContract)) <= change.quantity * PerContract
    BY <2>6, <2>7
  <2> QED BY <1>2, <1>5, <2>6, <2>8, <2>9, <2>10, ActivityTypes
<1>8. (IF after.taken = << >> \/ change.quantity < 0 THEN r.found ELSE Append(r.found, closing))
        \in Seq(Closings)
  BY <1>1, <1>7
<1>9. OwnerOf(after.taken, event.kind, r.owner) \in Owners
  BY <1>1, <1>4, OwnerTypes
<1> QED BY <1>1, <1>4, <1>6, <1>8, <1>9 DEF AttributeRuns

LEMMA OtherChangeTypes ==
  ASSUME NEW r \in AttributeRuns, NEW event \in EventRecords, NEW change \in ChangeRecords,
         planned \in Seq(ClosureRecs)
  PROVE  OtherChange(r, event, change) \in AttributeRuns
<1>1. /\ r.book \in Books /\ r.closures \in Seq(ClosureRecs) /\ r.found \in Seq(Closings)
      /\ r.owner \in Owners /\ NoCampaign \in Owners
  BY DEF AttributeRuns, Owners
<1>2. /\ event.time \in Nat /\ Day(event.time) \in Nat
      /\ change.instrument \in Instruments /\ change.quantity \in Int
  BY DayTypes DEF EventRecords, ChangeRecords
<1>3. PICK i : i = change.instrument
  OBVIOUS
<1>4. PICK units : units = Units(event, change, IF input.variant = "month" THEN planned ELSE r.closures)
  OBVIOUS
<1>5. units \in Int
  BY <1>1, <1>4, UnitsTypes
<1>6. PICK claimed : claimed = IF event.kind = "ASSIGNMENT" /\ r.owner # NoCampaign /\ change.quantity < 0
                               THEN ClaimUnassigned(r.book, i, -change.quantity, r.owner) ELSE r.book
  OBVIOUS
<1>7. claimed \in Books
  <2>1. change.quantity < 0 => -change.quantity \in Nat
    BY <1>2
  <2> QED BY <1>1, <1>2, <1>3, <1>6, <2>1, ClaimUnassignedTypes
<1>8. PICK applied : applied = [instrument |-> i, quantity |-> units]
  OBVIOUS
<1>9. applied \in ChangeRecords /\ applied.instrument = i /\ applied.quantity = units
  BY <1>2, <1>3, <1>5, <1>8 DEF ChangeRecords
<1>10. PICK after : after = ApplyChange([claimed EXCEPT !.taken = << >>], applied, event.time, r.owner)
  OBVIOUS
<1>11. after \in Books
  BY <1>1, <1>2, <1>7, <1>9, <1>10, TakenReset, ApplyChangeTypes
<1>12. PICK expired, parts : /\ expired = (event.kind = "EXPIRATION" /\ i \in Options)
                             /\ parts = Parts(after.taken, 1)
  OBVIOUS
<1>13. PICK quantity : quantity = IF expired THEN SumQuantities(parts) ELSE Magnitude(units)
  OBVIOUS
<1>14. PICK closing : closing = Activity(Day(event.time), i, quantity, parts, TRUE, NoDay)
  OBVIOUS
<1>15. parts \in Seq(PartRecords) /\ SumQuantities(parts) <= quantity /\ quantity \in Nat
  <2>1. PICK ls : ls = claimed.lots[i]
    OBVIOUS
  <2>2. ls \in Seq(OpenLots)
    BY <1>2, <1>3, <1>7, <2>1, BookFields
  <2>3. after.taken = CloseRun(ls, units, NoCampaign).taken
    BY <1>7, <1>9, <1>10, <2>1, ChangeTaken
  <2>4. parts \in Seq(PartRecords) /\ SumQuantities(parts) <= Magnitude(units) * 1
    BY <1>1, <1>5, <1>12, <2>2, <2>3, ClosedParts
  <2>5. SumQuantities(parts) \in Nat
    <3>1. SumQuantities(parts) \in Int
      BY <2>4, PartsQuantified, QuantitiesAreInts
    <3>2. parts = << >> \/ SumQuantities(parts) > 0
      <4>1. PICK d : d = QuantitiesOf(parts)
        OBVIOUS
      <4>2. /\ d \in Seq(Int) /\ Len(d) = Len(parts)
            /\ \A k \in 1..Len(parts) : d[k] = parts[k].quantity
        BY <2>4, <4>1, PartsQuantified, QuantitiesAreInts
      <4>3. \A k \in 1..Len(d) : d[k] > 0
        <5>1. \A k \in 1..Len(parts) : parts[k] \in PartRecords
          BY <2>4
        <5> QED BY <4>2, <5>1 DEF PartRecords
      <4>4. d # << >> => Total(d) > 0
        BY <4>2, <4>3, TotalPositive
      <4>5. d = << >> => parts = << >>
        BY <2>4, <4>2
      <4> QED BY <4>1, <4>4, <4>5 DEF SumQuantities
    <3> QED BY <3>1, <3>2, SumOfNothing
  <2>6. Magnitude(units) \in Nat /\ Magnitude(units) * 1 = Magnitude(units)
    BY <1>5 DEF Magnitude
  <2> QED BY <1>13, <2>4, <2>5, <2>6
<1>16. closing \in Closings
  <2>1. Day(event.time) \in Days /\ NoDay \in Int /\ TRUE \in BOOLEAN
    BY <1>2 DEF Days, NoDay
  <2> QED BY <1>2, <1>3, <1>14, <1>15, <2>1, ActivityTypes
<1>17. PICK found : found = IF after.taken = << >> \/ (~expired /\ change.quantity > 0) THEN r.found
                            ELSE Append(r.found, closing)
  OBVIOUS
<1>18. found \in Seq(Closings)
  BY <1>1, <1>16, <1>17
<1>19. OtherChange(r, event, change) =
         IF units = 0 THEN r
         ELSE IF ~claimed.ok
         THEN [book |-> claimed, closures |-> r.closures, found |-> r.found, owner |-> r.owner]
         ELSE [book |-> after, closures |-> r.closures, found |-> found, owner |-> r.owner]
  BY <1>3, <1>4, <1>6, <1>8, <1>10, <1>12, <1>13, <1>14, <1>17 DEF OtherChange
<1> QED BY <1>1, <1>7, <1>11, <1>18, <1>19 DEF AttributeRuns

LEMMA AttributedChangeTypes ==
  ASSUME NEW r \in AttributeRuns, NEW event \in EventRecords, NEW change \in ChangeRecords,
         planned \in Seq(ClosureRecs)
  PROVE  AttributedChange(r, event, change) \in AttributeRuns
BY AssignedOptionTypes, OtherChangeTypes DEF AttributedChange

LEMMA AttributedTradeLoop ==
  ASSUME NEW start \in AttributeRuns, NEW trade \in TradeRecords, CampaignOf(trade) \in Owners
  PROVE  \E f \in [0..Len(trade.legs) -> AttributeRuns] :
           /\ f[0] = start
           /\ \A k \in 1..Len(trade.legs) : f[k] = AttributedLeg(f[k - 1], trade, trade.legs[k])
           /\ AttributedTrade(start, trade) = f[Len(trade.legs)]
<1> DEFINE n == Len(trade.legs)
           base == start
           next == [kr \in (1..n) \X AttributeRuns |-> AttributedLeg(kr[2], trade, trade.legs[kr[1]])]
           Solves(g) == g = [k \in 0..n |-> IF k = 0 THEN base ELSE AttributedLeg(g[k - 1], trade, trade.legs[k])]
           run == CHOOSE g : Solves(g)
<1>1. n \in Nat /\ base \in AttributeRuns
  BY DEF TradeRecords
<1>2. ASSUME NEW k \in 1..n, NEW r \in AttributeRuns PROVE AttributedLeg(r, trade, trade.legs[k]) \in AttributeRuns
  <2>1. trade.legs[k] \in LegRecords
    BY <1>1, <1>2 DEF TradeRecords
  <2> QED BY <1>2, <2>1, AttributedLegTypes
<1>3. next \in [(1..n) \X AttributeRuns -> AttributeRuns]
  BY <1>2
<1>4. PICK f : IsLoop(f, n, AttributeRuns, base, next)
  <2> HIDE DEF n, base, next
  <2> QED BY <1>1, <1>3, LoopExists
<1>5. /\ f \in [0..n -> AttributeRuns] /\ f[0] = base
      /\ \A k \in 1..n : f[k] = AttributedLeg(f[k - 1], trade, trade.legs[k])
  BY <1>4 DEF IsLoop
<1>6. Solves(f)
  BY <1>5
<1>7. Solves(run)
  <2> HIDE DEF Solves
  <2> QED BY <1>6
<1>8. AttributedTrade(start, trade) = run[n]
  BY DEF AttributedTrade
<1>9. run[n] = f[n]
  <2> HIDE DEF run, n
  <2>1. 0 \in 0..n /\ \A k \in 1..n : k \in 0..n /\ k # 0
    BY <1>1
  <2>2. run[0] = base /\ \A k \in 1..n : run[k] = AttributedLeg(run[k - 1], trade, trade.legs[k])
    BY <1>7, <2>1
  <2>3. Follows(run, n, AttributeRuns, base, next)
    BY <2>2 DEF Follows
  <2> HIDE DEF base, next
  <2> QED BY <1>1, <1>4, <2>3, LoopIsOnly
<1> HIDE DEF run
<1> QED BY <1>5, <1>8, <1>9

LEMMA AttributedEventLoop ==
  ASSUME NEW start \in AttributeRuns, NEW event \in EventRecords,
         planned \in Seq(ClosureRecs)
  PROVE  \E f \in [0..Len(event.changes) -> AttributeRuns] :
           /\ f[0] = start
           /\ \A k \in 1..Len(event.changes) : f[k] = AttributedChange(f[k - 1], event, event.changes[k])
           /\ AttributedEvent(start, event) = f[Len(event.changes)]
<1> DEFINE n == Len(event.changes)
           base == start
           next == [kr \in (1..n) \X AttributeRuns |-> AttributedChange(kr[2], event, event.changes[kr[1]])]
           Solves(g) == g = [k \in 0..n |-> IF k = 0 THEN base ELSE AttributedChange(g[k - 1], event, event.changes[k])]
           run == CHOOSE g : Solves(g)
<1>1. n \in Nat /\ base \in AttributeRuns
  BY DEF EventRecords
<1>2. ASSUME NEW k \in 1..n, NEW r \in AttributeRuns PROVE AttributedChange(r, event, event.changes[k]) \in AttributeRuns
  <2>1. event.changes[k] \in ChangeRecords
    BY <1>1, <1>2 DEF EventRecords
  <2> QED BY <1>2, <2>1, AttributedChangeTypes
<1>3. next \in [(1..n) \X AttributeRuns -> AttributeRuns]
  BY <1>2
<1>4. PICK f : IsLoop(f, n, AttributeRuns, base, next)
  <2> HIDE DEF n, base, next
  <2> QED BY <1>1, <1>3, LoopExists
<1>5. /\ f \in [0..n -> AttributeRuns] /\ f[0] = base
      /\ \A k \in 1..n : f[k] = AttributedChange(f[k - 1], event, event.changes[k])
  BY <1>4 DEF IsLoop
<1>6. Solves(f)
  BY <1>5
<1>7. Solves(run)
  <2> HIDE DEF Solves
  <2> QED BY <1>6
<1>8. AttributedEvent(start, event) = run[n]
  BY DEF AttributedEvent
<1>9. run[n] = f[n]
  <2> HIDE DEF run, n
  <2>1. 0 \in 0..n /\ \A k \in 1..n : k \in 0..n /\ k # 0
    BY <1>1
  <2>2. run[0] = base /\ \A k \in 1..n : run[k] = AttributedChange(run[k - 1], event, event.changes[k])
    BY <1>7, <2>1
  <2>3. Follows(run, n, AttributeRuns, base, next)
    BY <2>2 DEF Follows
  <2> HIDE DEF base, next
  <2> QED BY <1>1, <1>4, <2>3, LoopIsOnly
<1> HIDE DEF run
<1> QED BY <1>5, <1>8, <1>9

\* The items of a history are told apart by their fields.
LEMMA ItemKinds ==
  /\ \A item \in TradeRecords : IsTrade(item) /\ item.time \in Nat
  /\ \A item \in EventRecords : ~IsTrade(item) /\ item.time \in Nat
BY DEF TradeRecords, EventRecords, IsTrade

LEMMA AttributedItemTypes ==
  ASSUME input \in Inputs
  PROVE  /\ Len(AttributedItems) \in Nat
         /\ \A n \in 1..Len(AttributedItems) :
              LET item == AttributedItems[n]
              IN IF IsTrade(item) THEN item \in TradeRecords /\ CampaignOf(item) \in Owners
                 ELSE item \in EventRecords
<1>1. PICK ts, es : ts = FlattenSeq(MonthCampaigns) /\ es = AttributedEvents
  OBVIOUS
<1>2. /\ ts \in Seq(TradeRecords) /\ ToSet(ts) \subseteq Members(MonthCampaigns)
      /\ \A trade \in Members(MonthCampaigns) : CampaignOf(trade) \in Campaigns
  BY <1>1, MonthTrades
<1>3. es \in Seq(EventRecords)
  BY <1>1, InputTypes DEF AttributedEvents
<1>4. PICK X : X = TradeRecords \cup EventRecords
  OBVIOUS
<1>5. ts \in Seq(X) /\ es \in Seq(X) /\ \A x \in X : x.time \in Nat
  BY <1>2, <1>3, <1>4, ItemKinds
<1>6. PICK line : line = Timeline(ts, es)
  OBVIOUS
<1>7. line \in Seq(X) /\ \A n \in DOMAIN line : line[n] \in ToSet(ts) \cup ToSet(es)
  BY <1>5, <1>6, TimelineItems
<1>8. ASSUME NEW n \in 1..Len(line)
      PROVE  IF IsTrade(line[n]) THEN line[n] \in TradeRecords /\ CampaignOf(line[n]) \in Owners
             ELSE line[n] \in EventRecords
  <2>1. line[n] \in ToSet(ts) \cup ToSet(es)
    BY <1>7
  <2>2. CASE line[n] \in ToSet(ts)
    <3>1. line[n] \in TradeRecords
      BY <1>2, <2>2 DEF ToSet
    <3>2. CampaignOf(line[n]) \in Owners
      BY <1>2, <2>2 DEF Owners
    <3> QED BY <3>1, <3>2, ItemKinds
  <2>3. CASE line[n] \in ToSet(es)
    <3>1. line[n] \in EventRecords
      BY <1>3, <2>3 DEF ToSet
    <3> QED BY <3>1, ItemKinds
  <2> QED BY <2>1, <2>2, <2>3
<1>9. AttributedItems = line /\ Len(line) \in Nat
  BY <1>1, <1>6, <1>7 DEF AttributedItems
<1> QED BY <1>8, <1>9

LEMMA AttributedTypes ==
  ASSUME book \in Books, closures \in Seq(ClosureRecs), activities \in Seq(Closings),
         planned \in Seq(ClosureRecs), NEW item,
         IF IsTrade(item) THEN item \in TradeRecords /\ CampaignOf(item) \in Owners
         ELSE item \in EventRecords
  PROVE  Attributed(item) \in AttributeRuns
<1>1. PICK start : start = [book |-> book, closures |-> closures, found |-> activities,
                            owner |-> NoCampaign]
  OBVIOUS
<1>2. start \in AttributeRuns
  BY <1>1 DEF AttributeRuns, Owners
<1>3. CASE IsTrade(item)
  <2>1. PICK f \in [0..Len(item.legs) -> AttributeRuns] :
          /\ f[0] = start
          /\ \A k \in 1..Len(item.legs) : f[k] = AttributedLeg(f[k - 1], item, item.legs[k])
          /\ AttributedTrade(start, item) = f[Len(item.legs)]
    BY <1>2, <1>3, AttributedTradeLoop
  <2>2. Len(item.legs) \in 0..Len(item.legs)
    BY <1>3 DEF TradeRecords
  <2>3. Attributed(item) = f[Len(item.legs)]
    BY <1>1, <1>3, <2>1 DEF Attributed
  <2> QED BY <2>1, <2>2, <2>3
<1>4. CASE ~IsTrade(item)
  <2>1. PICK f \in [0..Len(item.changes) -> AttributeRuns] :
          /\ f[0] = start
          /\ \A k \in 1..Len(item.changes) : f[k] = AttributedChange(f[k - 1], item, item.changes[k])
          /\ AttributedEvent(start, item) = f[Len(item.changes)]
    BY <1>2, <1>4, AttributedEventLoop
  <2>2. Len(item.changes) \in 0..Len(item.changes)
    BY <1>4 DEF EventRecords
  <2>3. Attributed(item) = f[Len(item.changes)]
    BY <1>1, <1>4, <2>1 DEF Attributed
  <2> QED BY <2>1, <2>2, <2>3
<1> QED BY <1>3, <1>4

-----------------------------------------------------------------------------
(* Sums of a weight over a sequence: units of one lot, or of one campaign. *)
\* The units of a lot in allocations, and in the allocations of things.
LotUnits(id) == [p \in PartRecords |-> IF p.id = id THEN p.quantity ELSE 0]

LEMMA UnitsAreWeights ==
  ASSUME NEW parts \in Seq(PartRecords), NEW id
  PROVE  LotUnits(id) \in [PartRecords -> Int] /\ UnitsIn(parts, id) = Weight(LotUnits(id), parts)
<1>1. LotUnits(id) \in [PartRecords -> Int]
  BY DEF LotUnits, PartRecords
<1>2. \A n \in DOMAIN parts : LotUnits(id)[parts[n]] = IF parts[n].id = id THEN parts[n].quantity ELSE 0
  BY DEF LotUnits
<1>3. [n \in DOMAIN parts |-> LotUnits(id)[parts[n]]]
        = [n \in DOMAIN parts |-> IF parts[n].id = id THEN parts[n].quantity ELSE 0]
  BY <1>2
<1> QED BY <1>1, <1>3 DEF UnitsIn, Weight

LEMMA UnitsAdd ==
  ASSUME NEW id
  PROVE  /\ UnitsIn(<< >>, id) = 0
         /\ \A s \in Seq(PartRecords) : UnitsIn(s, id) \in Int
         /\ \A s \in Seq(PartRecords), p \in PartRecords :
              UnitsIn(Append(s, p), id) = UnitsIn(s, id) + (IF p.id = id THEN p.quantity ELSE 0)
         /\ \A s, t \in Seq(PartRecords) : UnitsIn(s \o t, id) = UnitsIn(s, id) + UnitsIn(t, id)
<1>1. << >> \in Seq(PartRecords)
  OBVIOUS
<1>2. LotUnits(id) \in [PartRecords -> Int]
  BY <1>1, UnitsAreWeights
<1>3. UnitsIn(<< >>, id) = 0
  BY <1>1, UnitsAreWeights, WeightOfNone
<1>4. ASSUME NEW s \in Seq(PartRecords) PROVE UnitsIn(s, id) \in Int
  <2>1. Weight(LotUnits(id), s) \in Int
    BY <1>2, WeightIs
  <2> QED BY <2>1, UnitsAreWeights
<1>5. ASSUME NEW s \in Seq(PartRecords), NEW p \in PartRecords
      PROVE  UnitsIn(Append(s, p), id) = UnitsIn(s, id) + (IF p.id = id THEN p.quantity ELSE 0)
  <2>1. Append(s, p) \in Seq(PartRecords)
    OBVIOUS
  <2>2. LotUnits(id)[p] = IF p.id = id THEN p.quantity ELSE 0
    BY DEF LotUnits
  <2>3. Weight(LotUnits(id), Append(s, p)) = Weight(LotUnits(id), s) + LotUnits(id)[p]
    BY <1>2, WeightOfOneMore
  <2> QED BY <2>1, <2>2, <2>3, UnitsAreWeights
<1>6. ASSUME NEW s \in Seq(PartRecords), NEW t \in Seq(PartRecords)
      PROVE  UnitsIn(s \o t, id) = UnitsIn(s, id) + UnitsIn(t, id)
  <2>1. s \o t \in Seq(PartRecords)
    OBVIOUS
  <2>2. Weight(LotUnits(id), s \o t) = Weight(LotUnits(id), s) + Weight(LotUnits(id), t)
    BY <1>2, WeightOfTwo
  <2> QED BY <2>1, <2>2, UnitsAreWeights
<1> QED BY <1>3, <1>4, <1>5, <1>6

-----------------------------------------------------------------------------
(* A record's share of one closing activity. *)
CutRuns == [taken : Seq(PartRecords), rest : Seq(PartRecords), due : Nat]

\* What one allocation becomes: its units are taken or left, none of them twice.
CutStep(r, p, next) ==
  /\ \A id : UnitsIn(next.taken, id) + UnitsIn(next.rest, id)
               = UnitsIn(r.taken, id) + UnitsIn(r.rest, id) + (IF p.id = id THEN p.quantity ELSE 0)
  /\ SumQuantities(next.taken) + SumQuantities(next.rest)
       = SumQuantities(r.taken) + SumQuantities(r.rest) + p.quantity
  /\ SumQuantities(next.taken) + next.due = SumQuantities(r.taken) + r.due
  /\ next.due <= r.due /\ (next.due = 0 \/ next.rest = r.rest)

LEMMA CutPartSteps ==
  ASSUME NEW r \in CutRuns, NEW p \in PartRecords
  PROVE  CutPart(r, p) \in CutRuns /\ CutStep(r, p, CutPart(r, p))
<1>1. r.taken \in Seq(PartRecords) /\ r.rest \in Seq(PartRecords) /\ r.due \in Nat
  BY DEF CutRuns
<1>2. PICK take : take = Smaller(p.quantity, r.due)
  OBVIOUS
<1>3. p.quantity \in Nat \ {0} /\ p.id \in LotNames /\ p.campaign \in Owners
  BY DEF PartRecords
<1>4. take \in Nat /\ take <= p.quantity /\ take <= r.due /\ (take = p.quantity \/ take = r.due)
  BY <1>1, <1>2, <1>3 DEF Smaller
<1>5. PICK a, b : a = [p EXCEPT !.quantity = take] /\ b = [p EXCEPT !.quantity = p.quantity - take]
  OBVIOUS
<1>6. take # 0 => a \in PartRecords
  BY <1>3, <1>4, <1>5 DEF PartRecords
<1>7. take # p.quantity => b \in PartRecords
  BY <1>3, <1>4, <1>5 DEF PartRecords
<1>8. a.id = p.id /\ a.quantity = take /\ b.id = p.id /\ b.quantity = p.quantity - take
  BY <1>5 DEF PartRecords
<1>9. PICK n : n = CutPart(r, p)
  OBVIOUS
<1>10. n = [taken |-> IF take = 0 THEN r.taken ELSE Append(r.taken, a),
            rest |-> IF take = p.quantity THEN r.rest ELSE Append(r.rest, b),
            due |-> r.due - take]
  BY <1>2, <1>5, <1>9 DEF CutPart
<1>11. /\ n.taken = IF take = 0 THEN r.taken ELSE Append(r.taken, a)
       /\ n.rest = IF take = p.quantity THEN r.rest ELSE Append(r.rest, b)
       /\ n.due = r.due - take
  BY <1>10
<1>12. n.taken \in Seq(PartRecords)
  BY <1>1, <1>6, <1>11
<1>13. n.rest \in Seq(PartRecords)
  BY <1>1, <1>7, <1>11
<1>14. n.due \in Nat
  BY <1>1, <1>4, <1>11
<1>15. n \in CutRuns
  BY <1>10, <1>11, <1>12, <1>13, <1>14 DEF CutRuns
<1>16. ASSUME NEW id
       PROVE  UnitsIn(n.taken, id) + UnitsIn(n.rest, id)
                = UnitsIn(r.taken, id) + UnitsIn(r.rest, id) + (IF p.id = id THEN p.quantity ELSE 0)
  <2>1. PICK x, y : x = UnitsIn(r.taken, id) /\ y = UnitsIn(r.rest, id)
    OBVIOUS
  <2>2. x \in Int /\ y \in Int
    BY <1>1, <2>1, UnitsAdd
  <2>3. UnitsIn(n.taken, id) = x + (IF p.id = id THEN take ELSE 0)
    <3>1. CASE take = 0
      BY <1>11, <2>1, <2>2, <3>1
    <3>2. CASE take # 0
      <4>1. UnitsIn(Append(r.taken, a), id) = x + (IF a.id = id THEN a.quantity ELSE 0)
        BY <1>1, <1>6, <2>1, <3>2, UnitsAdd
      <4> QED BY <1>8, <1>11, <3>2, <4>1
    <3> QED BY <3>1, <3>2
  <2>4. UnitsIn(n.rest, id) = y + (IF p.id = id THEN p.quantity - take ELSE 0)
    <3>1. CASE take = p.quantity
      BY <1>3, <1>11, <2>1, <2>2, <3>1
    <3>2. CASE take # p.quantity
      <4>1. UnitsIn(Append(r.rest, b), id) = y + (IF b.id = id THEN b.quantity ELSE 0)
        BY <1>1, <1>7, <2>1, <3>2, UnitsAdd
      <4> QED BY <1>8, <1>11, <3>2, <4>1
    <3> QED BY <3>1, <3>2
  <2>5. PICK q : q = p.quantity
    OBVIOUS
  <2> QED BY ONLY <1>3, <1>4, <2>1, <2>2, <2>3, <2>4
<1>17. PICK x, y : x = SumQuantities(r.taken) /\ y = SumQuantities(r.rest)
  OBVIOUS
<1>18. x \in Int /\ y \in Int
  BY <1>1, <1>17, PartsQuantified, QuantitiesAreInts
<1>19. SumQuantities(n.taken) = x + take
  <2>1. CASE take = 0
    BY <1>11, <1>17, <1>18, <2>1
  <2>2. CASE take # 0
    <3>1. SumQuantities(Append(r.taken, a)) = x + a.quantity
      BY <1>1, <1>6, <1>17, <2>2, PartsQuantified, SumOfOneMore
    <3> QED BY <1>8, <1>11, <2>2, <3>1
  <2> QED BY <2>1, <2>2
<1>20. SumQuantities(n.rest) = y + (p.quantity - take)
  <2>1. CASE take = p.quantity
    BY <1>3, <1>11, <1>17, <1>18, <2>1
  <2>2. CASE take # p.quantity
    <3>1. SumQuantities(Append(r.rest, b)) = y + b.quantity
      BY <1>1, <1>7, <1>17, <2>2, PartsQuantified, SumOfOneMore
    <3> QED BY <1>8, <1>11, <2>2, <3>1
  <2> QED BY <2>1, <2>2
<1>21. SumQuantities(n.taken) + SumQuantities(n.rest) = x + y + p.quantity
  BY ONLY <1>3, <1>4, <1>18, <1>19, <1>20
<1>22. SumQuantities(n.taken) + n.due = x + r.due
  BY ONLY <1>1, <1>4, <1>11, <1>18, <1>19
<1>23. n.due <= r.due /\ (n.due = 0 \/ n.rest = r.rest)
  BY <1>1, <1>4, <1>11
<1> QED BY <1>9, <1>15, <1>16, <1>17, <1>21, <1>22, <1>23 DEF CutStep

LEMMA CutLoop ==
  ASSUME NEW parts \in Seq(PartRecords), NEW quantity \in Nat
  PROVE  \E f \in [0..Len(parts) -> CutRuns] :
           /\ f[0] = [taken |-> << >>, rest |-> << >>, due |-> quantity]
           /\ \A k \in 1..Len(parts) : f[k] = CutPart(f[k - 1], parts[k])
           /\ Cut(parts, quantity) = f[Len(parts)]
<1> DEFINE n == Len(parts)
           base == [taken |-> << >>, rest |-> << >>, due |-> quantity]
           next == [kr \in (1..n) \X CutRuns |-> CutPart(kr[2], parts[kr[1]])]
           Solves(g) == g = [k \in 0..n |-> IF k = 0 THEN base ELSE CutPart(g[k - 1], parts[k])]
           run == CHOOSE g : Solves(g)
<1>1. n \in Nat /\ base \in CutRuns
  BY DEF CutRuns
<1>2. ASSUME NEW k \in 1..n, NEW r \in CutRuns PROVE CutPart(r, parts[k]) \in CutRuns
  <2>1. parts[k] \in PartRecords
    OBVIOUS
  <2> QED BY <2>1, CutPartSteps
<1>3. next \in [(1..n) \X CutRuns -> CutRuns]
  BY <1>2
<1>4. PICK f : IsLoop(f, n, CutRuns, base, next)
  <2> HIDE DEF n, base, next
  <2> QED BY <1>1, <1>3, LoopExists
<1>5. /\ f \in [0..n -> CutRuns] /\ f[0] = base
      /\ \A k \in 1..n : f[k] = CutPart(f[k - 1], parts[k])
  BY <1>4 DEF IsLoop
<1>6. Solves(f)
  BY <1>5
<1>7. Solves(run)
  <2> HIDE DEF Solves
  <2> QED BY <1>6
<1>8. Cut(parts, quantity) = run[n]
  BY DEF Cut
<1>9. run[n] = f[n]
  <2> HIDE DEF run, n
  <2>1. 0 \in 0..n /\ \A k \in 1..n : k \in 0..n /\ k # 0
    BY <1>1
  <2>2. run[0] = base /\ \A k \in 1..n : run[k] = CutPart(run[k - 1], parts[k])
    BY <1>7, <2>1
  <2>3. Follows(run, n, CutRuns, base, next)
    BY <2>2 DEF Follows
  <2> HIDE DEF base, next
  <2> QED BY <1>1, <1>4, <2>3, LoopIsOnly
<1> HIDE DEF run
<1> QED BY <1>5, <1>8, <1>9

\* Taken and left parts make up the activity's, lot by lot; nothing is left
\* unless all that was due is taken.
LEMMA CutFacts ==
  ASSUME NEW parts \in Seq(PartRecords), NEW quantity \in Nat
  PROVE  LET cut == Cut(parts, quantity) IN
         /\ cut \in CutRuns
         /\ \A id : UnitsIn(cut.taken, id) + UnitsIn(cut.rest, id) = UnitsIn(parts, id)
         /\ SumQuantities(cut.taken) + SumQuantities(cut.rest) = SumQuantities(parts)
         /\ SumQuantities(cut.taken) + cut.due = quantity
         /\ cut.due = 0 \/ cut.rest = << >>
<1>1. PICK f \in [0..Len(parts) -> CutRuns] :
        /\ f[0] = [taken |-> << >>, rest |-> << >>, due |-> quantity]
        /\ \A k \in 1..Len(parts) : f[k] = CutPart(f[k - 1], parts[k])
        /\ Cut(parts, quantity) = f[Len(parts)]
  BY CutLoop
<1>2. Len(parts) \in Nat
  OBVIOUS
<1> DEFINE Done(k) == SubSeq(parts, 1, k)
           Good(k) == /\ \A id : UnitsIn(f[k].taken, id) + UnitsIn(f[k].rest, id) = UnitsIn(Done(k), id)
                      /\ SumQuantities(f[k].taken) + SumQuantities(f[k].rest) = SumQuantities(Done(k))
                      /\ SumQuantities(f[k].taken) + f[k].due = quantity
                      /\ f[k].due = 0 \/ f[k].rest = << >>
<1>3. Good(0)
  <2>1. Done(0) = << >>
    OBVIOUS
  <2>2. f[0].taken = << >> /\ f[0].rest = << >> /\ f[0].due = quantity
    BY <1>1
  <2>3. \A id : UnitsIn(<< >>, id) + UnitsIn(<< >>, id) = UnitsIn(<< >>, id)
    BY UnitsAdd
  <2>4. SumQuantities(<< >>) = 0
    BY SumOfNothing
  <2> HIDE DEF Done
  <2> QED BY <2>1, <2>2, <2>3, <2>4
<1>4. ASSUME NEW k \in 1..Len(parts), Good(k - 1) PROVE Good(k)
  <2>1. k - 1 \in 0..Len(parts) /\ k \in 0..Len(parts)
    BY <1>2
  <2>2. parts[k] \in PartRecords
    OBVIOUS
  <2>3. Done(k) = Append(Done(k - 1), parts[k]) /\ Done(k - 1) \in Seq(PartRecords)
    OBVIOUS
  <2>4. PICK r, next, p, d : r = f[k - 1] /\ next = f[k] /\ p = parts[k] /\ d = Done(k - 1)
    OBVIOUS
  <2>5. r \in CutRuns /\ next \in CutRuns /\ p \in PartRecords /\ d \in Seq(PartRecords)
    BY <2>1, <2>2, <2>3, <2>4
  <2>6. CutStep(r, p, next)
    BY <1>1, <2>1, <2>2, <2>4, CutPartSteps
  <2>7. Done(k) = Append(d, p)
    BY <2>3, <2>4
  <2>8. /\ \A id : UnitsIn(r.taken, id) + UnitsIn(r.rest, id) = UnitsIn(d, id)
        /\ SumQuantities(r.taken) + SumQuantities(r.rest) = SumQuantities(d)
        /\ SumQuantities(r.taken) + r.due = quantity
        /\ r.due = 0 \/ r.rest = << >>
    BY <1>4, <2>4
  <2> HIDE DEF Done
  <2>9. ASSUME NEW id
        PROVE  UnitsIn(next.taken, id) + UnitsIn(next.rest, id) = UnitsIn(Append(d, p), id)
    <3>1. UnitsIn(Append(d, p), id) = UnitsIn(d, id) + (IF p.id = id THEN p.quantity ELSE 0)
      BY <2>5, UnitsAdd
    <3>2. UnitsIn(next.taken, id) + UnitsIn(next.rest, id)
            = UnitsIn(r.taken, id) + UnitsIn(r.rest, id) + (IF p.id = id THEN p.quantity ELSE 0)
      BY <2>6 DEF CutStep
    <3>3. UnitsIn(r.taken, id) + UnitsIn(r.rest, id) = UnitsIn(d, id)
      BY <2>8
    <3> QED BY <3>1, <3>2, <3>3
  <2>10. SumQuantities(next.taken) + SumQuantities(next.rest) = SumQuantities(Append(d, p))
    <3>1. SumQuantities(Append(d, p)) = SumQuantities(d) + p.quantity
      BY <2>5, PartsQuantified, SumOfOneMore
    <3>2. SumQuantities(next.taken) + SumQuantities(next.rest)
            = SumQuantities(r.taken) + SumQuantities(r.rest) + p.quantity
      BY <2>6 DEF CutStep
    <3> QED BY <2>8, <3>1, <3>2
  <2>11. SumQuantities(next.taken) + next.due = quantity
    <3>1. SumQuantities(next.taken) + next.due = SumQuantities(r.taken) + r.due
      BY <2>6 DEF CutStep
    <3> QED BY <2>8, <3>1
  <2>12. next.due = 0 \/ next.rest = << >>
    <3>1. next.due = 0 \/ next.rest = r.rest
      BY <2>6 DEF CutStep
    <3>2. CASE r.due = 0
      <4>1. next.due \in Nat /\ r.due \in Nat
        BY <2>5 DEF CutRuns
      <4>2. next.due <= r.due
        BY <2>6 DEF CutStep
      <4> QED BY <3>2, <4>1, <4>2
    <3> QED BY <2>8, <3>1, <3>2
  <2> QED BY <2>4, <2>7, <2>9, <2>10, <2>11, <2>12
<1>5. \A k \in 0..Len(parts) : Good(k)
  <2> DEFINE S == { k \in 0..Len(parts) : Good(k) }
  <2> HIDE DEF Good
  <2>1. 0 \in S
    BY <1>2, <1>3
  <2>2. \A k \in 1..Len(parts) : k - 1 \in S => k \in S
    BY <1>2, <1>4
  <2>3. \A k \in 0..Len(parts) : k \in S
    <3> HIDE DEF S
    <3> QED BY <1>2, <2>1, <2>2, Upward
  <2> QED BY <2>3
<1>6. Good(Len(parts))
  <2> HIDE DEF Good
  <2> QED BY <1>2, <1>5
<1>7. Done(Len(parts)) = parts
  OBVIOUS
<1>8. Cut(parts, quantity) \in CutRuns
  BY <1>1, <1>2
<1> QED BY <1>1, <1>6, <1>7, <1>8

LEMMA PartsPositive ==
  ASSUME NEW parts \in Seq(PartRecords)
  PROVE  /\ SumQuantities(parts) \in Nat
         /\ parts # << >> => SumQuantities(parts) > 0
<1>1. /\ QuantitiesOf(parts) \in Seq(Int) /\ Len(QuantitiesOf(parts)) = Len(parts)
      /\ \A k \in 1..Len(parts) : QuantitiesOf(parts)[k] = parts[k].quantity
  BY PartsQuantified, QuantitiesAreInts
<1>2. CASE parts = << >>
  BY <1>2, SumOfNothing
<1>3. CASE parts # << >>
  <2>1. \A k \in 1..Len(parts) : parts[k].quantity > 0
    <3>1. \A p \in PartRecords : p.quantity > 0
      BY DEF PartRecords
    <3>2. \A k \in 1..Len(parts) : parts[k] \in PartRecords
      OBVIOUS
    <3> QED BY <3>1, <3>2
  <2>2. QuantitiesOf(parts) # << >>
    <3>1. Len(parts) > 0
      BY <1>3
    <3> QED BY <1>1, <3>1
  <2>3. \A k \in 1..Len(QuantitiesOf(parts)) : QuantitiesOf(parts)[k] > 0
    BY <1>1, <2>1
  <2>4. Total(QuantitiesOf(parts)) > 0
    BY <1>1, <2>2, <2>3, TotalPositive
  <2>5. Total(QuantitiesOf(parts)) \in Int
    BY <1>1, TotalInt
  <2> QED BY <2>4, <2>5 DEF SumQuantities
<1> QED BY <1>2, <1>3

Parted(X) == \A x \in X : x.parts \in Seq(PartRecords)

\* The units of a lot in the allocations of activities, or of attributions.
ThingUnits(X, i, id) == [x \in X |-> IF x.instrument = i THEN UnitsIn(x.parts, id) ELSE 0]

LEMMA ThingsAreWeights ==
  ASSUME NEW X, Parted(X), NEW i, NEW id, NEW s \in Seq(X)
  PROVE  ThingUnits(X, i, id) \in [X -> Int] /\ UnitsOf(s, i, id) = Weight(ThingUnits(X, i, id), s)
<1>1. ThingUnits(X, i, id) \in [X -> Int]
  <2>1. \A x \in X : UnitsIn(x.parts, id) \in Int
    BY UnitsAdd DEF Parted
  <2> QED BY <2>1 DEF ThingUnits
<1>2. \A n \in DOMAIN s : ThingUnits(X, i, id)[s[n]]
                            = IF s[n].instrument = i THEN UnitsIn(s[n].parts, id) ELSE 0
  BY DEF ThingUnits
<1>3. [n \in DOMAIN s |-> ThingUnits(X, i, id)[s[n]]]
        = [n \in DOMAIN s |-> IF s[n].instrument = i THEN UnitsIn(s[n].parts, id) ELSE 0]
  BY <1>2
<1> QED BY <1>1, <1>3 DEF UnitsOf, Weight

LEMMA ThingsAdd ==
  ASSUME NEW X, Parted(X), NEW i, NEW id, NEW s \in Seq(X)
  PROVE  UnitsOf(s, i, id) \in Int
<1>1. ThingUnits(X, i, id) \in [X -> Int]
  BY ThingsAreWeights
<1>2. UnitsOf(s, i, id) = Weight(ThingUnits(X, i, id), s)
  BY ThingsAreWeights
<1>3. PICK w : w = ThingUnits(X, i, id)
  OBVIOUS
<1>4. Weight(w, s) \in Int
  BY <1>1, <1>3, WeightIs
<1> QED BY <1>2, <1>3, <1>4

LEMMA NoThings == ASSUME NEW i, NEW id PROVE UnitsOf(<< >>, i, id) = 0
<1>1. Parted({}) /\ << >> \in Seq({})
  BY DEF Parted
<1>2. PICK X, s : X = {} /\ s = << >>
  OBVIOUS
<1>3. Parted(X) /\ s \in Seq(X)
  BY <1>1, <1>2
<1>4. UnitsOf(s, i, id) = Weight(ThingUnits(X, i, id), s)
  BY <1>3, ThingsAreWeights
<1>5. Weight(ThingUnits(X, i, id), << >>) = 0
  BY WeightOfNone
<1> QED BY <1>2, <1>4, <1>5

UnitsOfOne(x, i, id) == IF x.instrument = i THEN UnitsIn(x.parts, id) ELSE 0

LEMMA ThingAdded ==
  ASSUME NEW X, Parted(X), NEW i, NEW id, NEW s \in Seq(X), NEW x \in X
  PROVE  UnitsOf(Append(s, x), i, id) = UnitsOf(s, i, id) + UnitsOfOne(x, i, id)
<1>1. PICK w : w = ThingUnits(X, i, id)
  OBVIOUS
<1>2. w \in [X -> Int]
  BY <1>1, ThingsAreWeights
<1>3. Append(s, x) \in Seq(X)
  OBVIOUS
<1>4. UnitsOf(s, i, id) = Weight(w, s)
  BY <1>1, ThingsAreWeights
<1>5. UnitsOf(Append(s, x), i, id) = Weight(w, Append(s, x))
  <2>1. PICK e : e = Append(s, x)
    OBVIOUS
  <2>2. e \in Seq(X)
    BY <1>3, <2>1
  <2>3. UnitsOf(e, i, id) = Weight(ThingUnits(X, i, id), e)
    BY <2>2, ThingsAreWeights
  <2> QED BY <1>1, <2>1, <2>3
<1>6. w[x] = UnitsOfOne(x, i, id)
  BY <1>1 DEF ThingUnits, UnitsOfOne
<1>7. Weight(w, Append(s, x)) = Weight(w, s) + w[x]
  BY <1>2, WeightOfOneMore
<1> QED BY <1>4, <1>5, <1>6, <1>7

LEMMA ThingsJoined ==
  ASSUME NEW X, Parted(X), NEW i, NEW id, NEW s \in Seq(X), NEW t \in Seq(X)
  PROVE  UnitsOf(s \o t, i, id) = UnitsOf(s, i, id) + UnitsOf(t, i, id)
<1>1. PICK w : w = ThingUnits(X, i, id)
  OBVIOUS
<1>2. w \in [X -> Int]
  BY <1>1, ThingsAreWeights
<1>3. s \o t \in Seq(X)
  OBVIOUS
<1>4. UnitsOf(s, i, id) = Weight(w, s) /\ UnitsOf(t, i, id) = Weight(w, t)
  BY <1>1, ThingsAreWeights
<1>5. UnitsOf(s \o t, i, id) = Weight(w, s \o t)
  <2>1. PICK e : e = s \o t
    OBVIOUS
  <2>2. e \in Seq(X)
    BY <1>3, <2>1
  <2>3. UnitsOf(e, i, id) = Weight(ThingUnits(X, i, id), e)
    BY <2>2, ThingsAreWeights
  <2> QED BY <1>1, <2>1, <2>3
<1>6. Weight(w, s \o t) = Weight(w, s) + Weight(w, t)
  BY <1>2, WeightOfTwo
<1> QED BY <1>4, <1>5, <1>6

LEMMA ClosingsParted == Parted(Closings)
BY DEF Closings, Parted

-----------------------------------------------------------------------------
(* A record's share of all closing activity. *)
ConsumeRuns == [left : Seq(Closings), due : Nat, taken : Seq(PartRecords), consistent : BOOLEAN]

\* The units of a lot that a record and what is left have between them.
Between(r, record, i, id) ==
  UnitsOf(r.left, i, id) + (IF Contract(record) = i THEN UnitsIn(r.taken, id) ELSE 0)

LEMMA DrawnSteps ==
  ASSUME NEW r \in ConsumeRuns, NEW a \in Closings, NEW record
  PROVE  /\ Drawn(r, a, record) \in ConsumeRuns
         /\ \A i, id : Between(Drawn(r, a, record), record, i, id)
                         = Between(r, record, i, id)
                             + UnitsOfOne(a, i, id)
<1>1. /\ r.left \in Seq(Closings) /\ r.due \in Nat /\ r.taken \in Seq(PartRecords)
      /\ r.consistent \in BOOLEAN
  BY DEF ConsumeRuns
<1>2. /\ a.closed \in Days /\ a.instrument \in Instruments /\ a.quantity \in Nat
      /\ a.parts \in Seq(PartRecords) /\ a.assigned \in BOOLEAN /\ a.executed \in Int
      /\ SumQuantities(a.parts) <= a.quantity
  BY DEF Closings
<1>3. \A x \in Closings : x.parts \in Seq(PartRecords)
  BY DEF Closings
<1>4. PICK take, cut : take = Smaller(a.quantity, r.due) /\ cut = Cut(a.parts, take)
  OBVIOUS
<1>5. take \in Nat /\ take <= a.quantity /\ take <= r.due
  BY <1>1, <1>2, <1>4 DEF Smaller
<1>6. /\ cut \in CutRuns
      /\ \A id : UnitsIn(cut.taken, id) + UnitsIn(cut.rest, id) = UnitsIn(a.parts, id)
      /\ SumQuantities(cut.taken) + SumQuantities(cut.rest) = SumQuantities(a.parts)
      /\ SumQuantities(cut.taken) + cut.due = take
      /\ cut.due = 0 \/ cut.rest = << >>
  BY <1>2, <1>4, <1>5, CutFacts
<1>7. cut.taken \in Seq(PartRecords) /\ cut.rest \in Seq(PartRecords) /\ cut.due \in Nat
  BY <1>6 DEF CutRuns
<1>8. SumQuantities(cut.rest) <= a.quantity - take
  <2>1. /\ SumQuantities(cut.taken) \in Int /\ SumQuantities(cut.rest) \in Int
        /\ SumQuantities(a.parts) \in Int
    BY <1>2, <1>7, PartsPositive
  <2>2. CASE cut.due = 0
    BY ONLY <1>2, <1>5, <1>6, <2>1, <2>2
  <2>3. CASE cut.rest = << >>
    BY <1>2, <1>5, <2>3, SumOfNothing
  <2> QED BY <1>6, <2>2, <2>3
<1>9. take = a.quantity => cut.rest = << >>
  <2>1. SumQuantities(cut.rest) \in Nat /\ (cut.rest # << >> => SumQuantities(cut.rest) > 0)
    BY <1>7, PartsPositive
  <2> QED BY <1>2, <1>8, <2>1
<1>10. PICK rest : rest = Activity(a.closed, a.instrument, a.quantity - take, cut.rest, a.assigned,
                                   a.executed)
  OBVIOUS
<1>11. rest \in Closings
  <2>1. a.quantity - take \in Nat
    BY <1>2, <1>5
  <2> QED BY <1>2, <1>7, <1>8, <1>10, <2>1, ActivityTypes
<1>12. rest.instrument = a.instrument /\ rest.parts = cut.rest
  BY <1>10 DEF Activity
<1>13. PICK n : n = Drawn(r, a, record)
  OBVIOUS
<1>14. CASE r.due = 0 \/ ~Matches(a, record)
  <2>1. n = [left |-> Append(r.left, a), due |-> r.due, taken |-> r.taken, consistent |-> r.consistent]
    BY <1>13, <1>14 DEF Drawn
  <2>2. n \in ConsumeRuns
    BY <1>1, <2>1 DEF ConsumeRuns
  <2>3. ASSUME NEW i, NEW id
        PROVE  Between(n, record, i, id) = Between(r, record, i, id)
                                             + UnitsOfOne(a, i, id)
    <3>1. n.left = Append(r.left, a) /\ n.taken = r.taken
      BY <2>1
    <3>2. UnitsOf(Append(r.left, a), i, id)
            = UnitsOf(r.left, i, id) + UnitsOfOne(a, i, id)
      BY <1>1, ClosingsParted, ThingAdded
    <3>3. PICK u, v, w : /\ u = UnitsOf(r.left, i, id) /\ v = UnitsIn(r.taken, id)
                         /\ w = UnitsIn(a.parts, id)
      OBVIOUS
    <3>4. u \in Int
      BY <1>1, <3>3, ClosingsParted, ThingsAdd
    <3>5. v \in Int /\ w \in Int
      BY <1>1, <1>2, <3>3, UnitsAdd
    <3> QED BY <3>1, <3>2, <3>3, <3>4, <3>5 DEF Between, UnitsOfOne
  <2> QED BY <1>13, <2>2, <2>3
<1>15. CASE ~(r.due = 0 \/ ~Matches(a, record))
  <2>1. n = [left |-> IF take = a.quantity THEN r.left ELSE Append(r.left, rest),
             due |-> r.due - take, taken |-> r.taken \o cut.taken,
             consistent |-> r.consistent /\ cut.due = 0]
    BY <1>4, <1>10, <1>13, <1>15 DEF Drawn
  <2>2. a.instrument = Contract(record)
    BY <1>15 DEF Matches
  <2>3. /\ n.left = IF take = a.quantity THEN r.left ELSE Append(r.left, rest)
        /\ n.due = r.due - take /\ n.taken = r.taken \o cut.taken
        /\ n.consistent = (r.consistent /\ cut.due = 0)
    BY <2>1
  <2>4. n.left \in Seq(Closings)
    BY <1>1, <1>11, <2>3
  <2>5. n.due \in Nat /\ n.taken \in Seq(PartRecords)
    BY <1>1, <1>5, <1>7, <2>3
  <2>6. n.consistent \in BOOLEAN
    BY <1>1, <2>3
  <2>7. n \in ConsumeRuns
    BY <2>1, <2>3, <2>4, <2>5, <2>6 DEF ConsumeRuns
  <2>8. ASSUME NEW i, NEW id
        PROVE  Between(n, record, i, id) = Between(r, record, i, id)
                                             + UnitsOfOne(a, i, id)
    <3>1. PICK u, v, x, y, w :
            /\ u = UnitsOf(r.left, i, id) /\ v = UnitsIn(r.taken, id)
            /\ x = UnitsIn(cut.taken, id) /\ y = UnitsIn(cut.rest, id) /\ w = UnitsIn(a.parts, id)
      OBVIOUS
    <3>2. u \in Int
      BY <1>1, <3>1, ClosingsParted, ThingsAdd
    <3>3. v \in Int /\ x \in Int /\ y \in Int /\ w \in Int
      BY <1>1, <1>2, <1>7, <3>1, UnitsAdd
    <3>4. x + y = w
      BY <1>6, <3>1
    <3>5. UnitsOf(n.left, i, id) = u + (IF a.instrument = i THEN y ELSE 0)
      <4>1. CASE take = a.quantity
        <5>1. y = 0
          BY <1>9, <3>1, <4>1, UnitsAdd
        <5> QED BY <2>3, <3>1, <3>2, <4>1, <5>1
      <4>2. CASE take # a.quantity
        <5>1. UnitsOf(Append(r.left, rest), i, id)
                = UnitsOf(r.left, i, id) + UnitsOfOne(rest, i, id)
          BY <1>1, <1>11, ClosingsParted, ThingAdded
        <5> QED BY <1>12, <2>3, <3>1, <4>2, <5>1 DEF UnitsOfOne
      <4> QED BY <4>1, <4>2
    <3>6. UnitsIn(n.taken, id) = v + x
      BY <1>1, <1>7, <2>3, <3>1, UnitsAdd
    <3>7. Between(n, record, i, id)
            = u + (IF a.instrument = i THEN y ELSE 0) + (IF a.instrument = i THEN v + x ELSE 0)
      BY <2>2, <3>5, <3>6 DEF Between
    <3>8. Between(r, record, i, id) = u + (IF a.instrument = i THEN v ELSE 0)
      BY <2>2, <3>1 DEF Between
    <3>9. CASE a.instrument = i
      BY <3>1, <3>2, <3>3, <3>4, <3>7, <3>8, <3>9 DEF UnitsOfOne
    <3>10. CASE a.instrument # i
      BY <3>1, <3>2, <3>3, <3>7, <3>8, <3>10 DEF UnitsOfOne
    <3> QED BY <3>9, <3>10
  <2> QED BY <1>13, <2>7, <2>8
<1> QED BY <1>14, <1>15

LEMMA ConsumedLoop ==
  ASSUME unused \in Seq(Closings), NEW record, record.quantity \in Nat
  PROVE  \E f \in [0..Len(unused) -> ConsumeRuns] :
           /\ f[0] = [left |-> << >>, due |-> record.quantity, taken |-> << >>, consistent |-> TRUE]
           /\ \A k \in 1..Len(unused) : f[k] = Drawn(f[k - 1], unused[k], record)
           /\ Consumed(record) = f[Len(unused)]
<1> DEFINE n == Len(unused)
           base == [left |-> << >>, due |-> record.quantity, taken |-> << >>, consistent |-> TRUE]
           next == [kr \in (1..n) \X ConsumeRuns |-> Drawn(kr[2], unused[kr[1]], record)]
           Solves(g) == g = [k \in 0..n |-> IF k = 0 THEN base ELSE Drawn(g[k - 1], unused[k], record)]
           run == CHOOSE g : Solves(g)
<1>1. n \in Nat /\ base \in ConsumeRuns
  BY DEF ConsumeRuns
<1>2. ASSUME NEW k \in 1..n, NEW r \in ConsumeRuns PROVE Drawn(r, unused[k], record) \in ConsumeRuns
  <2>1. unused[k] \in Closings
    OBVIOUS
  <2> QED BY <2>1, DrawnSteps
<1>3. next \in [(1..n) \X ConsumeRuns -> ConsumeRuns]
  BY <1>2
<1>4. PICK f : IsLoop(f, n, ConsumeRuns, base, next)
  <2> HIDE DEF n, base, next
  <2> QED BY <1>1, <1>3, LoopExists
<1>5. /\ f \in [0..n -> ConsumeRuns] /\ f[0] = base
      /\ \A k \in 1..n : f[k] = Drawn(f[k - 1], unused[k], record)
  BY <1>4 DEF IsLoop
<1>6. Solves(f)
  BY <1>5
<1>7. Solves(run)
  <2> HIDE DEF Solves
  <2> QED BY <1>6
<1>8. Consumed(record) = run[n]
  BY DEF Consumed
<1>9. run[n] = f[n]
  <2> HIDE DEF run, n
  <2>1. 0 \in 0..n /\ \A k \in 1..n : k \in 0..n /\ k # 0
    BY <1>1
  <2>2. run[0] = base /\ \A k \in 1..n : run[k] = Drawn(run[k - 1], unused[k], record)
    BY <1>7, <2>1
  <2>3. Follows(run, n, ConsumeRuns, base, next)
    BY <2>2 DEF Follows
  <2> HIDE DEF base, next
  <2>4. n \in Nat
    BY <1>1
  <2> QED BY ONLY <1>4, <2>3, <2>4, LoopIsOnly
<1> HIDE DEF run
<1> QED BY <1>5, <1>8, <1>9

\* Units only pass from the activity to the record.
LEMMA ConsumedFacts ==
  ASSUME unused \in Seq(Closings), NEW record, record.quantity \in Nat
  PROVE  /\ Consumed(record) \in ConsumeRuns
         /\ \A i, id : Between(Consumed(record), record, i, id) = UnitsOf(unused, i, id)
<1>1. PICK f \in [0..Len(unused) -> ConsumeRuns] :
        /\ f[0] = [left |-> << >>, due |-> record.quantity, taken |-> << >>, consistent |-> TRUE]
        /\ \A k \in 1..Len(unused) : f[k] = Drawn(f[k - 1], unused[k], record)
        /\ Consumed(record) = f[Len(unused)]
  BY ConsumedLoop
<1>2. Len(unused) \in Nat
  OBVIOUS
<1>3. \A x \in Closings : x.parts \in Seq(PartRecords)
  BY DEF Closings
<1> DEFINE Done(k) == SubSeq(unused, 1, k)
           Good(k) == \A i, id : Between(f[k], record, i, id) = UnitsOf(Done(k), i, id)
<1>4. Good(0)
  <2>1. Done(0) = << >>
    OBVIOUS
  <2>2. f[0].left = << >> /\ f[0].taken = << >>
    BY <1>1
  <2> HIDE DEF Done
  <2>3. ASSUME NEW i, NEW id PROVE Between(f[0], record, i, id) = UnitsOf(<< >>, i, id)
    <3>1. UnitsOf(<< >>, i, id) = 0
      BY NoThings
    <3>2. UnitsIn(<< >>, id) = 0
      BY UnitsAdd
    <3> QED BY <2>2, <3>1, <3>2 DEF Between
  <2> QED BY <2>1, <2>3
<1>5. ASSUME NEW k \in 1..Len(unused), Good(k - 1) PROVE Good(k)
  <2>1. k - 1 \in 0..Len(unused)
    BY <1>2
  <2>2. unused[k] \in Closings
    OBVIOUS
  <2>3. Done(k) = Append(Done(k - 1), unused[k]) /\ Done(k - 1) \in Seq(Closings)
    OBVIOUS
  <2>4. PICK r, a, d : r = f[k - 1] /\ a = unused[k] /\ d = Done(k - 1)
    OBVIOUS
  <2>5. r \in ConsumeRuns /\ a \in Closings /\ d \in Seq(Closings)
    BY <2>1, <2>2, <2>3, <2>4
  <2>6. f[k] = Drawn(r, a, record)
    BY <1>1, <2>4
  <2>7. \A i, id : Between(r, record, i, id) = UnitsOf(d, i, id)
    BY <1>5, <2>4
  <2>8. Done(k) = Append(d, a)
    BY <2>3, <2>4
  <2> HIDE DEF Done
  <2>9. ASSUME NEW i, NEW id PROVE Between(f[k], record, i, id) = UnitsOf(Append(d, a), i, id)
    <3>1. Between(Drawn(r, a, record), record, i, id)
            = Between(r, record, i, id) + UnitsOfOne(a, i, id)
      BY <2>5, DrawnSteps
    <3>2. UnitsOf(Append(d, a), i, id)
            = UnitsOf(d, i, id) + UnitsOfOne(a, i, id)
      BY <2>5, ClosingsParted, ThingsAdd
    <3> QED BY <2>6, <2>7, <3>1, <3>2
  <2> QED BY <2>8, <2>9
<1>6. \A k \in 0..Len(unused) : Good(k)
  <2> DEFINE S == { k \in 0..Len(unused) : Good(k) }
  <2> HIDE DEF Good
  <2>1. 0 \in S
    BY <1>2, <1>4
  <2>2. \A k \in 1..Len(unused) : k - 1 \in S => k \in S
    BY <1>2, <1>5
  <2>3. \A k \in 0..Len(unused) : k \in S
    <3> HIDE DEF S
    <3> QED BY <1>2, <2>1, <2>2, Upward
  <2> QED BY <2>3
<1>7. Good(Len(unused))
  <2> HIDE DEF Good
  <2> QED BY <1>2, <1>6
<1>8. Done(Len(unused)) = unused
  OBVIOUS
<1>9. Consumed(record) \in ConsumeRuns
  BY <1>1, <1>2
<1> QED BY <1>1, <1>7, <1>8, <1>9

-----------------------------------------------------------------------------
(* Shares of a basis. *)
-----------------------------------------------------------------------------
(* One item of the history applied to a book. *)
AppliedItem(b, item) ==
  IF IsTrade(item) THEN ApplyTrade(b, item, CampaignOf(item)) ELSE ApplyEvent(b, item)

Replayed(b, item) == [AppliedItem(b, item) EXCEPT !.taken = << >>]

\* Trades of a period's history are its own, so that they have a campaign.
IsItem(item) ==
  IF IsTrade(item) THEN item \in TradeRecords /\ CampaignOf(item) \in Owners
  ELSE item \in EventRecords

LEMMA PositionItemTypes ==
  ASSUME input \in Inputs
  PROVE  Len(PositionItems) \in Nat /\ \A n \in 1..Len(PositionItems) : IsItem(PositionItems[n])
<1>1. PICK ts, es : ts = input.trades /\ es = input.events
  OBVIOUS
<1>2. /\ ts \in Seq(TradeRecords) /\ ToSet(ts) \subseteq Members(MonthCampaigns)
      /\ \A trade \in Members(MonthCampaigns) : CampaignOf(trade) \in Campaigns
  BY <1>1, MonthTrades, InputTypes
<1>3. es \in Seq(EventRecords)
  BY <1>1, InputTypes
<1>4. PICK X : X = TradeRecords \cup EventRecords
  OBVIOUS
<1>5. ts \in Seq(X) /\ es \in Seq(X) /\ \A x \in X : x.time \in Nat
  BY <1>2, <1>3, <1>4, ItemKinds
<1>6. PICK line : line = Timeline(ts, es)
  OBVIOUS
<1>7. line \in Seq(X) /\ \A n \in DOMAIN line : line[n] \in ToSet(ts) \cup ToSet(es)
  BY <1>5, <1>6, TimelineItems
<1>8. ASSUME NEW n \in 1..Len(line) PROVE IsItem(line[n])
  <2>1. line[n] \in ToSet(ts) \cup ToSet(es)
    BY <1>7
  <2>2. CASE line[n] \in ToSet(ts)
    <3>1. line[n] \in TradeRecords
      BY <1>2, <2>2 DEF ToSet
    <3>2. CampaignOf(line[n]) \in Owners
      BY <1>2, <2>2 DEF Owners
    <3> QED BY <3>1, <3>2, ItemKinds DEF IsItem
  <2>3. CASE line[n] \in ToSet(es)
    <3>1. line[n] \in EventRecords
      BY <1>3, <2>3 DEF ToSet
    <3> QED BY <3>1, ItemKinds DEF IsItem
  <2> QED BY <2>1, <2>2, <2>3
<1>9. PositionItems = line /\ Len(line) \in Nat
  BY <1>1, <1>6, <1>7 DEF PositionItems
<1> QED BY <1>8, <1>9

LEMMA ReplayedTypes ==
  ASSUME NEW b \in Books, NEW item, IsItem(item)
  PROVE  /\ AppliedItem(b, item) \in Books /\ Replayed(b, item) \in Books
         /\ Replayed(b, item).ok = AppliedItem(b, item).ok
<1>1. AppliedItem(b, item) \in Books
  BY TradeTypes, EventTypes DEF IsItem, AppliedItem
<1>2. PICK a : a = AppliedItem(b, item)
  OBVIOUS
<1>3. Replayed(b, item) = [a EXCEPT !.taken = << >>]
  BY <1>2 DEF Replayed
<1> QED BY <1>1, <1>2, <1>3, TakenReset

LEMMA FreshTypes == ASSUME input \in Inputs PROVE Fresh \in Books /\ Fresh.ok = TRUE
BY InputTypes DEF Fresh, Books

-----------------------------------------------------------------------------
(* The entries of the journal. *)
Entries == [Instruments -> [Owners -> Int]]

JournalRuns == [book : Books, entries : Entries]

LotWeight(c) == [lot \in OpenLots |-> IF lot.campaign = c THEN lot.quantity ELSE 0]

IdWeight(id) == [lot \in OpenLots |-> IF lot.id = id THEN lot.quantity ELSE 0]

ClosedWeight(c) == [lot \in OpenLots |-> IF lot.campaign = c THEN Magnitude(lot.quantity) ELSE 0]

LEMMA LotWeights ==
  ASSUME NEW ls \in Seq(OpenLots), NEW c
  PROVE  /\ LotWeight(c) \in [OpenLots -> Int] /\ IdWeight(c) \in [OpenLots -> Int]
         /\ ClosedWeight(c) \in [OpenLots -> Int]
         /\ OwnedBy(ls, c) = Weight(LotWeight(c), ls)
         /\ Held(ls, c) = Weight(IdWeight(c), ls)
         /\ ClosedFor(ls, c) = Weight(ClosedWeight(c), ls)
<1>1. LotWeight(c) \in [OpenLots -> Int]
  BY DEF LotWeight, OpenLots
<1>2. IdWeight(c) \in [OpenLots -> Int]
  BY DEF IdWeight, OpenLots
<1>3. ClosedWeight(c) \in [OpenLots -> Int]
  BY DEF ClosedWeight, OpenLots, Magnitude
<1>4. \A k \in DOMAIN ls : ls[k] \in OpenLots
  OBVIOUS
<1>5. OwnedBy(ls, c) = Weight(LotWeight(c), ls)
  <2>1. [k \in DOMAIN ls |-> LotWeight(c)[ls[k]]]
          = [k \in DOMAIN ls |-> IF ls[k].campaign = c THEN ls[k].quantity ELSE 0]
    BY <1>4 DEF LotWeight
  <2> QED BY <2>1 DEF OwnedBy, Weight
<1>6. Held(ls, c) = Weight(IdWeight(c), ls)
  <2>1. [k \in DOMAIN ls |-> IdWeight(c)[ls[k]]]
          = [k \in DOMAIN ls |-> IF ls[k].id = c THEN ls[k].quantity ELSE 0]
    BY <1>4 DEF IdWeight
  <2> QED BY <2>1 DEF Held, Weight
<1>7. ClosedFor(ls, c) = Weight(ClosedWeight(c), ls)
  <2>1. [k \in DOMAIN ls |-> ClosedWeight(c)[ls[k]]]
          = [k \in DOMAIN ls |-> IF ls[k].campaign = c THEN Magnitude(ls[k].quantity) ELSE 0]
    BY <1>4 DEF ClosedWeight
  <2> QED BY <2>1 DEF ClosedFor, Weight
<1> QED BY <1>1, <1>2, <1>3, <1>5, <1>6, <1>7

LEMMA LotSumsAreInts ==
  ASSUME NEW ls \in Seq(OpenLots), NEW c
  PROVE  OwnedBy(ls, c) \in Int /\ Held(ls, c) \in Int /\ ClosedFor(ls, c) \in Int
<1>1. PICK u, v, w : u = LotWeight(c) /\ v = IdWeight(c) /\ w = ClosedWeight(c)
  OBVIOUS
<1>2. u \in [OpenLots -> Int] /\ v \in [OpenLots -> Int] /\ w \in [OpenLots -> Int]
  BY <1>1, LotWeights
<1>3. OwnedBy(ls, c) = Weight(u, ls) /\ Held(ls, c) = Weight(v, ls) /\ ClosedFor(ls, c) = Weight(w, ls)
  BY <1>1, LotWeights
<1>4. Weight(u, ls) \in Int /\ Weight(v, ls) \in Int /\ Weight(w, ls) \in Int
  BY <1>2, WeightIs
<1> QED BY <1>3, <1>4

LEMMA NamesFinite ==
  ASSUME NEW ls \in Seq(OpenLots)
  PROVE  IsFiniteSet(NamesOf(ls))
<1>1. PICK f : f = [k \in DOMAIN ls |-> ls[k].id]
  OBVIOUS
<1>2. DOMAIN ls = 1..Len(ls) /\ Len(ls) \in Nat
  OBVIOUS
<1>3. IsFiniteSet(DOMAIN f)
  BY <1>1, <1>2, FS_Interval
<1>4. IsFiniteSet({ f[x] : x \in DOMAIN f })
  BY <1>3, FiniteImage
<1>5. { f[x] : x \in DOMAIN f } = NamesOf(ls)
  BY <1>1 DEF NamesOf
<1> QED BY <1>4, <1>5

LEMMA GainTypes ==
  ASSUME NEW before \in Seq(OpenLots), NEW after \in Seq(OpenLots), NEW c
  PROVE  GainOf(before, after, c) \in Int
<1>1. PICK names : names = { n \in NamesOf(before) \cup NamesOf(after) : c \in Holders(before, after, n) }
  OBVIOUS
<1>2. IsFiniteSet(names)
  <2>1. IsFiniteSet(NamesOf(before) \cup NamesOf(after))
    BY NamesFinite, FS_Union
  <2> QED BY <1>1, <2>1, FS_Subset
<1>3. PICK f : f = [id \in names |-> Held(after, id) - Held(before, id)]
  OBVIOUS
<1>4. DOMAIN f = names /\ f \in [DOMAIN f -> Int]
  BY <1>3, LotSumsAreInts
<1>5. SumFunction(f) \in Int
  BY <1>2, <1>4, SumOverInt
<1>6. GainOf(before, after, c) = SumFunction(f)
  BY <1>1, <1>3 DEF GainOf
<1> QED BY <1>5, <1>6

LEMMA LegGainTypes ==
  ASSUME NEW trade, NEW leg \in LegRecords, NEW taken \in Seq(OpenLots), NEW c
  PROVE  LegGain(trade, leg, taken, c) \in Int
<1>1. Executed(leg) \in Int /\ ClosedFor(taken, c) \in Int
  BY ExecutedTypes, LotSumsAreInts
<1>2. PICK x, y : x = Executed(leg) /\ y = ClosedFor(taken, c)
  OBVIOUS
<1>3. x \in Int /\ y \in Int
  BY <1>1, <1>2
<1> QED BY <1>2, <1>3 DEF LegGain

LEMMA EntryTypes ==
  ASSUME NEW e \in Entries, NEW i \in Instruments, NEW g \in [Owners -> Int]
  PROVE  [e EXCEPT ![i] = [c \in Owners |-> e[i][c] + g[c]]] \in Entries
<1>1. [c \in Owners |-> e[i][c] + g[c]] \in [Owners -> Int]
  BY DEF Entries
<1> QED BY <1>1 DEF Entries

LEMMA JournalLegTypes ==
  ASSUME NEW r \in JournalRuns, NEW trade \in TradeRecords, CampaignOf(trade) \in Owners,
         NEW leg \in LegRecords
  PROVE  JournalLeg(r, trade, leg) \in JournalRuns
<1>1. r.book \in Books /\ r.entries \in Entries
  BY DEF JournalRuns
<1>2. CASE ~r.book.ok
  BY <1>2 DEF JournalLeg
<1>3. CASE r.book.ok
  <2>1. PICK b : b = [r.book EXCEPT !.taken = << >>]
    OBVIOUS
  <2>2. b \in Books
    BY <1>1, <2>1, TakenReset
  <2>3. PICK after : after = ApplyLeg(b, leg, trade.time, CampaignOf(trade))
    OBVIOUS
  <2>4. trade.time \in Nat
    BY DEF TradeRecords
  <2>5. after \in Books
    BY <2>2, <2>3, <2>4, ApplyLegTypes
  <2>6. after.taken \in Seq(OpenLots)
    BY <2>5, BookFields
  <2>7. PICK g, i, e : /\ g = [c \in Owners |-> LegGain(trade, leg, after.taken, c)]
                       /\ i = leg.instrument /\ e = r.entries
    OBVIOUS
  <2>8. g \in [Owners -> Int]
    BY <2>6, <2>7, LegGainTypes
  <2>9. i \in Instruments /\ e \in Entries
    BY <1>1, <2>7, ExecutedTypes
  <2>10. [e EXCEPT ![i] = [c \in Owners |-> e[i][c] + g[c]]] \in Entries
    BY <2>8, <2>9, EntryTypes
  <2>11. [c \in Owners |-> e[i][c] + g[c]]
           = [c \in Owners |-> r.entries[i][c] + LegGain(trade, leg, after.taken, c)]
    BY <2>7
  <2>12. JournalLeg(r, trade, leg)
           = [book |-> after, entries |-> [e EXCEPT ![i] = [c \in Owners |-> e[i][c] + g[c]]]]
    BY <1>3, <2>1, <2>3, <2>7, <2>11 DEF JournalLeg
  <2> QED BY <2>5, <2>10, <2>12 DEF JournalRuns
<1> QED BY <1>2, <1>3

LEMMA JournalTradeLoop ==
  ASSUME NEW start \in JournalRuns, NEW trade \in TradeRecords, CampaignOf(trade) \in Owners
  PROVE  \E f \in [0..Len(trade.legs) -> JournalRuns] :
           /\ f[0] = start
           /\ \A k \in 1..Len(trade.legs) : f[k] = JournalLeg(f[k - 1], trade, trade.legs[k])
           /\ JournalTrade(start, trade) = f[Len(trade.legs)]
<1> DEFINE n == Len(trade.legs)
           base == start
           next == [kr \in (1..n) \X JournalRuns |-> JournalLeg(kr[2], trade, trade.legs[kr[1]])]
           Solves(g) == g = [k \in 0..n |-> IF k = 0 THEN base ELSE JournalLeg(g[k - 1], trade, trade.legs[k])]
           run == CHOOSE g : Solves(g)
<1>1. n \in Nat /\ base \in JournalRuns
  BY DEF TradeRecords
<1>2. ASSUME NEW k \in 1..n, NEW r \in JournalRuns PROVE JournalLeg(r, trade, trade.legs[k]) \in JournalRuns
  <2>1. trade.legs[k] \in LegRecords
    BY DEF TradeRecords
  <2> QED BY <2>1, JournalLegTypes
<1>3. next \in [(1..n) \X JournalRuns -> JournalRuns]
  BY <1>2
<1>4. PICK f : IsLoop(f, n, JournalRuns, base, next)
  <2> HIDE DEF n, base, next
  <2> QED BY <1>1, <1>3, LoopExists
<1>5. /\ f \in [0..n -> JournalRuns] /\ f[0] = base
      /\ \A k \in 1..n : f[k] = JournalLeg(f[k - 1], trade, trade.legs[k])
  BY <1>4 DEF IsLoop
<1>6. Solves(f)
  BY <1>5
<1>7. Solves(run)
  <2> HIDE DEF Solves
  <2> QED BY <1>6
<1>8. JournalTrade(start, trade) = run[n]
  BY DEF JournalTrade
<1>9. run[n] = f[n]
  <2> HIDE DEF run, n
  <2>1. 0 \in 0..n /\ \A k \in 1..n : k \in 0..n /\ k # 0
    BY <1>1
  <2>2. run[0] = base /\ \A k \in 1..n : run[k] = JournalLeg(run[k - 1], trade, trade.legs[k])
    BY <1>7, <2>1
  <2>3. Follows(run, n, JournalRuns, base, next)
    BY <2>2 DEF Follows
  <2> HIDE DEF base, next
  <2> QED BY <1>1, <1>4, <2>3, LoopIsOnly
<1> HIDE DEF run
<1> QED BY <1>5, <1>8, <1>9

LEMMA JournaledTrade ==
  ASSUME NEW item, IsTrade(item)
  PROVE  Journaled(item) = JournalTrade([book |-> book, entries |-> journal], item)
BY DEF Journaled

LEMMA JournaledEvent ==
  ASSUME NEW item, ~IsTrade(item)
  PROVE  Journaled(item)
           = [book |-> ApplyEvent(book, item),
              entries |-> [i \in Instruments |->
                IF i \notin { ch.instrument : ch \in ToSet(item.changes) } THEN journal[i]
                ELSE [c \in Owners |-> journal[i][c]
                        + GainOf(book.lots[i], ApplyEvent(book, item).lots[i], c)]]]
BY DEF Journaled

LEMMA JournaledTypes ==
  ASSUME book \in Books, journal \in Entries, NEW item, IsItem(item)
  PROVE  Journaled(item) \in JournalRuns
<1>1. CASE IsTrade(item)
  <2>1. PICK start : start = [book |-> book, entries |-> journal]
    OBVIOUS
  <2>2. start \in JournalRuns /\ item \in TradeRecords /\ CampaignOf(item) \in Owners
    BY <1>1, <2>1 DEF JournalRuns, IsItem
  <2>3. PICK f \in [0..Len(item.legs) -> JournalRuns] :
          /\ f[0] = start
          /\ \A k \in 1..Len(item.legs) : f[k] = JournalLeg(f[k - 1], item, item.legs[k])
          /\ JournalTrade(start, item) = f[Len(item.legs)]
    BY <2>2, JournalTradeLoop
  <2>4. Len(item.legs) \in 0..Len(item.legs)
    BY <2>2 DEF TradeRecords
  <2> QED BY <1>1, <2>1, <2>3, <2>4, JournaledTrade
<1>2. CASE ~IsTrade(item)
  <2>1. PICK ended : ended = ApplyEvent(book, item)
    OBVIOUS
  <2>2. ended \in Books
    BY <1>2, <2>1, EventTypes DEF IsItem
  <2>3. PICK S, entries :
          /\ S = { ch.instrument : ch \in ToSet(item.changes) }
          /\ entries = [i \in Instruments |->
               IF i \notin S THEN journal[i]
               ELSE [c \in Owners |-> journal[i][c] + GainOf(book.lots[i], ended.lots[i], c)]]
    OBVIOUS
  <2>4. ASSUME NEW i \in Instruments
        PROVE  [c \in Owners |-> journal[i][c] + GainOf(book.lots[i], ended.lots[i], c)] \in [Owners -> Int]
    <3>1. book.lots[i] \in Seq(OpenLots) /\ ended.lots[i] \in Seq(OpenLots)
      BY <2>2, BookFields
    <3>2. \A c \in Owners : GainOf(book.lots[i], ended.lots[i], c) \in Int
      BY <3>1, GainTypes
    <3>3. \A c \in Owners : journal[i][c] \in Int
      BY DEF Entries
    <3> QED BY <3>2, <3>3
  <2>5. \A i \in Instruments : journal[i] \in [Owners -> Int]
    BY DEF Entries
  <2>6. entries \in Entries
    BY <2>3, <2>4, <2>5 DEF Entries
  <2>7. Journaled(item) = [book |-> ended, entries |-> entries]
    BY <1>2, <2>1, <2>3, JournaledEvent
  <2> QED BY <2>2, <2>6, <2>7 DEF JournalRuns
<1> QED BY <1>1, <1>2

-----------------------------------------------------------------------------
(* Type correctness. *)
Results ==
  { r \in [record : Records, parts : Seq(PartRecords), basis : Seq(Int)] :
      r.basis # << >> => /\ r.parts # << >> /\ r.basis = BasisShares(r.parts, r.record.basis)
                         /\ \A n \in DOMAIN r.basis : r.basis[n] >= 0 }

Stages == {"apply", "attribute", "match", "journal", "captured", "refused"}

\* Books hold lots and no allocations between two steps, an activity never has
\* more allocated than was closed, and a basis is divided by the one rule.
Typed ==
  /\ input \in Inputs /\ stage \in Stages /\ at \in Nat \ {0}
  /\ book \in Books /\ ending \in Books
  /\ closures \in Seq(ClosureRecs) /\ planned \in Seq(ClosureRecs)
  /\ activities \in Seq(Closings) /\ unused \in Seq(Closings)
  /\ results \in Seq(Results)
  /\ journal \in Entries

LEMMA RecordTypes ==
  ASSUME NEW record \in Records
  PROVE  record.quantity \in Nat /\ record.basis \in Int
BY EvidenceAssumption

LEMMA SharesAreInts ==
  ASSUME NEW parts \in Seq(PartRecords), NEW basis \in Int
  PROVE  /\ BasisShares(parts, basis) \in Seq(Int)
         /\ BasisShares(parts, basis) # << >> => parts # << >>
<1>1. CASE parts = << >>
  <2>1. PICK s : s = BasisShares(parts, basis)
    OBVIOUS
  <2>2. s = << >>
    BY <1>1, <2>1, SharesOfNothing
  <2> QED BY <2>1, <2>2
<1>2. CASE parts # << >>
  BY <1>2, PartsPositive, PartsQuantified, SharesInProportion
<1> QED BY <1>1, <1>2

LEMMA CarriedTypes == ASSUME input \in Inputs PROVE Carried \in Entries
<1>1. \A i \in Instruments : input.lots[i] \in Seq(OpenLots)
  BY InputTypes
<1>2. \A i \in Instruments : \A c \in Owners : OwnedBy(input.lots[i], c) \in Int
  BY <1>1, LotSumsAreInts
<1> QED BY <1>2 DEF Carried, Entries

LEMMA InitTyped == Init => Typed
<1> SUFFICES ASSUME Init PROVE Typed
  OBVIOUS
<1>1. input \in Inputs /\ stage = "apply" /\ at = 1 /\ book = Fresh /\ ending = Fresh
  BY DEF Init
<1>2. /\ closures = << >> /\ planned = << >> /\ activities = << >> /\ unused = << >>
      /\ results = << >> /\ journal = Nowhere
  BY DEF Init
<1>3. Fresh \in Books
  BY <1>1, FreshTypes
<1>4. Nowhere \in Entries
  BY DEF Nowhere, Entries
<1> QED BY <1>1, <1>2, <1>3, <1>4 DEF Typed, Stages

LEMMA NextTyped == Typed /\ [Next]_vars => Typed'
<1> SUFFICES ASSUME Typed, [Next]_vars PROVE Typed'
  OBVIOUS
<1>1. /\ input \in Inputs /\ stage \in Stages /\ at \in Nat \ {0}
      /\ book \in Books /\ ending \in Books
      /\ closures \in Seq(ClosureRecs) /\ planned \in Seq(ClosureRecs)
      /\ activities \in Seq(Closings) /\ unused \in Seq(Closings)
      /\ results \in Seq(Results) /\ journal \in Entries
  BY DEF Typed
<1>2. /\ Len(PositionItems) \in Nat /\ \A n \in 1..Len(PositionItems) : IsItem(PositionItems[n])
  BY <1>1, PositionItemTypes
<1>3. Fresh \in Books
  BY <1>1, FreshTypes
<1>4. ASSUME ApplyItem PROVE Typed'
  <2>1. PICK item : item = PositionItems[at]
    OBVIOUS
  <2>2. IsItem(item)
    BY <1>1, <1>2, <1>4, <2>1 DEF ApplyItem
  <2>3. PICK after : after = AppliedItem(book, item)
    OBVIOUS
  <2>4. book' = [after EXCEPT !.taken = << >>] /\ at' = at + 1
    BY <1>4, <2>1, <2>3 DEF ApplyItem, AppliedItem
  <2>5. book' \in Books
    BY <1>1, <2>2, <2>3, <2>4, ReplayedTypes DEF Replayed
  <2>6. stage' \in Stages
    BY <1>4 DEF ApplyItem, Continue, Refuse, Stages
  <2>7. UNCHANGED << input, ending, attribution, journal >>
    BY <1>4 DEF ApplyItem
  <2>8. at' \in Nat \ {0}
    BY <1>1, <2>4
  <2> QED BY <1>1, <2>5, <2>6, <2>7, <2>8 DEF Typed, attribution
<1>5. ASSUME StartAttribution PROVE Typed'
  <2>1. /\ ending' = book /\ book' = Fresh /\ at' = 1
        /\ closures' = ClosuresOf(AttributedEvents)
        /\ planned' = IF input.variant = "month" THEN Planned ELSE << >>
        /\ UNCHANGED << input, activities, unused, results, journal >>
    BY <1>5 DEF StartAttribution
  <2>2. stage' \in Stages
    BY <1>5 DEF StartAttribution, Continue, Refuse, Stages
  <2>3. AttributedEvents \in Seq(EventRecords)
    BY <1>1, InputTypes DEF AttributedEvents
  <2>4. ClosuresOf(AttributedEvents) \in Seq(ClosureRecs)
    BY <2>3, ClosuresTypes
  <2>5. Planned \in Seq(ClosureRecs)
    BY <1>1, PlannedTypes
  <2>6. planned' \in Seq(ClosureRecs)
    BY <2>1, <2>5
  <2> QED BY <1>1, <1>3, <2>1, <2>2, <2>4, <2>6 DEF Typed
<1>6. ASSUME AttributeItem PROVE Typed'
  <2>1. PICK item : item = AttributedItems[at]
    OBVIOUS
  <2>2. at \in 1..Len(AttributedItems)
    BY <1>1, <1>6, AttributedItemTypes DEF AttributeItem
  <2>3. IF IsTrade(item) THEN item \in TradeRecords /\ CampaignOf(item) \in Owners
        ELSE item \in EventRecords
    BY <1>1, <2>1, <2>2, AttributedItemTypes
  <2>4. PICK r : r = Attributed(item)
    OBVIOUS
  <2>5. r \in AttributeRuns
    BY <1>1, <2>3, <2>4, AttributedTypes
  <2>6. r.book \in Books /\ r.closures \in Seq(ClosureRecs) /\ r.found \in Seq(Closings)
    BY <2>5 DEF AttributeRuns
  <2>7. /\ book' = [r.book EXCEPT !.taken = << >>] /\ closures' = r.closures
        /\ activities' = r.found /\ at' = at + 1
        /\ UNCHANGED << input, ending, planned, unused, results, journal >>
    BY <1>6, <2>1, <2>4 DEF AttributeItem
  <2>8. book' \in Books
    BY <2>6, <2>7, TakenReset
  <2>9. stage' \in Stages
    BY <1>6 DEF AttributeItem, Continue, Refuse, Stages
  <2>10. at' \in Nat \ {0}
    BY <1>1, <2>7
  <2> QED BY <1>1, <2>6, <2>7, <2>8, <2>9, <2>10 DEF Typed
<1>7. ASSUME StartMatching PROVE Typed'
  BY <1>1, <1>7 DEF StartMatching, Typed, Stages
<1>8. ASSUME MatchRecord PROVE Typed'
  <2>1. PICK record \in Records :
          LET r == Consumed(record)
              raised == RaisedBy(record)
          IN /\ unused' = IF raised = "ambiguous" THEN unused ELSE r.left
             /\ results' = Append(results,
                  [record |-> record,
                   parts |-> IF raised = "ambiguous" THEN << >> ELSE r.taken,
                   basis |-> IF raised = "none" THEN BasisShares(r.taken, record.basis) ELSE << >>])
             /\ Continue(raised = "none", "match", raised)
    BY <1>8 DEF MatchRecord
  <2>2. record.quantity \in Nat /\ record.basis \in Int
    BY RecordTypes
  <2>3. PICK r, shares, raised :
          r = Consumed(record) /\ shares = BasisShares(r.taken, record.basis) /\ raised = RaisedBy(record)
    OBVIOUS
  <2>4. r \in ConsumeRuns
    BY <1>1, <2>2, <2>3, ConsumedFacts
  <2>5. r.left \in Seq(Closings) /\ r.taken \in Seq(PartRecords)
    BY <2>4 DEF ConsumeRuns
  <2>6. shares \in Seq(Int) /\ (shares # << >> => r.taken # << >>)
    BY <2>2, <2>3, <2>5, SharesAreInts
  <2>7. PICK result :
          result = [record |-> record,
                    parts |-> IF raised = "ambiguous" THEN << >> ELSE r.taken,
                    basis |-> IF raised = "none" THEN shares ELSE << >>]
    OBVIOUS
  <2>8. result \in Results
    <3>1. /\ result.record = record
          /\ result.parts = IF raised = "ambiguous" THEN << >> ELSE r.taken
          /\ result.basis = IF raised = "none" THEN shares ELSE << >>
      BY <2>7
    <3>2. result.parts \in Seq(PartRecords) /\ result.basis \in Seq(Int)
      BY <2>5, <2>6, <3>1
    <3>3. result \in [record : Records, parts : Seq(PartRecords), basis : Seq(Int)]
      BY <2>7, <3>1, <3>2
    <3>4. result.basis # << >> => result.parts = r.taken /\ result.basis = shares
      BY <3>1
    <3>5. raised = "none" => \A n \in DOMAIN shares : shares[n] >= 0
      <4>1. SUFFICES ASSUME raised = "none", NEW n \in DOMAIN shares PROVE shares[n] >= 0
        OBVIOUS
      <4>2. ~(\E share \in ToSet(shares) : share < 0)
        BY <2>3, <4>1 DEF RaisedBy
      <4>3. shares[n] \in ToSet(shares) /\ shares[n] \in Int
        BY <2>6 DEF ToSet
      <4> QED BY <4>2, <4>3
    <3> QED BY <2>3, <2>6, <3>1, <3>3, <3>4, <3>5 DEF Results
  <2>9. results' = Append(results, result) /\ unused' = IF raised = "ambiguous" THEN unused ELSE r.left
    BY <2>1, <2>3, <2>7
  <2>10. results' \in Seq(Results) /\ unused' \in Seq(Closings)
    BY <1>1, <2>5, <2>8, <2>9
  <2>11. stage' \in Stages
    BY <2>1 DEF Continue, Refuse, Stages
  <2>12. UNCHANGED << input, at, book, ending, planned, closures, activities, journal >>
    BY <1>8 DEF MatchRecord
  <2> QED BY <1>1, <2>10, <2>11, <2>12 DEF Typed
<1>9. ASSUME StartJournal PROVE Typed'
  <2>1. Carried \in Entries
    BY <1>1, CarriedTypes
  <2>2. /\ stage' = "journal" /\ at' = 1 /\ book' = Fresh /\ journal' = Carried
        /\ UNCHANGED << input, ending, attribution >>
    BY <1>9 DEF StartJournal
  <2> QED BY <1>1, <1>3, <2>1, <2>2 DEF Typed, attribution, Stages
<1>10. ASSUME JournalItem PROVE Typed'
  <2>1. PICK item : item = PositionItems[at]
    OBVIOUS
  <2>2. IsItem(item)
    BY <1>1, <1>2, <1>10, <2>1 DEF JournalItem
  <2>3. PICK r : r = Journaled(item)
    OBVIOUS
  <2>4. r \in JournalRuns
    BY <1>1, <2>2, <2>3, JournaledTypes
  <2>5. r.book \in Books /\ r.entries \in Entries
    BY <2>4 DEF JournalRuns
  <2>6. /\ book' = [r.book EXCEPT !.taken = << >>] /\ journal' = r.entries /\ at' = at + 1
        /\ UNCHANGED << input, ending, attribution >>
    BY <1>10, <2>1, <2>3 DEF JournalItem
  <2>7. book' \in Books
    BY <2>5, <2>6, TakenReset
  <2>8. stage' \in Stages
    BY <1>10 DEF JournalItem, Continue, Refuse, Stages
  <2>9. at' \in Nat \ {0}
    BY <1>1, <2>6
  <2> QED BY <1>1, <2>5, <2>6, <2>7, <2>8, <2>9 DEF Typed, attribution
<1>11. ASSUME CheckJournal PROVE Typed'
  <2>1. stage' \in Stages
    BY <1>11 DEF CheckJournal, Continue, Refuse, Stages
  <2>2. UNCHANGED << input, at, book, ending, attribution, journal >>
    BY <1>11 DEF CheckJournal
  <2> QED BY <1>1, <2>1, <2>2 DEF Typed, attribution
<1>12. ASSUME UNCHANGED vars PROVE Typed'
  BY <1>1, <1>12 DEF vars, attribution, Typed
<1> QED BY <1>4, <1>5, <1>6, <1>7, <1>8, <1>9, <1>10, <1>11, <1>12 DEF Next, Finished

\* The state is always well formed: both replays keep books whose open lots have
\* whole non-zero quantities and known campaigns (LotBook._close and _append),
\* the closing activities and their parts are positive, the records' results
\* divide what they took, and the journal holds a number for every campaign.
THEOREM AlwaysTyped == Spec => []Typed
BY InitTyped, NextTyped, PTL DEF Spec

-----------------------------------------------------------------------------
(* The basis of a record. *)
LEMMA DividedWhenTyped == Typed => BasisDividedInProportion
<1> SUFFICES ASSUME Typed, NEW k \in DOMAIN results, results[k].basis # << >>
             PROVE  LET parts == results[k].parts
                        basis == results[k].basis
                        total == SumQuantities(parts)
                        Off(n) == Magnitude(2 * (total * basis[n] - results[k].record.basis * parts[n].quantity))
                    IN /\ Total(basis) = results[k].record.basis
                       /\ \A n \in DOMAIN parts :
                            basis[n] >= 0 /\ Off(n) <= IF n < Len(parts) THEN total ELSE total * (Len(parts) - 1)
  BY DEF BasisDividedInProportion
<1>1. results[k] \in Results
  BY DEF Typed
<1>2. PICK parts, basis, whole :
        parts = results[k].parts /\ basis = results[k].basis /\ whole = results[k].record.basis
  OBVIOUS
<1>3. parts \in Seq(PartRecords) /\ parts # << >> /\ basis = BasisShares(parts, whole)
  BY <1>1, <1>2 DEF Results
<1>4. whole \in Int
  BY <1>1, <1>2, RecordTypes DEF Results
<1>5. PICK T : T = SumQuantities(parts)
  OBVIOUS
<1>6. /\ basis \in Seq(Int) /\ Len(basis) = Len(parts)
      /\ Total(basis) = whole
      /\ \A n \in 1..Len(parts) :
           LET off == 2 * (T * basis[n] - whole * parts[n].quantity)
               most == IF n < Len(parts) THEN T ELSE T * (Len(parts) - 1)
           IN -most <= off /\ off <= most
  <2>1. Quantified(PartRecords) /\ SumQuantities(parts) \in Nat \ {0}
    BY <1>3, <1>4, PartsPositive, PartsQuantified
  <2> QED BY <1>3, <1>4, <1>5, <2>1, SharesInProportion
<1>7. T \in Int
  BY <1>3, <1>5, PartsPositive
<1>9. ASSUME NEW n \in DOMAIN parts PROVE basis[n] >= 0
  <2>1. \A j \in DOMAIN results[k].basis : results[k].basis[j] >= 0
    BY <1>1 DEF Results
  <2>2. DOMAIN basis = 1..Len(basis) /\ DOMAIN parts = 1..Len(parts)
    BY <1>3, <1>6
  <2>3. n \in DOMAIN basis
    BY <1>6, <2>2
  <2> QED BY <1>2, <2>1, <2>3
<1>8. ASSUME NEW n \in DOMAIN parts
      PROVE  Magnitude(2 * (T * basis[n] - whole * parts[n].quantity))
               <= IF n < Len(parts) THEN T ELSE T * (Len(parts) - 1)
  <2>1. n \in 1..Len(parts) /\ Len(parts) \in Nat
    BY <1>3
  <2>2. parts[n].quantity \in Int
    <3>1. parts[n] \in PartRecords
      BY <1>3, <2>1
    <3> QED BY <3>1 DEF PartRecords
  <2>3. PICK b, q : b = basis[n] /\ q = parts[n].quantity
    OBVIOUS
  <2>4. b \in Int /\ q \in Int
    BY <1>6, <2>1, <2>2, <2>3
  <2>5. PICK off, most : /\ off = 2 * (T * b - whole * q)
                         /\ most = IF n < Len(parts) THEN T ELSE T * (Len(parts) - 1)
    OBVIOUS
  <2>6. off \in Int /\ most \in Int
    BY <1>4, <1>7, <2>1, <2>4, <2>5
  <2>7. -most <= off /\ off <= most
    BY <1>6, <2>1, <2>3, <2>5
  <2>8. Magnitude(off) <= most
    BY <2>6, <2>7 DEF Magnitude
  <2> QED BY <2>3, <2>5, <2>8
<1> QED BY <1>2, <1>5, <1>6, <1>8, <1>9

\* apply_realized_basis: the shares of every record's basis add up to it, none
\* is negative, and each is off its exact proportion by rounding alone.
THEOREM BasisIsDivided == Spec => []BasisDividedInProportion
BY AlwaysTyped, DividedWhenTyped, PTL

-----------------------------------------------------------------------------
(* Records divide the closing activity. *)
LEMMA MatchingConserves ==
  ASSUME Typed, [Next]_vars, stage = "match", NEW i, NEW id
  PROVE  UnitsOf(Attributions \o unused, i, id)' = UnitsOf(Attributions \o unused, i, id)
<1>1. unused \in Seq(Closings) /\ results \in Seq(Results)
  BY DEF Typed
<1>2. CASE MatchRecord
  <2>1. PICK record \in Records :
          LET r == Consumed(record)
              raised == RaisedBy(record)
          IN /\ unused' = IF raised = "ambiguous" THEN unused ELSE r.left
             /\ results' = Append(results,
                  [record |-> record,
                   parts |-> IF raised = "ambiguous" THEN << >> ELSE r.taken,
                   basis |-> IF raised = "none" THEN BasisShares(r.taken, record.basis) ELSE << >>])
    BY <1>2 DEF MatchRecord
  <2>2. record.quantity \in Nat
    BY RecordTypes
  <2>3. PICK r, raised : r = Consumed(record) /\ raised = RaisedBy(record)
    OBVIOUS
  <2>4. r \in ConsumeRuns /\ Between(r, record, i, id) = UnitsOf(unused, i, id)
    BY <1>1, <2>2, <2>3, ConsumedFacts
  <2>5. r.left \in Seq(Closings) /\ r.taken \in Seq(PartRecords)
    BY <2>4 DEF ConsumeRuns
  <2>6. PICK parts : parts = IF raised = "ambiguous" THEN << >> ELSE r.taken
    OBVIOUS
  <2>7. parts \in Seq(PartRecords)
    BY <2>5, <2>6
  <2>8. PICK b : results' = Append(results, [record |-> record, parts |-> parts, basis |-> b])
    BY <2>1, <2>3, <2>6
  <2>9. PICK share : share = [instrument |-> Contract(record), parts |-> parts]
    OBVIOUS
  <2>10. PICK X : X = Closings \cup ToSet(Attributions) \cup {share}
    OBVIOUS
  <2>11. Attributions \in Seq(ToSet(Attributions))
    <3>1. DOMAIN Attributions = 1..Len(results) /\ Len(results) \in Nat
      BY <1>1 DEF Attributions
    <3>2. PICK s : s = Attributions
      OBVIOUS
    <3>3. s = [k \in 1..Len(results) |-> s[k]] /\ DOMAIN s = 1..Len(results)
      BY <3>1, <3>2 DEF Attributions
    <3>4. \A k \in 1..Len(results) : s[k] \in ToSet(s)
      BY <3>3 DEF ToSet
    <3> QED BY <3>1, <3>2, <3>3, <3>4
  <2>12. Parted(X)
    <3>1. ASSUME NEW x \in ToSet(Attributions) PROVE x.parts \in Seq(PartRecords)
      <4>1. PICK k \in DOMAIN results : x = [instrument |-> Contract(results[k].record),
                                             parts |-> results[k].parts]
        BY DEF ToSet, Attributions
      <4>2. results[k] \in Results
        BY <1>1
      <4>3. results[k].parts \in Seq(PartRecords)
        BY <4>2 DEF Results
      <4> QED BY <4>1, <4>3
    <3>2. share.parts \in Seq(PartRecords)
      BY <2>7, <2>9
    <3>3. \A x \in Closings : x.parts \in Seq(PartRecords)
      BY ClosingsParted DEF Parted
    <3> QED BY <2>10, <3>1, <3>2, <3>3 DEF Parted
  <2>13. PICK old, new, left : old = Attributions /\ new = unused /\ left = unused'
    OBVIOUS
  <2>14. old \in Seq(X) /\ new \in Seq(X) /\ left \in Seq(X) /\ share \in X
    <3>1. left \in Seq(Closings)
      BY <1>1, <2>1, <2>3, <2>5, <2>13
    <3> QED BY <1>1, <2>10, <2>11, <2>13, <3>1
  <2>15. Attributions' = Append(old, share)
    <3>1. input' = input
      BY <1>2 DEF MatchRecord
    <3>2. \A record_ : Contract(record_)' = Contract(record_)
      BY <3>1 DEF Contract
    <3>3. Len(results) \in Nat /\ DOMAIN results = 1..Len(results)
      BY <1>1
    <3>4. DOMAIN results' = 1..(Len(results) + 1)
      BY <1>1, <2>8
    <3>5. \A k \in 1..Len(results) : results'[k] = results[k]
      BY <1>1, <2>8
    <3>6. results'[Len(results) + 1] = [record |-> record, parts |-> parts, basis |-> b]
      BY <1>1, <2>8
    <3>7. Attributions' = [k \in 1..(Len(results) + 1) |->
                             [instrument |-> Contract(results'[k].record), parts |-> results'[k].parts]]
      BY <3>2, <3>4 DEF Attributions
    <3>8. Len(old) = Len(results) /\ \A k \in 1..Len(results) :
            old[k] = [instrument |-> Contract(results[k].record), parts |-> results[k].parts]
      BY <2>13, <3>3 DEF Attributions
    <3>9. Append(old, share) = [k \in 1..(Len(results) + 1) |-> IF k <= Len(results) THEN old[k] ELSE share]
      <4>1. PICK a : a = Append(old, share)
        OBVIOUS
      <4>2. a \in Seq(X) /\ Len(a) = Len(results) + 1
        BY <2>14, <3>8, <4>1
      <4>3. a = [k \in 1..(Len(results) + 1) |-> a[k]]
        BY <4>2
      <4>4. ASSUME NEW k \in 1..(Len(results) + 1)
            PROVE  a[k] = IF k <= Len(results) THEN old[k] ELSE share
        BY <2>14, <3>3, <3>8, <4>1
      <4> QED BY <4>1, <4>3, <4>4
    <3>10. ASSUME NEW k \in 1..(Len(results) + 1)
           PROVE  [instrument |-> Contract(results'[k].record), parts |-> results'[k].parts]
                    = IF k <= Len(results) THEN old[k] ELSE share
      <4>1. CASE k \in 1..Len(results)
        BY <3>3, <3>5, <3>8, <4>1
      <4>2. CASE k = Len(results) + 1
        BY <2>9, <3>3, <3>6, <4>2
      <4> QED BY <3>3, <4>1, <4>2
    <3> QED BY <3>7, <3>9, <3>10
  <2>16. UnitsOf(old \o new, i, id) = UnitsOf(old, i, id) + UnitsOf(new, i, id)
    BY <2>12, <2>14, ThingsJoined
  <2>17. PICK more : more = Append(old, share)
    OBVIOUS
  <2>18. more \in Seq(X)
    BY <2>14, <2>17
  <2>19. UnitsOf(more \o left, i, id) = UnitsOf(more, i, id) + UnitsOf(left, i, id)
    BY <2>12, <2>14, <2>18, ThingsJoined
  <2>20. UnitsOf(more, i, id) = UnitsOf(old, i, id) + UnitsOfOne(share, i, id)
    BY <2>12, <2>14, <2>17, ThingAdded
  <2>21. /\ UnitsOf(old, i, id) \in Int /\ UnitsOf(new, i, id) \in Int
         /\ UnitsOf(left, i, id) \in Int
    BY <2>12, <2>14, ThingsAdd
  <2>22. UnitsOfOne(share, i, id) = IF Contract(record) = i THEN UnitsIn(parts, id) ELSE 0
    BY <2>9 DEF UnitsOfOne
  <2>23. UnitsIn(parts, id) \in Int
    BY <2>7, UnitsAdd
  <2>24. UnitsOfOne(share, i, id) + UnitsOf(left, i, id) = UnitsOf(new, i, id)
    <3>1. CASE raised = "ambiguous"
      <4>1. left = new /\ parts = << >>
        BY <2>1, <2>3, <2>6, <2>13, <3>1
      <4>2. UnitsIn(parts, id) = 0
        BY <4>1, UnitsAdd
      <4>3. UnitsOfOne(share, i, id) = 0
        BY <2>22, <4>2
      <4> QED BY <2>21, <4>1, <4>3
    <3>2. CASE raised # "ambiguous"
      <4>1. left = r.left /\ parts = r.taken
        BY <2>1, <2>3, <2>6, <2>13, <3>2
      <4>2. UnitsOf(r.left, i, id) + (IF Contract(record) = i THEN UnitsIn(r.taken, id) ELSE 0)
              = UnitsOf(new, i, id)
        BY <2>4, <2>13 DEF Between
      <4>3. UnitsOf(left, i, id) + UnitsOfOne(share, i, id) = UnitsOf(new, i, id)
        BY <2>22, <4>1, <4>2
      <4>4. UnitsOfOne(share, i, id) \in Int
        BY <2>22, <2>23
      <4> QED BY <2>21, <4>3, <4>4
    <3> QED BY <3>1, <3>2
  <2>25. UnitsOfOne(share, i, id) \in Int
    BY <2>22, <2>23
  <2>26. UnitsOf(more \o left, i, id) = UnitsOf(old \o new, i, id)
    BY <2>16, <2>19, <2>20, <2>21, <2>24, <2>25
  <2> QED BY <2>13, <2>15, <2>17, <2>26
<1>3. CASE UNCHANGED << input, results, unused >>
  <2>1. Attributions' = Attributions
    BY <1>3 DEF Attributions, Contract
  <2> QED BY <1>3, <2>1
<1>4. MatchRecord \/ UNCHANGED << input, results, unused >>
  <2>1. ~ApplyItem /\ ~StartAttribution /\ ~AttributeItem /\ ~StartMatching /\ ~JournalItem
        /\ ~CheckJournal
    BY DEF ApplyItem, StartAttribution, AttributeItem, StartMatching, JournalItem, CheckJournal
  <2>2. CASE StartJournal
    BY <2>2 DEF StartJournal, attribution
  <2>3. CASE UNCHANGED vars
    BY <2>3 DEF vars, attribution
  <2> QED BY <2>1, <2>2, <2>3 DEF Next, Finished
<1> QED BY <1>2, <1>3, <1>4

\* _consume_matching: while records draw on the closing activities, every closed
\* unit of every lot is attributed to one record or still unused.
THEOREM ClosedUnitsUsedOnce == Spec => ClosedUnitsAreUsedOnce
<1>1. Typed /\ [Next]_vars =>
        [stage = "match" =>
           \A lot \in ClosedLots :
             UnitsOf(Attributions \o unused, lot[1], lot[2])' =
               UnitsOf(Attributions \o unused, lot[1], lot[2])]_vars
  BY MatchingConserves
<1> QED BY <1>1, AlwaysTyped, PTL DEF Spec, ClosedUnitsAreUsedOnce

-----------------------------------------------------------------------------
(* The journal retraces the import: a trade taken leg by leg leaves the    *)
(* book that the whole trade leaves.                                       *)
\* Books that differ in the allocations kept only.
Same(b, d) == b.lots = d.lots /\ b.nextId = d.nextId /\ b.ok = d.ok

LEMMA SameReset ==
  ASSUME NEW b \in Books, NEW d \in Books, Same(b, d)
  PROVE  [b EXCEPT !.taken = << >>] = [d EXCEPT !.taken = << >>]
<1>1. PICK x, y, z, t, u : /\ x = b.lots /\ y = b.nextId /\ z = b.ok /\ t = b.taken /\ u = d.taken
  OBVIOUS
<1>2. b = [lots |-> x, nextId |-> y, ok |-> z, taken |-> t]
  BY <1>1, BookFields
<1>3. d = [lots |-> x, nextId |-> y, ok |-> z, taken |-> u]
  BY <1>1, BookFields DEF Same
<1>4. [b EXCEPT !.taken = << >>] = [lots |-> x, nextId |-> y, ok |-> z, taken |-> << >>]
  BY <1>2
<1>5. [d EXCEPT !.taken = << >>] = [lots |-> x, nextId |-> y, ok |-> z, taken |-> << >>]
  BY <1>3
<1> QED BY <1>4, <1>5

LEMMA ResetIsSame ==
  ASSUME NEW b \in Books, NEW d \in Books, Same(b, d)
  PROVE  Same([b EXCEPT !.taken = << >>], d)
<1>1. PICK e : e = [b EXCEPT !.taken = << >>]
  OBVIOUS
<1>2. e.lots = b.lots /\ e.nextId = b.nextId /\ e.ok = b.ok
  BY <1>1, TakenReset
<1> QED BY <1>1, <1>2 DEF Same

LEMMA LegOfSame ==
  ASSUME NEW b \in Books, NEW d \in Books, Same(b, d), NEW leg \in LegRecords, NEW now, NEW c
  PROVE  Same(ApplyLeg(b, leg, now, c), ApplyLeg(d, leg, now, c))
<1>1. PICK x, y, i, run : /\ x = b.lots /\ y = b.nextId /\ i = leg.instrument
                          /\ run = CloseRun(x[i], Executed(leg), c)
  OBVIOUS
<1>2. d.lots = x /\ d.nextId = y /\ d.ok = b.ok
  BY <1>1 DEF Same
<1>3. CASE ~b.ok
  <2>1. ApplyLeg(b, leg, now, c) = b /\ ApplyLeg(d, leg, now, c) = d
    BY <1>2, <1>3 DEF ApplyLeg
  <2> QED BY <2>1
<1>4. CASE b.ok /\ leg.effect = "OPEN"
  <2>1. ApplyLeg(b, leg, now, c) = AppendNew(b, i, Executed(leg), now, c)
    BY <1>1, <1>4 DEF ApplyLeg
  <2>2. ApplyLeg(d, leg, now, c) = AppendNew(d, i, Executed(leg), now, c)
    BY <1>1, <1>2, <1>4 DEF ApplyLeg
  <2>3. NewId(b) = NewId(d)
    BY <1>1, <1>2 DEF NewId
  <2>4. PICK p, q : /\ p = [x EXCEPT ![i] = Append(x[i], BuildLot(NewId(b), Executed(leg), now, c))]
                    /\ q = y + 1
    OBVIOUS
  <2>5. AppendNew(b, i, Executed(leg), now, c) = [lots |-> p, nextId |-> q, ok |-> b.ok, taken |-> b.taken]
    BY <1>1, <2>4 DEF AppendNew
  <2>6. AppendNew(d, i, Executed(leg), now, c) = [lots |-> p, nextId |-> q, ok |-> b.ok, taken |-> d.taken]
    BY <1>2, <2>3, <2>4 DEF AppendNew
  <2> QED BY <2>1, <2>2, <2>5, <2>6 DEF Same
<1>5. CASE b.ok /\ leg.effect # "OPEN"
  <2>1. ApplyLeg(b, leg, now, c)
          = [lots |-> [x EXCEPT ![i] = run.open], nextId |-> y, ok |-> run.due = 0,
             taken |-> b.taken \o run.taken]
    BY <1>1, <1>5 DEF ApplyLeg
  <2>2. ApplyLeg(d, leg, now, c)
          = [lots |-> [x EXCEPT ![i] = run.open], nextId |-> y, ok |-> run.due = 0,
             taken |-> d.taken \o run.taken]
    BY <1>1, <1>2, <1>5 DEF ApplyLeg
  <2> QED BY <2>1, <2>2 DEF Same
<1> QED BY <1>3, <1>4, <1>5

LEMMA JournalLegSame ==
  ASSUME NEW r \in JournalRuns, NEW b \in Books, Same(r.book, b),
         NEW trade \in TradeRecords, CampaignOf(trade) \in Owners, NEW leg \in LegRecords
  PROVE  Same(JournalLeg(r, trade, leg).book, ApplyLeg(b, leg, trade.time, CampaignOf(trade)))
<1>1. r.book \in Books
  BY DEF JournalRuns
<1>2. CASE ~r.book.ok
  <2>1. JournalLeg(r, trade, leg) = r
    BY <1>2 DEF JournalLeg
  <2>2. ~b.ok
    BY <1>2 DEF Same
  <2>3. ApplyLeg(b, leg, trade.time, CampaignOf(trade)) = b
    BY <2>2 DEF ApplyLeg
  <2> QED BY <2>1, <2>3
<1>3. CASE r.book.ok
  <2>1. PICK e, now, c : /\ e = [r.book EXCEPT !.taken = << >>] /\ now = trade.time
                         /\ c = CampaignOf(trade)
    OBVIOUS
  <2>2. e \in Books /\ Same(e, b)
    BY <1>1, <2>1, TakenReset, ResetIsSame
  <2>3. JournalLeg(r, trade, leg).book = ApplyLeg(e, leg, now, c)
    BY <1>3, <2>1 DEF JournalLeg
  <2>4. Same(ApplyLeg(e, leg, now, c), ApplyLeg(b, leg, now, c))
    BY <2>2, LegOfSame
  <2> QED BY <2>1, <2>3, <2>4
<1> QED BY <1>2, <1>3

LEMMA JournaledIsReplayed ==
  ASSUME book \in Books, journal \in Entries, NEW item, IsItem(item)
  PROVE  /\ [Journaled(item).book EXCEPT !.taken = << >>] = Replayed(book, item)
         /\ Journaled(item).book.ok = AppliedItem(book, item).ok
<1>1. CASE ~IsTrade(item)
  <2>1. Journaled(item).book = ApplyEvent(book, item)
    BY <1>1, JournaledEvent
  <2> QED BY <1>1, <2>1 DEF Replayed, AppliedItem
<1>2. CASE IsTrade(item)
  <2>1. PICK start, c : start = [book |-> book, entries |-> journal] /\ c = CampaignOf(item)
    OBVIOUS
  <2>2. start \in JournalRuns /\ item \in TradeRecords /\ c \in Owners /\ CampaignOf(item) \in Owners
    BY <1>2, <2>1 DEF JournalRuns, IsItem
  <2>3. PICK f \in [0..Len(item.legs) -> JournalRuns] :
          /\ f[0] = start
          /\ \A k \in 1..Len(item.legs) : f[k] = JournalLeg(f[k - 1], item, item.legs[k])
          /\ JournalTrade(start, item) = f[Len(item.legs)]
    BY <2>2, JournalTradeLoop
  <2>4. PICK g \in [0..Len(item.legs) -> Books] :
          /\ g[0] = book
          /\ \A k \in 1..Len(item.legs) : g[k] = ApplyLeg(g[k - 1], item.legs[k], item.time, c)
          /\ ApplyTrade(book, item, c) = g[Len(item.legs)]
    BY <2>2, ApplyTradeLoop
  <2>5. Len(item.legs) \in Nat /\ \A k \in 1..Len(item.legs) : item.legs[k] \in LegRecords
    BY <2>2 DEF TradeRecords
  <2> DEFINE S == { k \in 0..Len(item.legs) : Same(f[k].book, g[k]) }
  <2>6. 0 \in S
    BY <2>1, <2>3, <2>4, <2>5 DEF Same
  <2>7. ASSUME NEW k \in 1..Len(item.legs), k - 1 \in S PROVE k \in S
    <3>1. k - 1 \in 0..Len(item.legs) /\ k \in 0..Len(item.legs)
      BY <2>5
    <3>2. PICK r, b, leg : r = f[k - 1] /\ b = g[k - 1] /\ leg = item.legs[k]
      OBVIOUS
    <3>3. r \in JournalRuns /\ b \in Books /\ leg \in LegRecords
      BY <2>5, <3>1, <3>2
    <3>4. Same(r.book, b)
      BY <2>7, <3>2
    <3>5. Same(JournalLeg(r, item, leg).book, ApplyLeg(b, leg, item.time, CampaignOf(item)))
      BY <2>2, <3>3, <3>4, JournalLegSame
    <3>6. f[k] = JournalLeg(r, item, leg) /\ g[k] = ApplyLeg(b, leg, item.time, CampaignOf(item))
      BY <2>1, <2>3, <2>4, <3>2
    <3> QED BY <3>1, <3>5, <3>6
  <2>8. \A k \in 0..Len(item.legs) : k \in S
    <3> HIDE DEF S
    <3> QED BY <2>5, <2>6, <2>7, Upward
  <2>9. Len(item.legs) \in 0..Len(item.legs)
    BY <2>5
  <2>10. PICK b, d : b = f[Len(item.legs)].book /\ d = g[Len(item.legs)]
    OBVIOUS
  <2>11. Same(b, d)
    BY <2>8, <2>9, <2>10
  <2>12. f[Len(item.legs)] \in JournalRuns /\ d \in Books
    BY <2>9, <2>10
  <2>13. b \in Books
    BY <2>10, <2>12 DEF JournalRuns
  <2>14. Journaled(item).book = b
    BY <1>2, <2>1, <2>3, <2>10, JournaledTrade
  <2>15. AppliedItem(book, item) = d
    BY <1>2, <2>1, <2>4, <2>10 DEF AppliedItem
  <2>16. [b EXCEPT !.taken = << >>] = [d EXCEPT !.taken = << >>]
    BY <2>11, <2>12, <2>13, SameReset
  <2> QED BY <2>11, <2>14, <2>15, <2>16 DEF Replayed, Same
<1> QED BY <1>1, <1>2

\* The books of a replay of the first n items, none of which raised.
IsReplay(f, n) ==
  /\ f \in [0..n -> Books] /\ f[0] = Fresh
  /\ \A k \in 0..n : f[k].ok
  /\ \A k \in 1..n : f[k] = Replayed(f[k - 1], PositionItems[k])

LEMMA ReplayExtended ==
  ASSUME input \in Inputs, NEW n \in Nat, n < Len(PositionItems), NEW f, IsReplay(f, n),
         AppliedItem(f[n], PositionItems[n + 1]).ok
  PROVE  \E g : IsReplay(g, n + 1) /\ g[n + 1] = Replayed(f[n], PositionItems[n + 1])
<1>1. PICK item, next : item = PositionItems[n + 1] /\ next = Replayed(f[n], item)
  OBVIOUS
<1>2. IsItem(item)
  <2>1. n + 1 \in 1..Len(PositionItems)
    BY PositionItemTypes
  <2> QED BY <1>1, <2>1, PositionItemTypes
<1>3. /\ f \in [0..n -> Books] /\ f[0] = Fresh /\ \A k \in 0..n : f[k].ok
      /\ \A k \in 1..n : f[k] = Replayed(f[k - 1], PositionItems[k])
  BY DEF IsReplay
<1>4. f[n] \in Books
  BY <1>3
<1>5. next \in Books /\ next.ok
  BY <1>1, <1>2, <1>4, ReplayedTypes
<1>6. PICK g : g = [k \in 0..(n + 1) |-> IF k <= n THEN f[k] ELSE next]
  OBVIOUS
<1>7. g \in [0..(n + 1) -> Books]
  <2>1. \A k \in 0..(n + 1) : k <= n => k \in 0..n
    OBVIOUS
  <2> QED BY <1>3, <1>5, <1>6, <2>1
<1>8. \A k \in 0..n : k \in 0..(n + 1) /\ g[k] = f[k]
  BY <1>6
<1>9. g[n + 1] = next
  BY <1>6
<1>10. g[0] = Fresh
  BY <1>3, <1>8
<1>11. ASSUME NEW k \in 0..(n + 1) PROVE g[k].ok
  <2>1. k \in 0..n \/ k = n + 1
    OBVIOUS
  <2> QED BY <1>3, <1>5, <1>8, <1>9, <2>1
<1>12. ASSUME NEW k \in 1..(n + 1) PROVE g[k] = Replayed(g[k - 1], PositionItems[k])
  <2>1. CASE k \in 1..n
    <3>1. k \in 0..n /\ k - 1 \in 0..n
      BY <2>1
    <3> QED BY <1>3, <1>8, <2>1, <3>1
  <2>2. CASE k = n + 1
    <3>1. n \in 0..n /\ k - 1 = n
      BY <2>2
    <3>2. g[k - 1] = f[n]
      BY <1>8, <3>1
    <3> QED BY <1>1, <1>9, <2>2, <3>2
  <2> QED BY <2>1, <2>2
<1> QED BY <1>1, <1>7, <1>9, <1>10, <1>11, <1>12 DEF IsReplay

\* The import is a replay so far.
Importing ==
  \E f, n : /\ n \in 0..Len(PositionItems) /\ n = at - 1
            /\ IsReplay(f, n) /\ f[n] = book

\* After it the ending book is the end of a replay of everything.
Imported ==
  \E f, m : m = Len(PositionItems) /\ IsReplay(f, m) /\ f[m] = ending

\* The journal is somewhere in that replay.
Journaling ==
  \E f, m, n : /\ m = Len(PositionItems) /\ n \in 0..m /\ n = at - 1
               /\ IsReplay(f, m) /\ f[m] = ending /\ f[n] = book

Retraced ==
  /\ stage = "apply" => Importing
  /\ stage \in {"attribute", "match"} => Imported
  /\ stage = "journal" => Journaling
  /\ refusal # "journal"

LEMMA ReplayOfInput ==
  ASSUME input' = input
  PROVE  /\ PositionItems' = PositionItems
         /\ Len(PositionItems)' = Len(PositionItems)
         /\ \A f, n : IsReplay(f, n)' <=> IsReplay(f, n)
<1>1. PositionItems' = PositionItems /\ Fresh' = Fresh /\ MonthCampaigns' = MonthCampaigns
  BY DEF PositionItems, Fresh, MonthCampaigns
<1>2. \A trade : CampaignOf(trade)' = CampaignOf(trade)
  BY <1>1 DEF CampaignOf
<1>3. \A b, item : Replayed(b, item)' = Replayed(b, item)
  BY <1>2 DEF Replayed, AppliedItem
<1> QED BY <1>1, <1>3 DEF IsReplay

LEMMA InitRetraced == Init => Retraced
<1> SUFFICES ASSUME Init PROVE Retraced
  OBVIOUS
<1>1. input \in Inputs /\ stage = "apply" /\ at = 1 /\ book = Fresh /\ refusal = "none"
  BY DEF Init
<1>2. Fresh \in Books /\ Fresh.ok = TRUE /\ Len(PositionItems) \in Nat
  BY <1>1, FreshTypes, PositionItemTypes
<1>3. PICK f : f = [k \in 0..0 |-> Fresh]
  OBVIOUS
<1>4. IsReplay(f, 0) /\ f[0] = book
  <2>1. f \in [0..0 -> Books] /\ f[0] = Fresh
    BY <1>2, <1>3
  <2>2. \A k \in 0..0 : f[k].ok
    BY <1>2, <1>3
  <2>3. 1..0 = {}
    OBVIOUS
  <2> QED BY <1>1, <2>1, <2>2, <2>3 DEF IsReplay
<1>5. at - 1 = 0 /\ 0 \in 0..Len(PositionItems)
  BY <1>1, <1>2
<1>6. Importing
  BY <1>4, <1>5 DEF Importing
<1> QED BY <1>1, <1>6 DEF Retraced

LEMMA NextRetraced == Typed /\ Retraced /\ [Next]_vars => Retraced'
<1> SUFFICES ASSUME Typed, Retraced, [Next]_vars PROVE Retraced'
  OBVIOUS
<1>1. input \in Inputs /\ at \in Nat \ {0} /\ book \in Books /\ journal \in Entries
  BY DEF Typed
<1>2. Len(PositionItems) \in Nat
  BY <1>1, PositionItemTypes
<1>3. input' = input
  BY DEF Next, ApplyItem, StartAttribution, AttributeItem, StartMatching, MatchRecord, StartJournal,
         JournalItem, CheckJournal, Finished, vars
<1>4. /\ PositionItems' = PositionItems /\ Len(PositionItems)' = Len(PositionItems)
      /\ \A f, n : IsReplay(f, n)' <=> IsReplay(f, n)
  BY <1>3, ReplayOfInput
<1>5. refusal # "journal"
  BY DEF Retraced
<1>6. ASSUME ApplyItem PROVE Retraced'
  <2>1. stage = "apply" /\ at <= Len(PositionItems) /\ at' = at + 1
    BY <1>6 DEF ApplyItem
  <2>2. PICK item, after : item = PositionItems[at] /\ after = AppliedItem(book, item)
    OBVIOUS
  <2>3. book' = [after EXCEPT !.taken = << >>] /\ Continue(after.ok, "apply", "replay")
    BY <1>6, <2>2 DEF ApplyItem, AppliedItem
  <2>4. PICK f, n : n = at - 1 /\ IsReplay(f, n) /\ f[n] = book
    BY <2>1 DEF Retraced, Importing
  <2>5. n = at - 1
    BY <2>4
  <2>6. n \in Nat /\ n < Len(PositionItems) /\ n + 1 = at /\ at' - 1 = at
    BY <1>1, <1>2, <2>1, <2>5
  <2>7. CASE after.ok
    <3>1. stage' = "apply" /\ refusal' = refusal
      BY <2>3, <2>7 DEF Continue
    <3>2. IsReplay(f, n) /\ f[n] = book /\ AppliedItem(f[n], PositionItems[n + 1]).ok
      BY <2>2, <2>4, <2>5, <2>6, <2>7
    <3>3. PICK g : IsReplay(g, n + 1) /\ g[n + 1] = Replayed(f[n], PositionItems[n + 1])
      BY <1>1, <2>6, <3>2, ReplayExtended
    <3>4. g[at] = book' /\ IsReplay(g, at)
      BY <2>2, <2>3, <2>6, <3>2, <3>3 DEF Replayed
    <3>5. at \in 0..Len(PositionItems)
      BY <1>1, <1>2, <2>1
    <3>6. PICK m : m = at
      OBVIOUS
    <3>7. m \in 0..Len(PositionItems)' /\ m = at' - 1 /\ g[m] = book'
      BY <1>4, <2>6, <3>4, <3>5, <3>6
    <3>8. IsReplay(g, m)'
      BY <1>4, <3>4, <3>6
    <3>9. Importing'
      BY <3>7, <3>8 DEF Importing
    <3> QED BY <1>5, <3>1, <3>9 DEF Retraced
  <2>8. CASE ~after.ok
    <3>1. stage' = "refused" /\ refusal' = "replay"
      BY <2>3, <2>8 DEF Continue, Refuse
    <3> QED BY <3>1 DEF Retraced
  <2> QED BY <2>7, <2>8
<1>7. ASSUME StartAttribution PROVE Retraced'
  <2>1. /\ stage = "apply" /\ at > Len(PositionItems) /\ ending' = book
        /\ \E mixed \in { m \in BOOLEAN : m => DOMAIN input.alias # {} } :
             Continue(~AliasAmbiguous /\ ~mixed, "attribute", "alias")
    BY <1>7 DEF StartAttribution
  <2>2. PICK f, n : /\ n \in 0..Len(PositionItems) /\ n = at - 1
                    /\ IsReplay(f, n) /\ f[n] = book
    BY <2>1 DEF Retraced, Importing
  <2>3. n = Len(PositionItems)
    BY <1>1, <1>2, <2>1, <2>2
  <2>4. n = Len(PositionItems)' /\ IsReplay(f, n)' /\ f[n] = ending'
    BY <1>4, <2>1, <2>2, <2>3
  <2>5. (stage' = "attribute" /\ refusal' = refusal) \/ (stage' = "refused" /\ refusal' = "alias")
    BY <2>1 DEF Continue, Refuse
  <2>6. refusal' # "journal" /\ stage' \in {"attribute", "refused"}
    BY <1>5, <2>5
  <2>7. Imported'
    BY <2>4 DEF Imported
  <2> QED BY <2>6, <2>7 DEF Retraced
<1>8. ASSUME AttributeItem \/ StartMatching \/ MatchRecord PROVE Retraced'
  <2>1. stage \in {"attribute", "match"} /\ ending' = ending
    BY <1>8 DEF AttributeItem, StartMatching, MatchRecord
  <2>2. /\ stage' \in {"attribute", "match", "refused"}
        /\ refusal' \in {refusal, "attribution", "ambiguous", "inconsistent", "unmatched", "negative"}
    BY <1>8 DEF AttributeItem, StartMatching, MatchRecord, RaisedBy, Continue, Refuse
  <2>3. PICK f, m : m = Len(PositionItems) /\ IsReplay(f, m) /\ f[m] = ending
    BY <2>1 DEF Retraced, Imported
  <2>4. m = Len(PositionItems)' /\ IsReplay(f, m)' /\ f[m] = ending'
    BY <1>4, <2>1, <2>3
  <2>5. Imported'
    BY <2>4 DEF Imported
  <2> QED BY <1>5, <2>2, <2>5 DEF Retraced
<1>9. ASSUME StartJournal PROVE Retraced'
  <2>1. /\ stage = "match" /\ stage' = "journal" /\ at' = 1 /\ book' = Fresh /\ ending' = ending
        /\ refusal' = refusal
    BY <1>9 DEF StartJournal
  <2>2. PICK f, m : m = Len(PositionItems) /\ IsReplay(f, m) /\ f[m] = ending
    BY <2>1 DEF Retraced, Imported
  <2>3. 0 \in 0..m /\ f[0] = Fresh
    BY <1>2, <2>2 DEF IsReplay
  <2>4. /\ m = Len(PositionItems)' /\ 0 = at' - 1 /\ IsReplay(f, m)'
        /\ f[m] = ending' /\ f[0] = book'
    BY <1>4, <2>1, <2>2, <2>3
  <2>5. Journaling'
    BY <2>3, <2>4 DEF Journaling
  <2> QED BY <1>5, <2>1, <2>5 DEF Retraced
<1>10. ASSUME JournalItem PROVE Retraced'
  <2>1. stage = "journal" /\ at <= Len(PositionItems) /\ at' = at + 1 /\ ending' = ending
    BY <1>10 DEF JournalItem
  <2>2. PICK item, r : item = PositionItems[at] /\ r = Journaled(item)
    OBVIOUS
  <2>3. book' = [r.book EXCEPT !.taken = << >>] /\ Continue(r.book.ok, "journal", "journal")
    BY <1>10, <2>2 DEF JournalItem
  <2>4. PICK f, m, n : /\ m = Len(PositionItems) /\ n \in 0..m /\ n = at - 1
                       /\ IsReplay(f, m) /\ f[m] = ending /\ f[n] = book
    BY <2>1 DEF Retraced, Journaling
  <2>5. at \in 1..Len(PositionItems) /\ at \in 0..Len(PositionItems) /\ at' - 1 = at
    BY <1>1, <1>2, <2>1
  <2>6. IsItem(item)
    BY <1>1, <2>2, <2>5, PositionItemTypes
  <2>7. book' = Replayed(book, item) /\ r.book.ok = AppliedItem(book, item).ok
    BY <1>1, <2>2, <2>3, <2>6, JournaledIsReplayed
  <2>8. f[at] = Replayed(f[at - 1], PositionItems[at]) /\ f[at].ok
    BY <2>4, <2>5 DEF IsReplay
  <2>9. f[at] = book' /\ AppliedItem(book, item).ok
    BY <1>1, <2>2, <2>4, <2>6, <2>7, <2>8, ReplayedTypes
  <2>10. stage' = "journal" /\ refusal' = refusal
    BY <2>3, <2>7, <2>9 DEF Continue
  <2>11. PICK k : k = at
    OBVIOUS
  <2>12. /\ m = Len(PositionItems)' /\ k \in 0..m /\ k = at' - 1 /\ IsReplay(f, m)'
         /\ f[m] = ending' /\ f[k] = book'
    BY <1>4, <2>1, <2>4, <2>5, <2>9, <2>11
  <2>13. Journaling'
    BY <2>12 DEF Journaling
  <2> QED BY <1>5, <2>10, <2>13 DEF Retraced
<1>11. ASSUME CheckJournal PROVE Retraced'
  <2>1. /\ stage = "journal" /\ at > Len(PositionItems)
        /\ Continue(Signature(book) = Signature(ending), "captured", "journal")
    BY <1>11 DEF CheckJournal
  <2>2. PICK f, m, n : /\ m = Len(PositionItems) /\ n \in 0..m /\ n = at - 1
                       /\ f[m] = ending /\ f[n] = book
    BY <2>1 DEF Retraced, Journaling
  <2>3. n = m
    BY <1>1, <1>2, <2>1, <2>2
  <2>4. book = ending
    BY <2>2, <2>3
  <2>5. stage' = "captured" /\ refusal' = refusal
    BY <2>1, <2>4 DEF Continue
  <2> QED BY <1>5, <2>5 DEF Retraced
<1>12. ASSUME UNCHANGED vars PROVE Retraced'
  <2>1. /\ stage' = stage /\ at' = at /\ book' = book /\ ending' = ending /\ refusal' = refusal
    BY <1>12 DEF vars
  <2>2. Importing => Importing'
    BY <1>4, <2>1 DEF Importing
  <2>3. Imported => Imported'
    BY <1>4, <2>1 DEF Imported
  <2>4. Journaling => Journaling'
    BY <1>4, <2>1 DEF Journaling
  <2> QED BY <2>1, <2>2, <2>3, <2>4 DEF Retraced
<1> QED BY <1>6, <1>7, <1>8, <1>9, <1>10, <1>11, <1>12 DEF Next, Finished

LEMMA AlwaysRetraced == Spec => []Retraced
BY InitRetraced, NextRetraced, AlwaysTyped, PTL DEF Spec

\* capture_position_journal: the journal's replay neither raises nor ends with
\* other lots than the import's, so it is never a reason to refuse a month.
THEOREM JournalIsAReplay == Spec => []JournalReplaysTheImport
<1>1. Retraced => JournalReplaysTheImport
  BY DEF Retraced, JournalReplaysTheImport
<1> QED BY <1>1, AlwaysRetraced, PTL

-----------------------------------------------------------------------------
(***************************************************************************)
(* Every unit in one place.  Sums over the campaigns, or over the names of *)
(* lots, of what each has of a sequence are what the sequence holds.       *)
(***************************************************************************)
LEMMA OwnersFinite == IsFiniteSet(Owners)
BY EvidenceAssumption, FS_AddElement DEF Owners

UnitWeight == [lot \in OpenLots |-> lot.quantity]

LEMMA SumIsWeight ==
  ASSUME NEW ls \in Seq(OpenLots)
  PROVE  UnitWeight \in [OpenLots -> Int] /\ SumQuantities(ls) = Weight(UnitWeight, ls)
<1>1. UnitWeight \in [OpenLots -> Int]
  BY DEF UnitWeight, OpenLots
<1>2. \A k \in DOMAIN ls : ls[k] \in OpenLots
  OBVIOUS
<1>3. [k \in DOMAIN ls |-> UnitWeight[ls[k]]] = [k \in DOMAIN ls |-> ls[k].quantity]
  BY <1>2 DEF UnitWeight
<1> QED BY <1>1, <1>3 DEF SumQuantities, QuantitiesOf, Weight

LEMMA OwnedInSum ==
  ASSUME NEW ls \in Seq(OpenLots)
  PROVE  SumFunction([c \in Owners |-> OwnedBy(ls, c)]) = SumQuantities(ls)
<1>1. PICK W : W = [c \in Owners |-> LotWeight(c)]
  OBVIOUS
<1>2. W \in [Owners -> [OpenLots -> Int]]
  BY <1>1 DEF LotWeight, OpenLots
<1>3. UnitWeight \in [OpenLots -> Int] /\ SumQuantities(ls) = Weight(UnitWeight, ls)
  BY SumIsWeight
<1>4. ASSUME NEW x \in OpenLots
      PROVE  SumFunction([c \in Owners |-> W[c][x]]) = UnitWeight[x]
  <2>1. PICK f : f = [c \in Owners |-> W[c][x]]
    OBVIOUS
  <2>2. f \in [Owners -> Int]
    BY <1>2, <2>1
  <2>3. x.campaign \in Owners /\ UnitWeight[x] = x.quantity
    BY DEF OpenLots, UnitWeight
  <2>4. \A c \in Owners : f[c] = IF x.campaign = c THEN x.quantity ELSE 0
    BY <1>1, <2>1 DEF LotWeight
  <2>5. PICK a : a = x.campaign
    OBVIOUS
  <2>6. a \in Owners /\ \A c \in Owners : c # a => f[c] = 0
    BY <2>3, <2>4, <2>5
  <2>7. SumFunction(f) = f[a]
    BY <2>2, <2>6, OwnersFinite, SumOfOne
  <2> QED BY <2>1, <2>3, <2>4, <2>5, <2>6, <2>7
<1>5. Divided(Owners, W, OpenLots, UnitWeight)
  BY <1>2, <1>3, <1>4 DEF Divided
<1>6. SumFunction([c \in Owners |-> Weight(W[c], ls)]) = Weight(UnitWeight, ls)
  BY <1>5, OwnersFinite, SumByOwner
<1>7. [c \in Owners |-> Weight(W[c], ls)] = [c \in Owners |-> OwnedBy(ls, c)]
  <2>1. \A c \in Owners : W[c] = LotWeight(c)
    BY <1>1
  <2>2. \A c \in Owners : OwnedBy(ls, c) = Weight(LotWeight(c), ls)
    BY LotWeights
  <2> QED BY <2>1, <2>2
<1> QED BY <1>3, <1>6, <1>7

LEMMA OwnedAdds ==
  ASSUME NEW c
  PROVE  /\ OwnedBy(<< >>, c) = 0
         /\ \A s \in Seq(OpenLots) : OwnedBy(s, c) \in Int
         /\ \A s \in Seq(OpenLots), x \in OpenLots :
              OwnedBy(Append(s, x), c) = OwnedBy(s, c) + (IF x.campaign = c THEN x.quantity ELSE 0)
<1>1. PICK w : w = LotWeight(c)
  OBVIOUS
<1>2. w \in [OpenLots -> Int]
  BY <1>1 DEF LotWeight, OpenLots
<1>3. ASSUME NEW s \in Seq(OpenLots) PROVE OwnedBy(s, c) = Weight(w, s) /\ OwnedBy(s, c) \in Int
  <2>1. OwnedBy(s, c) = Weight(w, s)
    BY <1>1, LotWeights
  <2>2. Weight(w, s) \in Int
    BY <1>2, WeightIs
  <2> QED BY <2>1, <2>2
<1>4. OwnedBy(<< >>, c) = 0
  <2>1. Weight(w, << >>) = 0
    BY WeightOfNone
  <2>2. PICK e : e = << >>
    OBVIOUS
  <2>3. e \in Seq(OpenLots)
    BY <2>2
  <2> QED BY <1>3, <2>1, <2>2, <2>3
<1>5. ASSUME NEW s \in Seq(OpenLots), NEW x \in OpenLots
      PROVE  OwnedBy(Append(s, x), c) = OwnedBy(s, c) + (IF x.campaign = c THEN x.quantity ELSE 0)
  <2>1. PICK e : e = Append(s, x)
    OBVIOUS
  <2>2. e \in Seq(OpenLots)
    BY <2>1
  <2>3. Weight(w, e) = Weight(w, s) + w[x]
    BY <1>2, <2>1, WeightOfOneMore
  <2>4. w[x] = IF x.campaign = c THEN x.quantity ELSE 0
    BY <1>1 DEF LotWeight
  <2>5. OwnedBy(e, c) = Weight(w, e) /\ OwnedBy(s, c) = Weight(w, s)
    BY <1>3, <2>2
  <2> QED BY <2>1, <2>3, <2>4, <2>5
<1> QED BY <1>3, <1>4, <1>5

LEMMA ClosedIsOwned ==
  ASSUME NEW taken \in Seq(OpenLots), NEW due \in Int,
         \A j \in 1..Len(taken) : Sign(taken[j].quantity) = Sign(due), NEW c
  PROVE  ClosedFor(taken, c) = OwnedBy(taken, c) * Sign(due) /\ OwnedBy(taken, c) \in Int
<1>1. PICK d, e : /\ d = [k \in DOMAIN taken |-> IF taken[k].campaign = c THEN taken[k].quantity ELSE 0]
                  /\ e = [k \in DOMAIN taken |-> IF taken[k].campaign = c
                                                 THEN Magnitude(taken[k].quantity) ELSE 0]
  OBVIOUS
<1>2. DOMAIN taken = 1..Len(taken) /\ Len(taken) \in Nat
  OBVIOUS
<1>3. \A k \in 1..Len(taken) : taken[k].quantity \in Int \ {0}
  <2>1. \A k \in 1..Len(taken) : taken[k] \in OpenLots
    OBVIOUS
  <2>2. \A x \in OpenLots : x.quantity \in Int \ {0}
    BY DEF OpenLots
  <2> QED BY <2>1, <2>2
<1>4. \A k \in 1..Len(taken) : Magnitude(taken[k].quantity) = taken[k].quantity * Sign(due)
  BY <1>3 DEF Magnitude, Sign
<1>5. Sign(due) \in Int
  BY DEF Sign
<1>6. d \in Seq(Int) /\ Len(d) = Len(taken)
  BY <1>1, <1>2, <1>3
<1>7. \A k \in 1..Len(taken) : e[k] \in Int /\ e[k] = d[k] * Sign(due)
  <2> TAKE k \in 1..Len(taken)
  <2>1. CASE taken[k].campaign = c
    BY <1>1, <1>2, <1>3, <1>4, <2>1 DEF Magnitude
  <2>2. CASE taken[k].campaign # c
    <3>1. d[k] = 0 /\ e[k] = 0
      BY <1>1, <1>2, <2>2
    <3> QED BY <1>5, <3>1
  <2> QED BY <2>1, <2>2
<1>8. e \in Seq(Int) /\ Len(e) = Len(taken)
  BY <1>1, <1>2, <1>7
<1>9. Total(e) = Total(d) * Sign(due)
  BY <1>5, <1>6, <1>7, <1>8, TotalScaled
<1>10. Total(d) \in Int
  BY <1>6, TotalInt
<1> QED BY <1>1, <1>9, <1>10 DEF ClosedFor, OwnedBy

-----------------------------------------------------------------------------
\* A leg's entries: what they are for each campaign, and in sum.
GainsOwned(trade, leg, taken) == \A c : LegGain(trade, leg, taken, c) = OwnedBy(taken, c)

LEMMA CloseGains ==
  ASSUME NEW ls \in Seq(OpenLots), NEW leg \in LegRecords, leg.effect = "CLOSE",
         NEW o \in Owners, NEW trade
  PROVE  GainsOwned(trade, leg, CloseRun(ls, Executed(leg), o).taken)
<1>0. PICK taken : taken = CloseRun(ls, Executed(leg), o).taken
  OBVIOUS
<1> SUFFICES ASSUME NEW c PROVE LegGain(trade, leg, taken, c) = OwnedBy(taken, c)
  BY <1>0 DEF GainsOwned
<1>1. Executed(leg) \in Int \ {0} /\ leg.side \in {"BUY", "SELL"} /\ leg.quantity \in Nat \ {0}
  BY ExecutedTypes
<1>2. PICK due : due = Executed(leg)
  OBVIOUS
<1>3. taken \in Seq(OpenLots)
  BY <1>0, <1>1, CloseRunTypes
<1>4. \A j \in 1..Len(taken) : Sign(taken[j].quantity) = Sign(due)
  BY <1>0, <1>1, <1>2, CloseRunSums
<1>5. ClosedFor(taken, c) = OwnedBy(taken, c) * Sign(due) /\ OwnedBy(taken, c) \in Int
  BY <1>1, <1>2, <1>3, <1>4, ClosedIsOwned
<1>6. LegGain(trade, leg, taken, c)
        = IF leg.side = "BUY" THEN ClosedFor(taken, c) ELSE -ClosedFor(taken, c)
  BY DEF LegGain
<1>7. Sign(due) = IF leg.side = "BUY" THEN 1 ELSE -1
  BY <1>1, <1>2 DEF Sign, Executed
<1> QED BY <1>5, <1>6, <1>7

\* A book with other lots of one instrument.
Rewrites(d, lots, i, s, n, ok, t) ==
  /\ d.lots[i] = s /\ \A j \in Instruments : j # i => d.lots[j] = lots[j]
  /\ d.nextId = n /\ d.ok = ok /\ d.taken = t

LEMMA Rewritten ==
  ASSUME NEW lots \in [Instruments -> Seq(OpenLots)], NEW i \in Instruments, NEW s, NEW n, NEW ok, NEW t,
         NEW d, d = [lots |-> [lots EXCEPT ![i] = s], nextId |-> n, ok |-> ok, taken |-> t]
  PROVE  Rewrites(d, lots, i, s, n, ok, t)
<1>1. PICK m : m = [lots EXCEPT ![i] = s]
  OBVIOUS
<1>2. m[i] = s /\ \A j \in Instruments : j # i => m[j] = lots[j]
  BY <1>1
<1>3. d = [lots |-> m, nextId |-> n, ok |-> ok, taken |-> t]
  BY <1>1
<1>4. d.lots = m /\ d.nextId = n /\ d.ok = ok /\ d.taken = t
  BY <1>3
<1> QED BY <1>2, <1>4 DEF Rewrites

LEMMA AppendNewIs ==
  ASSUME NEW b \in Books, NEW i \in Instruments, NEW q, NEW now, NEW c, NEW d, d = AppendNew(b, i, q, now, c)
  PROVE  Rewrites(d, b.lots, i, Append(b.lots[i], BuildLot(NewId(b), q, now, c)),
                  b.nextId + 1, b.ok, b.taken)
<1>1. PICK s : s = Append(b.lots[i], BuildLot(NewId(b), q, now, c))
  OBVIOUS
<1>2. PICK lots, n, ok, t : lots = b.lots /\ n = b.nextId + 1 /\ ok = b.ok /\ t = b.taken
  OBVIOUS
<1>3. d = [lots |-> [lots EXCEPT ![i] = s], nextId |-> n, ok |-> ok, taken |-> t]
  BY <1>1, <1>2 DEF AppendNew
<1>4. lots \in [Instruments -> Seq(OpenLots)]
  BY <1>2, BookFields
<1>5. Rewrites(d, lots, i, s, n, ok, t)
  BY <1>3, <1>4, Rewritten
<1> QED BY <1>1, <1>2, <1>5

\* A leg: an opening is a lot more, a close that does not raise takes what it
\* is about from the lots.
OpensOne(b, after, leg, now, o) ==
  /\ leg.effect = "OPEN"
  /\ after.lots[leg.instrument]
       = Append(b.lots[leg.instrument], BuildLot(NewId(b), Executed(leg), now, o))
  /\ after.nextId = b.nextId + 1

ClosesSome(b, after, leg, o) ==
  LET run == CloseRun(b.lots[leg.instrument], Executed(leg), o)
  IN /\ leg.effect = "CLOSE"
     /\ after.lots[leg.instrument] = run.open /\ after.taken = run.taken
     /\ after.nextId = b.nextId /\ after.ok = (run.due = 0)

LEMMA LegKinds ==
  ASSUME NEW b \in Books, b.ok, NEW leg \in LegRecords, NEW now, NEW o \in Owners,
         NEW after, after = ApplyLeg([b EXCEPT !.taken = << >>], leg, now, o)
  PROVE  /\ OpensOne(b, after, leg, now, o) \/ ClosesSome(b, after, leg, o)
         /\ \A j \in Instruments : j # leg.instrument => after.lots[j] = b.lots[j]
<1>1. PICK i, due, ls, e : i = leg.instrument /\ due = Executed(leg) /\ ls = b.lots[i]
                           /\ e = [b EXCEPT !.taken = << >>]
  OBVIOUS
<1>2. /\ i \in Instruments /\ due \in Int \ {0} /\ leg.effect \in {"OPEN", "CLOSE"}
      /\ b.lots \in [Instruments -> Seq(OpenLots)] /\ ls \in Seq(OpenLots)
  BY <1>1, ExecutedTypes, BookFields
<1>3. e \in Books /\ e.lots = b.lots /\ e.nextId = b.nextId /\ e.ok = b.ok /\ e.taken = << >>
  BY <1>1, TakenReset
<1>4. CASE leg.effect = "OPEN"
  <2>1. after = AppendNew(e, i, due, now, o)
    BY <1>1, <1>3, <1>4 DEF ApplyLeg
  <2>2. NewId(e) = NewId(b)
    BY <1>3 DEF NewId
  <2>3. Rewrites(after, e.lots, i, Append(e.lots[i], BuildLot(NewId(e), due, now, o)),
                 e.nextId + 1, e.ok, e.taken)
    BY <1>2, <1>3, <2>1, AppendNewIs
  <2>4. /\ after.lots[i] = Append(e.lots[i], BuildLot(NewId(e), due, now, o))
        /\ \A j \in Instruments : j # i => after.lots[j] = e.lots[j]
        /\ after.nextId = e.nextId + 1
    BY <2>3 DEF Rewrites
  <2> QED BY <1>1, <1>3, <1>4, <2>2, <2>4 DEF OpensOne
<1>5. CASE leg.effect = "CLOSE"
  <2>1. PICK run : run = CloseRun(ls, due, o)
    OBVIOUS
  <2>2. run.taken \in Seq(OpenLots) /\ run.open \in Seq(OpenLots)
    BY <1>2, <2>1, CloseRunTypes
  <2>3. after = [lots |-> [e.lots EXCEPT ![i] = run.open], nextId |-> e.nextId,
                 ok |-> run.due = 0, taken |-> e.taken \o run.taken]
    BY <1>1, <1>3, <1>5, <2>1 DEF ApplyLeg
  <2>4. PICK lots, n, ok, t, s : lots = e.lots /\ n = e.nextId /\ ok = (run.due = 0)
                                 /\ t = e.taken \o run.taken /\ s = run.open
    OBVIOUS
  <2>5. after = [lots |-> [lots EXCEPT ![i] = s], nextId |-> n, ok |-> ok, taken |-> t]
    BY <2>3, <2>4
  <2>6. lots \in [Instruments -> Seq(OpenLots)]
    BY <1>2, <1>3, <2>4
  <2>7. Rewrites(after, lots, i, s, n, ok, t)
    BY <1>2, <2>5, <2>6, Rewritten
  <2>8. t = run.taken
    BY <1>3, <2>2, <2>4
  <2> QED BY <1>1, <1>3, <1>5, <2>1, <2>4, <2>7, <2>8, SMTT(40), ZenonT(60) DEF ClosesSome, Rewrites
<1> QED BY <1>2, <1>4, <1>5

LEMMA LegGainsInSum ==
  ASSUME NEW b \in Books, b.ok, NEW leg \in LegRecords, NEW trade, CampaignOf(trade) \in Owners,
         NEW after, after = ApplyLeg([b EXCEPT !.taken = << >>], leg, trade.time, CampaignOf(trade)),
         after.ok
  PROVE  /\ SumFunction([c \in Owners |-> LegGain(trade, leg, after.taken, c)]) = Executed(leg)
         /\ SumQuantities(after.lots[leg.instrument])
              = SumQuantities(b.lots[leg.instrument]) + Executed(leg)
         /\ \A i \in Instruments : i # leg.instrument => after.lots[i] = b.lots[i]
<1>1. PICK i, due, o, ls, now : /\ i = leg.instrument /\ due = Executed(leg) /\ o = CampaignOf(trade)
                                /\ ls = b.lots[i] /\ now = trade.time
  OBVIOUS
<1>2. /\ i \in Instruments /\ due \in Int \ {0} /\ leg.effect \in {"OPEN", "CLOSE"}
      /\ o \in Owners /\ b.lots \in [Instruments -> Seq(OpenLots)] /\ ls \in Seq(OpenLots)
  BY <1>1, ExecutedTypes, BookFields
<1>3. /\ OpensOne(b, after, leg, now, o) \/ ClosesSome(b, after, leg, o)
      /\ \A j \in Instruments : j # i => after.lots[j] = b.lots[j]
  <2>1. after = ApplyLeg([b EXCEPT !.taken = << >>], leg, now, o)
    BY <1>1
  <2> QED BY <1>1, <1>2, <2>1, LegKinds
<1>4. CASE OpensOne(b, after, leg, now, o)
  <2>1. PICK x : x = BuildLot(NewId(b), due, now, o)
    OBVIOUS
  <2>2. after.lots[i] = Append(ls, x) /\ x.quantity = due /\ leg.effect = "OPEN"
    BY <1>1, <1>4, <2>1 DEF OpensOne, BuildLot
  <2>5. SumQuantities(Append(ls, x)) = SumQuantities(ls) + due
    <3>1. PICK X : X = OpenLots \cup {x}
      OBVIOUS
    <3>2. Quantified(X) /\ ls \in Seq(X) /\ x \in X
      BY <1>2, <2>2, <3>1, LotsQuantified DEF Quantified
    <3>3. SumQuantities(Append(ls, x)) = SumQuantities(ls) + x.quantity
      BY <3>2, SumOfOneMore
    <3> QED BY <2>2, <3>3
  <2>6. PICK f : f = [c \in Owners |-> LegGain(trade, leg, after.taken, c)]
    OBVIOUS
  <2>7. \A c \in Owners : f[c] = IF o = c THEN due ELSE 0
    BY <1>1, <2>2, <2>6 DEF LegGain
  <2>8. f \in [Owners -> Int]
    <3>1. PICK g : g = [c \in Owners |-> IF o = c THEN due ELSE 0]
      OBVIOUS
    <3>2. g \in [Owners -> Int]
      BY <1>2, <3>1
    <3>3. f = g
      BY <2>6, <2>7, <3>1
    <3> QED BY <3>2, <3>3
  <2>9. SumFunction(f) = f[o]
    <3>1. \A c \in Owners : c # o => f[c] = 0
      BY <2>7
    <3> QED BY <1>2, <2>8, <3>1, OwnersFinite, SumOfOne
  <2>10. SumFunction(f) = due
    BY <1>2, <2>7, <2>9
  <2> QED BY <1>1, <1>3, <2>2, <2>5, <2>6, <2>10
<1>5. CASE ClosesSome(b, after, leg, o)
  <2>1. PICK run : run = CloseRun(ls, due, o)
    OBVIOUS
  <2>2. /\ leg.effect = "CLOSE" /\ run.due = 0
        /\ after.lots[i] = run.open /\ after.taken = run.taken
    BY <1>1, <1>5, <2>1 DEF ClosesSome
  <2>4. run.taken \in Seq(OpenLots) /\ run.open \in Seq(OpenLots)
    BY <1>2, <2>1, CloseRunTypes
  <2>6. /\ SumQuantities(run.open) = SumQuantities(ls) + SumQuantities(run.taken)
        /\ run.due = due - SumQuantities(run.taken)
    BY <1>2, <2>1, CloseRunSums
  <2>7. SumQuantities(run.taken) \in Int
    BY <2>4, LotsQuantified, QuantitiesAreInts
  <2>8. SumQuantities(run.taken) = due
    BY <1>2, <2>2, <2>6, <2>7
  <2>9. \A c \in Owners : LegGain(trade, leg, run.taken, c) = OwnedBy(run.taken, c)
    <3>1. leg.effect = "CLOSE" /\ ls \in Seq(OpenLots) /\ o \in Owners
      BY <1>2, <2>2
    <3>2. GainsOwned(trade, leg, CloseRun(ls, Executed(leg), o).taken)
      BY <3>1, CloseGains
    <3> QED BY <1>1, <2>1, <3>2 DEF GainsOwned
  <2>10. [c \in Owners |-> LegGain(trade, leg, after.taken, c)] = [c \in Owners |-> OwnedBy(run.taken, c)]
    BY <2>2, <2>9
  <2>11. SumFunction([c \in Owners |-> OwnedBy(run.taken, c)]) = SumQuantities(run.taken)
    BY <2>4, OwnedInSum
  <2> QED BY <1>1, <1>3, <2>2, <2>6, <2>8, <2>10, <2>11
<1> QED BY <1>3, <1>4, <1>5

Balanced(entries, b) == \A i \in Instruments : SumFunction(entries[i]) = SumQuantities(b.lots[i])

LEMMA JournalLegBalanced ==
  ASSUME NEW r \in JournalRuns, NEW trade \in TradeRecords, CampaignOf(trade) \in Owners,
         NEW leg \in LegRecords, JournalLeg(r, trade, leg).book.ok
  PROVE  /\ r.book.ok
         /\ Balanced(r.entries, r.book) =>
              Balanced(JournalLeg(r, trade, leg).entries, JournalLeg(r, trade, leg).book)
<1>1. r.book \in Books /\ r.entries \in Entries
  BY DEF JournalRuns
<1>2. r.book.ok
  BY DEF JournalLeg
<1>3. PICK i, b, e : i = leg.instrument /\ b = r.book /\ e = r.entries
  OBVIOUS
<1>4. PICK after : after = ApplyLeg([b EXCEPT !.taken = << >>], leg, trade.time, CampaignOf(trade))
  OBVIOUS
<1>5. PICK next : next = [e EXCEPT ![i] = [c \in Owners |-> e[i][c] + LegGain(trade, leg, after.taken, c)]]
  OBVIOUS
<1>6. JournalLeg(r, trade, leg) = [book |-> after, entries |-> next]
  BY <1>2, <1>3, <1>4, <1>5 DEF JournalLeg
<1>7. after.ok
  BY <1>6
<1>8. /\ SumFunction([c \in Owners |-> LegGain(trade, leg, after.taken, c)]) = Executed(leg)
      /\ SumQuantities(after.lots[i]) = SumQuantities(b.lots[i]) + Executed(leg)
      /\ \A j \in Instruments : j # i => after.lots[j] = b.lots[j]
  BY <1>1, <1>2, <1>3, <1>4, <1>7, LegGainsInSum
<1>9. i \in Instruments
  BY <1>3, ExecutedTypes
<1>10. PICK g : g = [c \in Owners |-> LegGain(trade, leg, after.taken, c)]
  OBVIOUS
<1>11. g \in [Owners -> Int] /\ e[i] \in [Owners -> Int]
  <2>1. [b EXCEPT !.taken = << >>] \in Books /\ trade.time \in Nat
    BY <1>1, <1>3, TakenReset DEF TradeRecords
  <2>2. after \in Books
    BY <1>4, <2>1, ApplyLegTypes
  <2>3. after.taken \in Seq(OpenLots)
    BY <2>2, BookFields
  <2>4. \A c \in Owners : LegGain(trade, leg, after.taken, c) \in Int
    BY <2>3, LegGainTypes
  <2> QED BY <1>1, <1>3, <1>9, <1>10, <2>4 DEF Entries
<1>12. SumFunction([c \in Owners |-> e[i][c] + g[c]]) = SumFunction(e[i]) + SumFunction(g)
  BY <1>11, OwnersFinite, SumAdded
<1>13. /\ next[i] = [c \in Owners |-> e[i][c] + g[c]]
       /\ \A j \in Instruments : j # i => next[j] = e[j]
  <2>1. DOMAIN e = Instruments
    BY <1>1, <1>3 DEF Entries
  <2>2. \A c \in Owners : g[c] = LegGain(trade, leg, after.taken, c)
    BY <1>10
  <2> QED BY <1>5, <1>9, <2>1, <2>2
<1>14. ASSUME Balanced(e, b) PROVE Balanced(next, after)
  <2>1. SumFunction(next[i]) = SumQuantities(after.lots[i])
    BY <1>8, <1>9, <1>10, <1>12, <1>13, <1>14 DEF Balanced
  <2> QED BY <1>8, <1>13, <1>14, <2>1 DEF Balanced
<1> QED BY <1>2, <1>3, <1>6, <1>14

-----------------------------------------------------------------------------
(***************************************************************************)
(* Identifiers.  Lots keep theirs, a counter gives out each of its own     *)
(* once.                                                                   *)
(***************************************************************************)
Counter(q) == LotId("LOT", 0, NoCampaign, q)

CountedUnder(id, n) == id = Counter(id.rank) => id.rank < n

NamedApart(ls) == \A j, k \in 1..Len(ls) : ls[j].id = ls[k].id => j = k

AllUnder(ls, n) == \A k \in 1..Len(ls) : CountedUnder(ls[k].id, n)

Numbered(ls, n) == NamedApart(ls) /\ AllUnder(ls, n)

LEMMA IdentifiedIs ==
  ASSUME NEW b \in Books
  PROVE  Identified(b) <=> \A i \in Instruments : Numbered(b.lots[i], b.nextId)
<1>1. ASSUME NEW i \in Instruments
      PROVE  ( /\ \A j, k \in DOMAIN b.lots[i] : b.lots[i][j].id = b.lots[i][k].id => j = k
               /\ \A id \in NamesOf(b.lots[i]) :
                    id = LotId("LOT", 0, NoCampaign, id.rank) => id.rank < b.nextId )
             <=> Numbered(b.lots[i], b.nextId)
  <2>1. PICK ls, n : ls = b.lots[i] /\ n = b.nextId
    OBVIOUS
  <2>2. ls \in Seq(OpenLots)
    BY <2>1, BookFields
  <2>3. DOMAIN ls = 1..Len(ls)
    BY <2>2
  <2>4. (\A id \in NamesOf(ls) : CountedUnder(id, n)) <=> AllUnder(ls, n)
    BY <2>3 DEF NamesOf, AllUnder
  <2>5. (\A j, k \in DOMAIN ls : ls[j].id = ls[k].id => j = k) <=> NamedApart(ls)
    BY <2>3 DEF NamedApart
  <2> QED BY <2>1, <2>4, <2>5 DEF CountedUnder, Counter, Numbered
<1> QED BY <1>1 DEF Identified

LEMMA CountersDiffer ==
  ASSUME NEW q \in Nat
  PROVE  /\ Counter(q) \in LotNames
         /\ \A n : CountedUnder(Counter(q), n) <=> q < n
         /\ \A p \in Nat : Counter(p) = Counter(q) => p = q
<1>1. Counter(q) = [kind |-> "LOT", at |-> 0, of |-> NoCampaign, rank |-> q]
  BY DEF Counter, LotId
<1>2. Counter(q).rank = q
  BY <1>1
<1>3. Counter(q) \in LotNames
  BY <1>1 DEF LotNames
<1>4. \A n : CountedUnder(Counter(q), n) <=> q < n
  BY <1>2 DEF CountedUnder
<1>5. \A p \in Nat : Counter(p).rank = p
  BY DEF Counter, LotId
<1> QED BY <1>2, <1>3, <1>4, <1>5

LEMMA UnderGrows ==
  ASSUME NEW id \in LotNames, NEW n \in Nat, NEW m \in Nat, n <= m, CountedUnder(id, n)
  PROVE  CountedUnder(id, m)
<1>1. id.rank \in Nat
  BY DEF LotNames
<1> QED BY <1>1 DEF CountedUnder

LEMMA AllUnderGrows ==
  ASSUME NEW ls \in Seq(OpenLots), NEW n \in Nat, NEW m \in Nat, n <= m, AllUnder(ls, n)
  PROVE  AllUnder(ls, m)
<1>1. ASSUME NEW k \in 1..Len(ls) PROVE CountedUnder(ls[k].id, m)
  <2>0. ls[k] \in OpenLots
    OBVIOUS
  <2>1. ls[k].id \in LotNames
    BY <2>0 DEF OpenLots
  <2>2. CountedUnder(ls[k].id, n)
    BY DEF AllUnder
  <2> QED BY <2>1, <2>2, UnderGrows
<1> QED BY <1>1 DEF AllUnder

LEMMA ApartAppended ==
  ASSUME NEW ls \in Seq(OpenLots), NamedApart(ls), NEW x \in OpenLots,
         \A j \in 1..Len(ls) : ls[j].id # x.id
  PROVE  NamedApart(Append(ls, x))
<1>1. PICK s : s = Append(ls, x)
  OBVIOUS
<1>2. /\ Len(s) = Len(ls) + 1 /\ s[Len(s)] = x /\ Len(ls) \in Nat
      /\ \A j \in 1..Len(ls) : s[j] = ls[j]
  BY <1>1
<1>3. \A j \in 1..Len(s) : j = Len(s) \/ j \in 1..Len(ls)
  BY <1>2
<1>4. ASSUME NEW j \in 1..Len(s), NEW k \in 1..Len(s), s[j].id = s[k].id PROVE j = k
  <2>1. CASE j = Len(s)
    BY <1>2, <1>3, <1>4, <2>1
  <2>2. CASE k = Len(s)
    BY <1>2, <1>3, <1>4, <2>2
  <2>3. CASE j # Len(s) /\ k # Len(s)
    BY <1>2, <1>3, <1>4, <2>3 DEF NamedApart
  <2> QED BY <2>1, <2>2, <2>3
<1> QED BY <1>1, <1>4 DEF NamedApart

LEMMA UnderAppended ==
  ASSUME NEW ls \in Seq(OpenLots), NEW n, AllUnder(ls, n), NEW x \in OpenLots, CountedUnder(x.id, n)
  PROVE  AllUnder(Append(ls, x), n)
<1>1. PICK s : s = Append(ls, x)
  OBVIOUS
<1>2. /\ Len(s) = Len(ls) + 1 /\ s[Len(s)] = x /\ Len(ls) \in Nat
      /\ \A j \in 1..Len(ls) : s[j] = ls[j]
  BY <1>1
<1>3. \A j \in 1..Len(s) : j = Len(s) \/ j \in 1..Len(ls)
  BY <1>2
<1>4. \A j \in 1..Len(s) : CountedUnder(s[j].id, n)
  BY <1>2, <1>3 DEF AllUnder
<1> QED BY <1>1, <1>4 DEF AllUnder

\* Each lot of the first list is one of the second, or what is left of it.
AmongLots(open, ls, m) ==
  \A j \in 1..Len(open) : \E k \in 1..m : open[j].id = ls[k].id /\ open[j].campaign = ls[k].campaign

KinOf(open, ls) == AmongLots(open, ls, Len(ls))

LEMMA CloseRunNames ==
  ASSUME NEW ls \in Seq(OpenLots), NEW due \in Int, NEW c \in Owners
  PROVE  /\ KinOf(CloseRun(ls, due, c).open, ls)
         /\ NamedApart(ls) => NamedApart(CloseRun(ls, due, c).open)
<1>1. PICK f \in [0..Len(ls) -> Runs] :
        /\ f[0] = [open |-> << >>, due |-> due, taken |-> << >>]
        /\ \A k \in 1..Len(ls) : f[k] = CloseLot(f[k - 1], ls[k], c)
        /\ CloseRun(ls, due, c) = f[Len(ls)]
  BY CloseRunLoop
<1>2. Len(ls) \in Nat /\ \A k \in 1..Len(ls) : ls[k] \in OpenLots
  OBVIOUS
<1> DEFINE Good(k) == /\ AmongLots(f[k].open, ls, k)
                      /\ NamedApart(ls) => NamedApart(f[k].open)
           S == { k \in 0..Len(ls) : Good(k) }
<1>3. 0 \in S
  <2>1. f[0].open = << >>
    BY <1>1
  <2>2. AmongLots(f[0].open, ls, 0) /\ NamedApart(f[0].open)
    BY <2>1 DEF AmongLots, NamedApart
  <2> QED BY <1>2, <2>2
<1>4. ASSUME NEW k \in 1..Len(ls), k - 1 \in S PROVE k \in S
  <2>1. k - 1 \in 0..Len(ls) /\ k \in 0..Len(ls)
    BY <1>2
  <2>2. CloseStep(f[k - 1], ls[k], f[k])
    BY <1>1, <1>2, <2>1, CloseLotSteps
  <2>3. PICK p, q : p = f[k - 1].open /\ q = f[k].open
    OBVIOUS
  <2>4. p \in Seq(OpenLots) /\ q \in Seq(OpenLots)
    BY <1>1, <2>1, <2>3 DEF Runs
  <2>5. AmongLots(p, ls, k - 1) /\ (NamedApart(ls) => NamedApart(p))
    BY <1>4, <2>3
  <2>6. \/ q = p
        \/ \E y \in OpenLots : q = Append(p, y) /\ y.id = ls[k].id /\ y.campaign = ls[k].campaign
    BY <2>2, <2>3 DEF CloseStep
  <2>7. AmongLots(p, ls, k)
    <3>1. ASSUME NEW j \in 1..Len(p)
          PROVE  \E m \in 1..k : p[j].id = ls[m].id /\ p[j].campaign = ls[m].campaign
      <4>1. PICK m \in 1..(k - 1) : p[j].id = ls[m].id /\ p[j].campaign = ls[m].campaign
        BY <2>5 DEF AmongLots
      <4>2. m \in 1..k
        OBVIOUS
      <4> QED BY <4>1, <4>2
    <3> QED BY <3>1 DEF AmongLots
  <2>8. CASE q = p
    BY <2>1, <2>3, <2>5, <2>7, <2>8
  <2>9. CASE q # p
    <3>1. PICK y \in OpenLots : q = Append(p, y) /\ y.id = ls[k].id /\ y.campaign = ls[k].campaign
      BY <2>6, <2>9
    <3>2. /\ Len(q) = Len(p) + 1 /\ q[Len(q)] = y /\ Len(p) \in Nat
          /\ \A j \in 1..Len(p) : q[j] = p[j]
      BY <2>4, <3>1
    <3>3. AmongLots(q, ls, k)
      <4>1. ASSUME NEW j \in 1..Len(q)
            PROVE  \E m \in 1..k : q[j].id = ls[m].id /\ q[j].campaign = ls[m].campaign
        <5>1. CASE j = Len(q)
          <6>1. k \in 1..k
            OBVIOUS
          <6> QED BY <3>1, <3>2, <5>1, <6>1
        <5>2. CASE j # Len(q)
          <6>1. j \in 1..Len(p)
            BY <3>2, <5>2
          <6> QED BY <2>7, <3>2, <6>1 DEF AmongLots
        <5> QED BY <5>1, <5>2
      <4> QED BY <4>1 DEF AmongLots
    <3>4. ASSUME NamedApart(ls) PROVE NamedApart(q)
      <4>1. \A j \in 1..Len(p) : p[j].id # y.id
        <5> SUFFICES ASSUME NEW j \in 1..Len(p), p[j].id = y.id PROVE FALSE
          OBVIOUS
        <5>1. PICK m \in 1..(k - 1) : p[j].id = ls[m].id
          BY <2>5 DEF AmongLots
        <5>2. m \in 1..Len(ls) /\ m # k
          BY <1>2
        <5> QED BY <3>1, <3>4, <5>1, <5>2 DEF NamedApart
      <4> QED BY <2>4, <2>5, <3>1, <3>4, <4>1, ApartAppended
    <3> QED BY <2>1, <2>3, <3>3, <3>4
  <2> QED BY <2>8, <2>9
<1>5. \A k \in 0..Len(ls) : k \in S
  <2> HIDE DEF S
  <2> QED BY <1>2, <1>3, <1>4, Upward
<1>6. Good(Len(ls))
  BY <1>2, <1>5
<1> QED BY <1>1, <1>6 DEF KinOf

LEMMA KinAreUnder ==
  ASSUME NEW ls, NEW open, KinOf(open, ls), NEW n, AllUnder(ls, n)
  PROVE  AllUnder(open, n)
BY DEF KinOf, AmongLots, AllUnder

LEMMA ClosedStayNumbered ==
  ASSUME NEW ls \in Seq(OpenLots), NEW due \in Int, NEW c \in Owners, NEW n, Numbered(ls, n)
  PROVE  Numbered(CloseRun(ls, due, c).open, n)
<1>1. PICK open : open = CloseRun(ls, due, c).open
  OBVIOUS
<1>2. KinOf(open, ls) /\ (NamedApart(ls) => NamedApart(open))
  BY <1>1, CloseRunNames
<1>3. NamedApart(ls) /\ AllUnder(ls, n)
  BY DEF Numbered
<1>4. AllUnder(open, n)
  BY <1>2, <1>3, KinAreUnder
<1> QED BY <1>1, <1>2, <1>3, <1>4 DEF Numbered

LEMMA NewStaysNumbered ==
  ASSUME NEW ls \in Seq(OpenLots), NEW n \in Nat, Numbered(ls, n), NEW x \in OpenLots, x.id = Counter(n)
  PROVE  Numbered(Append(ls, x), n + 1)
<1>1. NamedApart(ls) /\ AllUnder(ls, n)
  BY DEF Numbered
<1>2. \A j \in 1..Len(ls) : ls[j].id # x.id
  <2>1. ~CountedUnder(Counter(n), n)
    BY CountersDiffer
  <2> QED BY <1>1, <2>1 DEF AllUnder
<1>3. NamedApart(Append(ls, x))
  BY <1>1, <1>2, ApartAppended
<1>4. AllUnder(ls, n + 1)
  BY <1>1, AllUnderGrows
<1>5. CountedUnder(x.id, n + 1)
  BY CountersDiffer
<1>6. AllUnder(Append(ls, x), n + 1)
  BY <1>4, <1>5, UnderAppended
<1> QED BY <1>3, <1>6 DEF Numbered

\* A claim splits a lot at most into the lot and a counted one.
Spread(open, ls, m, first, next) ==
  \A j \in 1..Len(open) :
    \/ \E k \in 1..m : open[j].id = ls[k].id
    \/ \E q \in first..(next - 1) : open[j].id = Counter(q)

ClaimGood(r, ls, k, first) ==
  /\ first <= r.nextId
  /\ Spread(r.open, ls, k, first, r.nextId)
  /\ Numbered(r.open, r.nextId)

\* One lot more, of the list or counted.
LEMMA ClaimAppended ==
  ASSUME NEW ls \in Seq(OpenLots), NEW first \in Nat, Numbered(ls, first), NEW k \in 1..Len(ls),
         NEW s \in Seq(OpenLots), NEW next \in Nat, first <= next,
         Spread(s, ls, k - 1, first, next), Numbered(s, next),
         NEW x \in OpenLots, x.id = ls[k].id
  PROVE  Spread(Append(s, x), ls, k, first, next) /\ Numbered(Append(s, x), next)
<1>1. PICK e : e = Append(s, x)
  OBVIOUS
<1>2. /\ Len(e) = Len(s) + 1 /\ e[Len(e)] = x /\ Len(s) \in Nat
      /\ \A j \in 1..Len(s) : e[j] = s[j]
  BY <1>1
<1>3. NamedApart(ls) /\ AllUnder(ls, first) /\ NamedApart(s) /\ AllUnder(s, next)
  BY DEF Numbered
<1>4. CountedUnder(x.id, first)
  BY <1>3 DEF AllUnder
<1>5. CountedUnder(x.id, next)
  <2>1. x.id \in LotNames
    BY DEF OpenLots
  <2> QED BY <1>4, <2>1, UnderGrows
<1>6. \A j \in 1..Len(s) : s[j].id # x.id
  <2> SUFFICES ASSUME NEW j \in 1..Len(s), s[j].id = x.id PROVE FALSE
    OBVIOUS
  <2>1. CASE \E m \in 1..(k - 1) : s[j].id = ls[m].id
    <3>1. PICK m \in 1..(k - 1) : s[j].id = ls[m].id
      BY <2>1
    <3>2. m \in 1..Len(ls) /\ m # k
      OBVIOUS
    <3> QED BY <1>3, <3>1, <3>2 DEF NamedApart
  <2>2. CASE \E q \in first..(next - 1) : s[j].id = Counter(q)
    <3>1. PICK q \in first..(next - 1) : s[j].id = Counter(q)
      BY <2>2
    <3>2. q \in Nat /\ ~(q < first)
      BY <3>1
    <3>3. ~CountedUnder(Counter(q), first)
      BY <3>2, CountersDiffer
    <3> QED BY <1>4, <3>1, <3>3
  <2> QED BY <2>1, <2>2 DEF Spread
<1>7. NamedApart(e)
  BY <1>1, <1>3, <1>6, ApartAppended
<1>8. AllUnder(e, next)
  BY <1>1, <1>3, <1>5, UnderAppended
<1>9. ASSUME NEW j \in 1..Len(e)
      PROVE  \/ \E m \in 1..k : e[j].id = ls[m].id
             \/ \E q \in first..(next - 1) : e[j].id = Counter(q)
  <2>1. CASE j = Len(e)
    <3>1. k \in 1..k
      OBVIOUS
    <3> QED BY <1>2, <2>1, <3>1
  <2>2. CASE j # Len(e)
    <3>1. j \in 1..Len(s) /\ e[j] = s[j]
      BY <1>2, <2>2
    <3>2. CASE \E m \in 1..(k - 1) : s[j].id = ls[m].id
      <4>1. PICK m \in 1..(k - 1) : s[j].id = ls[m].id
        BY <3>2
      <4>2. m \in 1..k
        OBVIOUS
      <4> QED BY <3>1, <4>1, <4>2
    <3>3. CASE \E q \in first..(next - 1) : s[j].id = Counter(q)
      BY <3>1, <3>3
    <3> QED BY <3>1, <3>2, <3>3 DEF Spread
  <2> QED BY <2>1, <2>2
<1> QED BY <1>1, <1>7, <1>8, <1>9 DEF Spread, Numbered

LEMMA CounterAppended ==
  ASSUME NEW ls \in Seq(OpenLots), NEW first \in Nat, NEW k,
         NEW s \in Seq(OpenLots), NEW next \in Nat, first <= next,
         Spread(s, ls, k, first, next), Numbered(s, next),
         NEW x \in OpenLots, x.id = Counter(next)
  PROVE  Spread(Append(s, x), ls, k, first, next + 1) /\ Numbered(Append(s, x), next + 1)
<1>1. PICK e : e = Append(s, x)
  OBVIOUS
<1>2. /\ Len(e) = Len(s) + 1 /\ e[Len(e)] = x /\ Len(s) \in Nat
      /\ \A j \in 1..Len(s) : e[j] = s[j]
  BY <1>1
<1>3. Numbered(e, next + 1)
  BY <1>1, NewStaysNumbered
<1>4. ASSUME NEW j \in 1..Len(e)
      PROVE  \/ \E m \in 1..k : e[j].id = ls[m].id
             \/ \E q \in first..((next + 1) - 1) : e[j].id = Counter(q)
  <2>1. CASE j = Len(e)
    <3>1. next \in first..((next + 1) - 1)
      OBVIOUS
    <3> QED BY <1>2, <2>1, <3>1
  <2>2. CASE j # Len(e)
    <3>1. j \in 1..Len(s) /\ e[j] = s[j]
      BY <1>2, <2>2
    <3>2. CASE \E m \in 1..k : s[j].id = ls[m].id
      BY <3>1, <3>2
    <3>3. CASE \E q \in first..(next - 1) : s[j].id = Counter(q)
      <4>1. PICK q \in first..(next - 1) : s[j].id = Counter(q)
        BY <3>3
      <4>2. q \in first..((next + 1) - 1)
        OBVIOUS
      <4> QED BY <3>1, <4>1, <4>2
    <3> QED BY <3>1, <3>2, <3>3 DEF Spread
  <2> QED BY <2>1, <2>2
<1> QED BY <1>1, <1>3, <1>4 DEF Spread

LEMMA ClaimLotNames ==
  ASSUME NEW ls \in Seq(OpenLots), NEW first \in Nat, Numbered(ls, first), NEW k \in 1..Len(ls),
         NEW r \in Claims, ClaimGood(r, ls, k - 1, first), NEW c \in Owners
  PROVE  ClaimGood(ClaimLot(r, ls[k], c), ls, k, first)
<1>1. PICK lot, s, due, n : lot = ls[k] /\ s = r.open /\ due = r.due /\ n = r.nextId
  OBVIOUS
<1>2. /\ s \in Seq(OpenLots) /\ due \in Nat /\ n \in Nat /\ lot \in OpenLots
      /\ first <= n /\ Spread(s, ls, k - 1, first, n) /\ Numbered(s, n)
  BY <1>1 DEF Claims, ClaimGood
<1>3. /\ lot.id \in LotNames /\ lot.quantity \in Int \ {0} /\ lot.opened \in Nat
      /\ lot.campaign \in Owners
  BY <1>2 DEF OpenLots
<1>4. PICK next : next = ClaimLot(r, lot, c)
  OBVIOUS
<1>5. CASE due = 0 \/ lot.campaign # NoCampaign \/ lot.quantity < 0
  <2>1. next = [open |-> Append(s, lot), due |-> due, nextId |-> n]
    BY <1>1, <1>4, <1>5 DEF ClaimLot
  <2>2. next.open = Append(s, lot) /\ next.nextId = n
    BY <2>1
  <2>3. Spread(Append(s, lot), ls, k, first, n) /\ Numbered(Append(s, lot), n)
    BY <1>1, <1>2, ClaimAppended
  <2> QED BY <1>1, <1>2, <1>4, <2>2, <2>3 DEF ClaimGood
<1>6. CASE ~(due = 0 \/ lot.campaign # NoCampaign \/ lot.quantity < 0)
  <2>1. PICK part : part = Smaller(lot.quantity, due)
    OBVIOUS
  <2>2. part \in Nat \ {0} /\ lot.quantity - part \in Nat /\ due - part \in Nat
    BY <1>2, <1>3, <1>6, <2>1 DEF Smaller
  <2>3. PICK mine, rest : /\ mine = BuildLot(lot.id, part, lot.opened, c)
                          /\ rest = BuildLot(LotId("LOT", 0, NoCampaign, n),
                                            lot.quantity - part, lot.opened, lot.campaign)
    OBVIOUS
  <2>4. mine \in OpenLots /\ mine.id = lot.id
    BY <1>3, <2>2, <2>3 DEF BuildLot, OpenLots
  <2>5. next = [open |-> s \o (IF part = lot.quantity THEN << mine >> ELSE << mine, rest >>),
                due |-> due - part,
                nextId |-> IF part = lot.quantity THEN n ELSE n + 1]
    BY <1>1, <1>4, <1>6, <2>1, <2>3 DEF ClaimLot
  <2>6. Spread(Append(s, mine), ls, k, first, n) /\ Numbered(Append(s, mine), n)
    BY <1>1, <1>2, <2>4, ClaimAppended
  <2>7. CASE part = lot.quantity
    <3>1. next.open = Append(s, mine) /\ next.nextId = n
      BY <1>2, <2>4, <2>5, <2>7
    <3> QED BY <1>1, <1>2, <1>4, <2>6, <3>1 DEF ClaimGood
  <2>8. CASE part # lot.quantity
    <3>1. rest \in OpenLots /\ rest.id = Counter(n)
      <4>1. LotId("LOT", 0, NoCampaign, n) \in LotNames
        BY <1>2 DEF LotId, LotNames
      <4> QED BY <1>3, <2>2, <2>3, <2>8, <4>1, SMTT(40) DEF BuildLot, OpenLots, Counter
    <3>2. PICK t : t = Append(s, mine)
      OBVIOUS
    <3>3. t \in Seq(OpenLots)
      BY <1>2, <2>4, <3>2
    <3>4. next.open = Append(t, rest) /\ next.nextId = n + 1
      BY <1>2, <2>4, <2>5, <2>8, <3>1, <3>2
    <3>5. Spread(t, ls, k, first, n) /\ Numbered(t, n)
      BY <2>6, <3>2
    <3>6. Spread(Append(t, rest), ls, k, first, n + 1) /\ Numbered(Append(t, rest), n + 1)
      BY <1>2, <3>1, <3>3, <3>5, CounterAppended
    <3>7. first <= n + 1
      BY <1>2
    <3> QED BY <1>1, <1>4, <3>4, <3>6, <3>7 DEF ClaimGood
  <2> QED BY <2>7, <2>8
<1> QED BY <1>5, <1>6

LEMMA ClaimRunNames ==
  ASSUME NEW ls \in Seq(OpenLots), NEW quantity \in Nat, NEW first \in Nat, NEW c \in Owners,
         Numbered(ls, first)
  PROVE  ClaimGood(ClaimRun(ls, quantity, first, c), ls, Len(ls), first)
<1>1. PICK f \in [0..Len(ls) -> Claims] :
        /\ f[0] = [open |-> << >>, due |-> quantity, nextId |-> first]
        /\ \A k \in 1..Len(ls) : f[k] = ClaimLot(f[k - 1], ls[k], c)
        /\ ClaimRun(ls, quantity, first, c) = f[Len(ls)]
  BY ClaimLoop
<1>2. Len(ls) \in Nat
  OBVIOUS
<1> DEFINE S == { k \in 0..Len(ls) : ClaimGood(f[k], ls, k, first) }
<1>3. 0 \in S
  <2>1. f[0].open = << >> /\ f[0].nextId = first
    BY <1>1
  <2>2. ClaimGood(f[0], ls, 0, first)
    BY <2>1 DEF ClaimGood, Spread, Numbered, NamedApart, AllUnder
  <2> QED BY <1>2, <2>2
<1>4. ASSUME NEW k \in 1..Len(ls), k - 1 \in S PROVE k \in S
  <2>1. k - 1 \in 0..Len(ls) /\ k \in 0..Len(ls)
    BY <1>2
  <2>2. f[k - 1] \in Claims /\ ClaimGood(f[k - 1], ls, k - 1, first)
    BY <1>1, <1>4, <2>1
  <2>3. ClaimGood(ClaimLot(f[k - 1], ls[k], c), ls, k, first)
    BY <2>2, ClaimLotNames
  <2> QED BY <1>1, <2>1, <2>3
<1>5. \A k \in 0..Len(ls) : k \in S
  <2> HIDE DEF S
  <2> QED BY <1>2, <1>3, <1>4, Upward
<1>6. Len(ls) \in S
  BY <1>2, <1>5
<1> QED BY <1>1, <1>6

-----------------------------------------------------------------------------
(***************************************************************************)
(* What a change, an event and a trade do to identifiers and owners.       *)
(***************************************************************************)
\* A lot of the second list is one of the first, with its campaign, or was
\* given a number from n on.
KinOrNew(before, after, n) ==
  \A j \in 1..Len(after) :
    \/ \E k \in 1..Len(before) : after[j].id = before[k].id /\ after[j].campaign = before[k].campaign
    \/ \E q \in Nat : n <= q /\ after[j].id = Counter(q)

AllNumbered(b) == \A i \in Instruments : Numbered(b.lots[i], b.nextId)

\* A step from one book to another that gives out numbers as it should.
Counts(b, d) == AllNumbered(b) => AllNumbered(d) /\ b.nextId <= d.nextId

Keeps(b, d, i) == AllNumbered(b) => KinOrNew(b.lots[i], d.lots[i], b.nextId)

LEMMA KinOfIsKin ==
  ASSUME NEW ls, NEW open, KinOf(open, ls), NEW n
  PROVE  KinOrNew(ls, open, n)
BY DEF KinOf, AmongLots, KinOrNew

LEMMA KinOfSelf ==
  ASSUME NEW ls, NEW n
  PROVE  KinOrNew(ls, ls, n)
BY DEF KinOrNew

LEMMA KinAppended ==
  ASSUME NEW ls \in Seq(OpenLots), NEW open \in Seq(OpenLots), NEW n \in Nat, KinOrNew(ls, open, n),
         NEW x, NEW q \in Nat, n <= q, x.id = Counter(q)
  PROVE  KinOrNew(ls, Append(open, x), n)
<1>1. PICK e : e = Append(open, x)
  OBVIOUS
<1>2. /\ Len(e) = Len(open) + 1 /\ e[Len(e)] = x /\ Len(open) \in Nat
      /\ \A j \in 1..Len(open) : e[j] = open[j]
  BY <1>1
<1>3. \A j \in 1..Len(e) : j = Len(e) \/ j \in 1..Len(open)
  BY <1>2
<1>4. ASSUME NEW j \in 1..Len(e)
      PROVE  \/ \E k \in 1..Len(ls) : e[j].id = ls[k].id /\ e[j].campaign = ls[k].campaign
             \/ \E p \in Nat : n <= p /\ e[j].id = Counter(p)
  <2>1. CASE j = Len(e)
    BY <1>2, <2>1
  <2>2. CASE j \in 1..Len(open)
    BY <1>2, <2>2 DEF KinOrNew
  <2> QED BY <1>3, <2>1, <2>2
<1> QED BY <1>1, <1>4 DEF KinOrNew

LEMMA KinOfKin ==
  ASSUME NEW a, NEW b, NEW c, NEW n \in Nat, NEW m \in Nat, n <= m,
         KinOrNew(a, b, n), KinOrNew(b, c, m)
  PROVE  KinOrNew(a, c, n)
<1>1. ASSUME NEW j \in 1..Len(c)
      PROVE  \/ \E k \in 1..Len(a) : c[j].id = a[k].id /\ c[j].campaign = a[k].campaign
             \/ \E p \in Nat : n <= p /\ c[j].id = Counter(p)
  <2>1. CASE \E k \in 1..Len(b) : c[j].id = b[k].id /\ c[j].campaign = b[k].campaign
    BY <2>1 DEF KinOrNew
  <2>2. CASE \E p \in Nat : m <= p /\ c[j].id = Counter(p)
    BY <2>2
  <2> QED BY <2>1, <2>2 DEF KinOrNew
<1> QED BY <1>1 DEF KinOrNew

\* A book with one list of lots replaced.
LEMMA RewrittenCounts ==
  ASSUME NEW b \in Books, NEW d \in Books, NEW i \in Instruments, NEW s, NEW n \in Nat, NEW ok, NEW t,
         Rewrites(d, b.lots, i, s, n, ok, t), b.nextId <= n,
         AllNumbered(b) => Numbered(s, n)
  PROVE  Counts(b, d)
<1> SUFFICES ASSUME AllNumbered(b) PROVE AllNumbered(d) /\ b.nextId <= d.nextId
  BY DEF Counts
<1>1. d.nextId = n /\ d.lots[i] = s /\ \A j \in Instruments : j # i => d.lots[j] = b.lots[j]
  BY DEF Rewrites
<1>2. b.nextId \in Nat
  BY BookFields
<1>3. ASSUME NEW j \in Instruments PROVE Numbered(d.lots[j], d.nextId)
  <2>1. CASE j = i
    BY <1>1, <2>1
  <2>2. CASE j # i
    <3>1. b.lots[j] \in Seq(OpenLots)
      BY BookFields
    <3>2. NamedApart(b.lots[j]) /\ AllUnder(b.lots[j], b.nextId)
      BY DEF AllNumbered, Numbered
    <3>3. AllUnder(b.lots[j], n)
      BY <1>2, <3>1, <3>2, AllUnderGrows
    <3> QED BY <1>1, <2>2, <3>2, <3>3 DEF Numbered
  <2> QED BY <2>1, <2>2
<1> QED BY <1>1, <1>3 DEF AllNumbered

LEMMA CountsOfCounts ==
  ASSUME NEW a \in Books, NEW b \in Books, NEW c \in Books, Counts(a, b), Counts(b, c)
  PROVE  Counts(a, c)
<1>1. a.nextId \in Nat /\ b.nextId \in Nat /\ c.nextId \in Nat
  BY BookFields
<1> QED BY <1>1 DEF Counts

LEMMA KeepsOfKeeps ==
  ASSUME NEW a \in Books, NEW b \in Books, NEW c \in Books, NEW i,
         Counts(a, b), Keeps(a, b, i), Keeps(b, c, i)
  PROVE  Keeps(a, c, i)
<1> SUFFICES ASSUME AllNumbered(a) PROVE KinOrNew(a.lots[i], c.lots[i], a.nextId)
  BY DEF Keeps
<1>1. AllNumbered(b) /\ a.nextId <= b.nextId
  BY DEF Counts
<1>2. PICK la, lb, lc, n, m : /\ la = a.lots[i] /\ lb = b.lots[i] /\ lc = c.lots[i]
                              /\ n = a.nextId /\ m = b.nextId
  OBVIOUS
<1>3. KinOrNew(la, lb, n) /\ KinOrNew(lb, lc, m)
  BY <1>1, <1>2 DEF Keeps
<1>4. n \in Nat /\ m \in Nat /\ n <= m
  BY <1>1, <1>2, BookFields
<1>5. KinOrNew(la, lc, n)
  BY <1>3, <1>4, KinOfKin
<1> QED BY <1>2, <1>5

LEMMA AppendNewCounts ==
  ASSUME NEW b \in Books, NEW i \in Instruments, NEW q \in Int \ {0}, NEW now \in Nat, NEW c \in Owners,
         NEW d, d = AppendNew(b, i, q, now, c)
  PROVE  /\ d \in Books /\ Counts(b, d)
         /\ \A j \in Instruments : Keeps(b, d, j) /\ (j # i => d.lots[j] = b.lots[j])
<1>1. PICK x : x = BuildLot(NewId(b), q, now, c)
  OBVIOUS
<1>2. d \in Books /\ x \in OpenLots
  BY <1>1, AppendNewTypes
<1>3. PICK ls, n, s, ok, t : /\ ls = b.lots[i] /\ n = b.nextId /\ s = Append(ls, x)
                             /\ ok = b.ok /\ t = b.taken
  OBVIOUS
<1>4. ls \in Seq(OpenLots) /\ n \in Nat
  BY <1>3, BookFields
<1>5. Rewrites(d, b.lots, i, s, n + 1, ok, t)
  <2>1. Rewrites(d, b.lots, i, Append(b.lots[i], BuildLot(NewId(b), q, now, c)),
                 b.nextId + 1, b.ok, b.taken)
    BY AppendNewIs
  <2> QED BY <1>1, <1>3, <2>1
<1>6. x.id = Counter(n)
  BY <1>1, <1>3 DEF BuildLot, NewId, Counter
<1>7. AllNumbered(b) => Numbered(s, n + 1)
  <2> SUFFICES ASSUME AllNumbered(b) PROVE Numbered(s, n + 1)
    OBVIOUS
  <2>1. Numbered(ls, n)
    BY <1>3 DEF AllNumbered
  <2>2. Numbered(Append(ls, x), n + 1)
    BY <1>2, <1>4, <1>6, <2>1, NewStaysNumbered
  <2> QED BY <1>3, <2>2
<1>8. Counts(b, d)
  <2>1. n + 1 \in Nat /\ b.nextId <= n + 1
    BY <1>3, <1>4
  <2> QED BY <1>2, <1>5, <1>7, <2>1, RewrittenCounts
<1>9. ASSUME NEW j \in Instruments PROVE Keeps(b, d, j) /\ (j # i => d.lots[j] = b.lots[j])
  <2>1. d.lots[i] = s /\ \A k \in Instruments : k # i => d.lots[k] = b.lots[k]
    BY <1>5 DEF Rewrites
  <2>2. CASE j = i
    <3>1. KinOrNew(ls, ls, n)
      BY KinOfSelf
    <3>2. KinOrNew(ls, Append(ls, x), n)
      <4>1. n <= n
        BY <1>4
      <4> QED BY <1>4, <1>6, <3>1, <4>1, KinAppended
    <3> QED BY <1>3, <2>1, <2>2, <3>2 DEF Keeps
  <2>3. CASE j # i
    <3>1. KinOrNew(b.lots[j], b.lots[j], n)
      BY KinOfSelf
    <3> QED BY <1>3, <2>1, <2>3, <3>1 DEF Keeps
  <2> QED BY <2>2, <2>3
<1> QED BY <1>2, <1>8, <1>9

\* Lots of one instrument closed in part.
LEMMA ClosedCounts ==
  ASSUME NEW b \in Books, NEW i \in Instruments, NEW due \in Int, NEW c \in Owners,
         NEW d \in Books, NEW ok, NEW t,
         Rewrites(d, b.lots, i, CloseRun(b.lots[i], due, c).open, b.nextId, ok, t)
  PROVE  /\ Counts(b, d)
         /\ \A j \in Instruments : Keeps(b, d, j) /\ (j # i => d.lots[j] = b.lots[j])
<1>1. PICK ls, n, s : ls = b.lots[i] /\ n = b.nextId /\ s = CloseRun(ls, due, c).open
  OBVIOUS
<1>2. ls \in Seq(OpenLots) /\ n \in Nat /\ n <= n
  BY <1>1, BookFields
<1>3. Rewrites(d, b.lots, i, s, n, ok, t)
  BY <1>1
<1>4. AllNumbered(b) => Numbered(s, n)
  <2> SUFFICES ASSUME AllNumbered(b) PROVE Numbered(s, n)
    OBVIOUS
  <2>1. Numbered(ls, n)
    BY <1>1 DEF AllNumbered
  <2> QED BY <1>1, <1>2, <2>1, ClosedStayNumbered
<1>5. Counts(b, d)
  BY <1>1, <1>2, <1>3, <1>4, RewrittenCounts
<1>6. KinOrNew(ls, s, n)
  <2>1. KinOf(s, ls)
    BY <1>1, <1>2, CloseRunNames
  <2> QED BY <2>1, KinOfIsKin
<1>7. d.lots[i] = s /\ \A j \in Instruments : j # i => d.lots[j] = b.lots[j]
  BY <1>3 DEF Rewrites
<1>8. ASSUME NEW j \in Instruments PROVE Keeps(b, d, j)
  <2>1. CASE j = i
    BY <1>1, <1>6, <1>7, <2>1 DEF Keeps
  <2>2. CASE j # i
    <3>1. KinOrNew(b.lots[j], b.lots[j], n)
      BY KinOfSelf
    <3> QED BY <1>1, <1>7, <2>2, <3>1 DEF Keeps
  <2> QED BY <2>1, <2>2
<1> QED BY <1>5, <1>7, <1>8

LEMMA LegCounts ==
  ASSUME NEW b \in Books, b.ok, NEW leg \in LegRecords, NEW now \in Nat, NEW c \in Owners,
         NEW d, d = ApplyLeg([b EXCEPT !.taken = << >>], leg, now, c)
  PROVE  Counts(b, d)
<1>1. PICK i, e, due : i = leg.instrument /\ e = [b EXCEPT !.taken = << >>] /\ due = Executed(leg)
  OBVIOUS
<1>2. i \in Instruments /\ due \in Int \ {0} /\ leg.effect \in {"OPEN", "CLOSE"}
  BY <1>1, ExecutedTypes
<1>3. e \in Books /\ e.lots = b.lots /\ e.nextId = b.nextId /\ e.ok = b.ok
  BY <1>1, TakenReset
<1>4. d \in Books
  BY <1>1, <1>3, ApplyLegTypes
<1>5. Counts(e, d)
  <2>1. CASE leg.effect = "OPEN"
    <3>1. d = AppendNew(e, i, due, now, c)
      BY <1>1, <1>3, <2>1 DEF ApplyLeg
    <3> QED BY <1>2, <1>3, <3>1, AppendNewCounts
  <2>2. CASE leg.effect = "CLOSE"
    <3>1. PICK run, lots, n, ok, t, s :
            /\ run = CloseRun(e.lots[i], due, c) /\ lots = e.lots /\ n = e.nextId
            /\ ok = (run.due = 0) /\ t = e.taken \o run.taken /\ s = run.open
      OBVIOUS
    <3>2. d = [lots |-> [lots EXCEPT ![i] = s], nextId |-> n, ok |-> ok, taken |-> t]
      BY <1>1, <1>3, <2>2, <3>1 DEF ApplyLeg
    <3>3. lots \in [Instruments -> Seq(OpenLots)]
      BY <1>3, <3>1, BookFields
    <3>4. Rewrites(d, lots, i, s, n, ok, t)
      BY <1>2, <3>2, <3>3, Rewritten
    <3>5. Rewrites(d, e.lots, i, CloseRun(e.lots[i], due, c).open, e.nextId, ok, t)
      BY <3>1, <3>4
    <3> QED BY <1>2, <1>3, <1>4, <3>5, ClosedCounts
  <2> QED BY <1>2, <2>1, <2>2
<1>6. AllNumbered(b) <=> AllNumbered(e)
  BY <1>3 DEF AllNumbered
<1> QED BY <1>3, <1>5, <1>6 DEF Counts

LEMMA ChangeCounts ==
  ASSUME NEW b \in Books, NEW change \in ChangeRecords, NEW now \in Nat, NEW c \in Owners,
         NEW d, d = ApplyChange(b, change, now, c)
  PROVE  /\ d \in Books /\ Counts(b, d)
         /\ \A j \in Instruments : Keeps(b, d, j) /\ (j # change.instrument => d.lots[j] = b.lots[j])
<1>1. PICK i, due : i = change.instrument /\ due = change.quantity
  OBVIOUS
<1>2. i \in Instruments /\ due \in Int
  BY <1>1 DEF ChangeRecords
<1>3. PICK run, lots, n, ok, t, s :
        /\ run = CloseRun(b.lots[i], due, NoCampaign) /\ lots = b.lots /\ n = b.nextId
        /\ ok = b.ok /\ t = b.taken \o run.taken /\ s = run.open
  OBVIOUS
<1>4. PICK closed : closed = [lots |-> [lots EXCEPT ![i] = s], nextId |-> n, ok |-> ok, taken |-> t]
  OBVIOUS
<1>5. /\ lots \in [Instruments -> Seq(OpenLots)] /\ n \in Nat /\ ok \in BOOLEAN
      /\ b.taken \in Seq(OpenLots) /\ lots[i] \in Seq(OpenLots)
  BY <1>2, <1>3, BookFields
<1>6. /\ run.open \in Seq(OpenLots) /\ run.due \in Int /\ run.taken \in Seq(OpenLots)
  <2>1. NoCampaign \in Owners
    BY DEF Owners
  <2> QED BY <1>2, <1>3, <1>5, <2>1, CloseRunTypes
<1>7. closed \in Books
  <2>1. PICK m : m = [lots EXCEPT ![i] = s]
    OBVIOUS
  <2>2. m \in [Instruments -> Seq(OpenLots)]
    BY <1>2, <1>3, <1>5, <1>6, <2>1
  <2>3. t \in Seq(OpenLots)
    <3>1. PICK x, y : x = b.taken /\ y = run.taken
      OBVIOUS
    <3>2. x \in Seq(OpenLots) /\ y \in Seq(OpenLots) /\ t = x \o y
      BY <1>3, <1>5, <1>6, <3>1
    <3>3. x \o y \in Seq(OpenLots)
      BY <3>2
    <3> QED BY <3>2, <3>3
  <2> QED BY <1>4, <1>5, <2>1, <2>2, <2>3 DEF Books
<1>8. Rewrites(closed, lots, i, s, n, ok, t)
  BY <1>2, <1>4, <1>5, Rewritten
<1>9. Rewrites(closed, b.lots, i, CloseRun(b.lots[i], due, NoCampaign).open, b.nextId, ok, t)
  BY <1>3, <1>8
<1>10. NoCampaign \in Owners
  BY DEF Owners
<1>11. Counts(b, closed)
  BY <1>2, <1>7, <1>9, <1>10, ClosedCounts
<1>12. \A j \in Instruments : Keeps(b, closed, j) /\ (j # i => closed.lots[j] = b.lots[j])
  BY <1>2, <1>7, <1>9, <1>10, ClosedCounts, ZenonT(60)
<1>13. CASE run.due = 0
  <2>1. d = closed
    BY <1>1, <1>3, <1>4, <1>13 DEF ApplyChange
  <2> QED BY <1>1, <1>7, <1>11, <1>12, <2>1
<1>14. CASE run.due # 0
  <2>1. d = AppendNew(closed, i, run.due, now, c)
    BY <1>1, <1>3, <1>4, <1>14 DEF ApplyChange
  <2>2. run.due \in Int \ {0}
    BY <1>6, <1>14
  <2>3. d \in Books /\ Counts(closed, d)
    BY <1>2, <1>7, <2>1, <2>2, AppendNewCounts
  <2>4. \A j \in Instruments : Keeps(closed, d, j) /\ (j # i => d.lots[j] = closed.lots[j])
    BY <1>2, <1>7, <2>1, <2>2, AppendNewCounts
  <2>5. Counts(b, d)
    BY <1>7, <1>11, <2>3, CountsOfCounts
  <2>6. ASSUME NEW j \in Instruments PROVE Keeps(b, d, j) /\ (j # i => d.lots[j] = b.lots[j])
    <3>1. Keeps(b, d, j)
      BY <1>7, <1>11, <1>12, <2>3, <2>4, KeepsOfKeeps
    <3> QED BY <1>12, <2>4, <3>1
  <2> QED BY <1>1, <2>3, <2>5, <2>6
<1> QED BY <1>13, <1>14

LEMMA ClaimCounts ==
  ASSUME NEW b \in Books, NEW i \in Instruments, NEW quantity \in Nat, NEW c \in Owners,
         NEW d, d = ClaimUnassigned(b, i, quantity, c)
  PROVE  /\ d \in Books /\ Counts(b, d)
         /\ \A j \in Instruments : j # i => d.lots[j] = b.lots[j]
<1>1. d \in Books
  BY ClaimUnassignedTypes
<1>2. PICK ls, lots, n, r : /\ ls = b.lots[i] /\ lots = b.lots /\ n = b.nextId
                            /\ r = ClaimRun(ls, quantity, n, c)
  OBVIOUS
<1>3. /\ lots \in [Instruments -> Seq(OpenLots)] /\ n \in Nat /\ ls \in Seq(OpenLots)
  BY <1>2, BookFields
<1>4. CASE Unclaimed(ls) = {}
  <2>1. d = b
    BY <1>2, <1>4 DEF ClaimUnassigned
  <2> QED BY <1>1, <1>3, <1>2, <2>1 DEF Counts
<1>5. CASE Unclaimed(ls) # {}
  <2>1. PICK s, m, ok, t : s = r.open /\ m = r.nextId /\ ok = (r.due = 0) /\ t = b.taken
    OBVIOUS
  <2>2. d = [lots |-> [lots EXCEPT ![i] = s], nextId |-> m, ok |-> ok, taken |-> t]
    BY <1>2, <1>5, <2>1 DEF ClaimUnassigned
  <2>3. Rewrites(d, lots, i, s, m, ok, t)
    BY <1>3, <2>2, Rewritten
  <2>4. r \in Claims
    BY <1>2, <1>3, ClaimRunTypes
  <2>5. m \in Nat
    BY <2>1, <2>4 DEF Claims
  <2>6. ASSUME AllNumbered(b) PROVE AllNumbered(d) /\ n <= m
    <3>1. Numbered(ls, n)
      BY <1>2, <2>6 DEF AllNumbered
    <3>2. ClaimGood(r, ls, Len(ls), n)
      BY <1>2, <1>3, <3>1, ClaimRunNames
    <3>3. n <= m /\ Numbered(s, m)
      BY <2>1, <3>2 DEF ClaimGood
    <3>4. Counts(b, d)
      BY <1>1, <1>2, <2>3, <2>5, <3>3, RewrittenCounts
    <3> QED BY <2>6, <3>3, <3>4 DEF Counts
  <2>7. Counts(b, d)
    <3>1. d.nextId = m
      BY <2>3 DEF Rewrites
    <3> QED BY <1>2, <2>6, <3>1 DEF Counts
  <2>8. \A j \in Instruments : j # i => d.lots[j] = b.lots[j]
    BY <1>2, <2>3 DEF Rewrites
  <2> QED BY <1>1, <2>7, <2>8
<1> QED BY <1>4, <1>5

LEMMA ResetCounts ==
  ASSUME NEW b \in Books, NEW e, e = [b EXCEPT !.taken = << >>]
  PROVE  e \in Books /\ Counts(b, e) /\ \A j \in Instruments : Keeps(b, e, j) /\ e.lots[j] = b.lots[j]
<1>1. e \in Books /\ e.lots = b.lots /\ e.nextId = b.nextId
  BY TakenReset
<1>2. b.nextId \in Nat
  BY BookFields
<1>3. Counts(b, e)
  BY <1>1, <1>2 DEF Counts, AllNumbered
<1>4. ASSUME NEW j \in Instruments PROVE Keeps(b, e, j)
  <2>1. KinOrNew(b.lots[j], b.lots[j], b.nextId)
    BY KinOfSelf
  <2> QED BY <1>1, <2>1 DEF Keeps
<1> QED BY <1>1, <1>3, <1>4

\* Owners of an instrument's lots are kept unless an assignment takes shares.
Gentle(i, change) == i # change.instrument \/ i \in Options \/ change.quantity > 0

LEMMA EventChangeCounts ==
  ASSUME NEW r \in EventRuns, NEW event \in EventRecords, NEW change \in ChangeRecords,
         NEW next, next = EventChange(r, event, change)
  PROVE  /\ next \in EventRuns /\ Counts(r.book, next.book)
         /\ \A i \in Instruments : /\ i # change.instrument => next.book.lots[i] = r.book.lots[i]
                                   /\ Gentle(i, change) => Keeps(r.book, next.book, i)
<1>1. PICK b, o, i, q : b = r.book /\ o = r.owner /\ i = change.instrument /\ q = change.quantity
  OBVIOUS
<1>2. b \in Books /\ o \in Owners /\ i \in Instruments /\ q \in Int /\ event.time \in Nat
      /\ NoCampaign \in Owners
  BY <1>1 DEF EventRuns, ChangeRecords, EventRecords, Owners
<1>3. next \in EventRuns
  BY EventChangeTypes
<1>4. CASE ~b.ok
  <2>1. next = r
    BY <1>1, <1>4 DEF EventChange
  <2>2. b.nextId \in Nat
    BY <1>2, BookFields
  <2>3. \A j \in Instruments : Keeps(b, b, j)
    BY KinOfSelf DEF Keeps
  <2>4. Counts(b, b)
    BY <2>2 DEF Counts
  <2> QED BY <1>1, <1>3, <2>1, <2>3, <2>4
<1>5. CASE b.ok /\ i \in Options
  <2>1. PICK e : e = [b EXCEPT !.taken = << >>]
    OBVIOUS
  <2>2. PICK d : d = ApplyChange(e, change, event.time, NoCampaign)
    OBVIOUS
  <2>3. next.book = d
    <3>1. next = [book |-> d, owner |-> OwnerOf(d.taken, event.kind, o)]
      BY <1>1, <1>5, <2>1, <2>2 DEF EventChange
    <3> QED BY <3>1
  <2>4. e \in Books /\ Counts(b, e)
    BY <1>2, <2>1, ResetCounts
  <2>5. \A j \in Instruments : Keeps(b, e, j) /\ e.lots[j] = b.lots[j]
    BY <1>2, <2>1, ResetCounts
  <2>6. d \in Books /\ Counts(e, d)
    BY <1>2, <2>2, <2>4, ChangeCounts
  <2>7. \A j \in Instruments : Keeps(e, d, j) /\ (j # i => d.lots[j] = e.lots[j])
    BY <1>1, <1>2, <2>2, <2>4, ChangeCounts
  <2>8. Counts(b, d)
    BY <1>2, <2>4, <2>6, CountsOfCounts
  <2>9. \A j \in Instruments : Keeps(b, d, j)
    BY <1>2, <2>4, <2>5, <2>6, <2>7, KeepsOfKeeps
  <2> QED BY <1>1, <1>3, <2>3, <2>5, <2>7, <2>8, <2>9
<1>6. CASE b.ok /\ i \notin Options
  <2>1. PICK bound : bound = IF o # NoCampaign /\ q < 0 THEN ClaimUnassigned(b, i, -q, o) ELSE b
    OBVIOUS
  <2>2. PICK d : d = ApplyChange(bound, change, event.time, o)
    OBVIOUS
  <2>3. next.book = IF bound.ok THEN d ELSE bound
    <3>1. next = [book |-> IF bound.ok THEN d ELSE bound, owner |-> o]
      BY <1>1, <1>6, <2>1, <2>2 DEF EventChange
    <3> QED BY <3>1
  <2>4. bound \in Books /\ Counts(b, bound) /\ \A j \in Instruments : j # i => bound.lots[j] = b.lots[j]
    <3>1. CASE o # NoCampaign /\ q < 0
      <4>1. -q \in Nat
        BY <1>2, <3>1
      <4>2. bound = ClaimUnassigned(b, i, -q, o)
        BY <2>1, <3>1
      <4>3. PICK n : n = -q
        OBVIOUS
      <4>4. n \in Nat /\ bound = ClaimUnassigned(b, i, n, o)
        BY <4>1, <4>2, <4>3
      <4>5. bound \in Books /\ Counts(b, bound)
        BY <1>2, <4>4, ClaimCounts
      <4>6. \A j \in Instruments : j # i => bound.lots[j] = b.lots[j]
        BY <1>2, <4>4, ClaimCounts, SMTT(40)
      <4> QED BY <4>5, <4>6
    <3>2. CASE ~(o # NoCampaign /\ q < 0)
      <4>1. bound = b
        BY <2>1, <3>2
      <4>2. b.nextId \in Nat
        BY <1>2, BookFields
      <4> QED BY <1>2, <4>1, <4>2 DEF Counts
    <3> QED BY <3>1, <3>2
  <2>5. \A j \in Instruments : Gentle(j, change) => Keeps(b, bound, j)
    <3> SUFFICES ASSUME NEW j \in Instruments, Gentle(j, change) PROVE Keeps(b, bound, j)
      OBVIOUS
    <3>1. bound.lots[j] = b.lots[j]
      <4>1. CASE j # i
        BY <2>4, <4>1
      <4>2. CASE j = i
        <5>1. q > 0
          BY <1>1, <1>6, <4>2 DEF Gentle
        <5>2. bound = b
          BY <1>2, <2>1, <5>1
        <5> QED BY <5>2
      <4> QED BY <4>1, <4>2
    <3>2. KinOrNew(b.lots[j], b.lots[j], b.nextId)
      BY KinOfSelf
    <3> QED BY <3>1, <3>2 DEF Keeps
  <2>6. d \in Books /\ Counts(bound, d)
    BY <1>2, <2>2, <2>4, ChangeCounts
  <2>7. \A j \in Instruments : Keeps(bound, d, j) /\ (j # i => d.lots[j] = bound.lots[j])
    BY <1>1, <1>2, <2>2, <2>4, ChangeCounts
  <2>8. CASE bound.ok
    <3>1. Counts(b, d)
      BY <1>2, <2>4, <2>6, CountsOfCounts
    <3>2. \A j \in Instruments : Gentle(j, change) => Keeps(b, d, j)
      BY <1>2, <2>4, <2>5, <2>6, <2>7, KeepsOfKeeps
    <3> QED BY <1>1, <1>3, <2>3, <2>4, <2>7, <2>8, <3>1, <3>2
  <2>9. CASE ~bound.ok
    BY <1>1, <1>3, <2>3, <2>4, <2>5, <2>9
  <2> QED BY <2>8, <2>9
<1> QED BY <1>4, <1>5, <1>6

LEMMA EventCounts ==
  ASSUME NEW b \in Books, NEW event \in EventRecords, NEW d, d = ApplyEvent(b, event)
  PROVE  /\ d \in Books /\ Counts(b, d)
         /\ \A i \in Instruments :
              /\ (\A k \in 1..Len(event.changes) : event.changes[k].instrument # i)
                   => d.lots[i] = b.lots[i]
              /\ (\A k \in 1..Len(event.changes) : Gentle(i, event.changes[k])) => Keeps(b, d, i)
<1>1. PICK m, ch : m = Len(event.changes) /\ ch = event.changes
  OBVIOUS
<1>2. m \in Nat /\ \A k \in 1..m : ch[k] \in ChangeRecords
  <2>1. ch \in Seq(ChangeRecords)
    BY <1>1 DEF EventRecords
  <2> QED BY <1>1, <2>1
<1>3. PICK f \in [0..m -> EventRuns] :
        /\ f[0] = [book |-> b, owner |-> NoCampaign]
        /\ \A k \in 1..m : f[k] = EventChange(f[k - 1], event, ch[k])
        /\ ApplyEvent(b, event) = f[m].book
  BY <1>1, ApplyEventLoop
<1> DEFINE Good(k) ==
      /\ Counts(b, f[k].book)
      /\ \A i \in Instruments :
           /\ (\A j \in 1..k : ch[j].instrument # i) => f[k].book.lots[i] = b.lots[i]
           /\ (\A j \in 1..k : Gentle(i, ch[j])) => Keeps(b, f[k].book, i)
   S == { k \in 0..m : Good(k) }
<1>4. 0 \in S
  <2>1. f[0].book = b
    BY <1>3
  <2>2. b.nextId \in Nat
    BY BookFields
  <2>3. \A i \in Instruments : Keeps(b, b, i)
    BY KinOfSelf DEF Keeps
  <2>4. Counts(b, b)
    BY <2>2 DEF Counts
  <2> QED BY <1>2, <2>1, <2>3, <2>4
<1>5. ASSUME NEW k \in 1..m, k - 1 \in S PROVE k \in S
  <2>1. k - 1 \in 0..m /\ k \in 0..m
    BY <1>2
  <2>2. PICK p, q : p = f[k - 1] /\ q = f[k]
    OBVIOUS
  <2>3. p \in EventRuns /\ ch[k] \in ChangeRecords /\ q = EventChange(p, event, ch[k])
    BY <1>2, <1>3, <2>1, <2>2
  <2>4. q \in EventRuns /\ Counts(p.book, q.book)
    BY <2>3, EventChangeCounts
  <2>5. \A i \in Instruments : /\ i # ch[k].instrument => q.book.lots[i] = p.book.lots[i]
                               /\ Gentle(i, ch[k]) => Keeps(p.book, q.book, i)
    BY <2>3, EventChangeCounts
  <2>6. p.book \in Books /\ q.book \in Books
    BY <2>3, <2>4 DEF EventRuns
  <2>7. Good(k - 1)
    BY <1>5
  <2>8. Counts(b, q.book)
    BY <2>2, <2>4, <2>6, <2>7, CountsOfCounts
  <2>9. ASSUME NEW i \in Instruments, \A j \in 1..k : ch[j].instrument # i
        PROVE  q.book.lots[i] = b.lots[i]
    <3>1. \A j \in 1..(k - 1) : ch[j].instrument # i
      BY <2>9
    <3>2. i # ch[k].instrument
      BY <2>9
    <3> QED BY <2>2, <2>5, <2>7, <3>1, <3>2
  <2>10. ASSUME NEW i \in Instruments, \A j \in 1..k : Gentle(i, ch[j])
         PROVE  Keeps(b, q.book, i)
    <3>1. \A j \in 1..(k - 1) : Gentle(i, ch[j])
      BY <2>10
    <3>2. Gentle(i, ch[k])
      BY <2>10
    <3>3. Keeps(b, p.book, i) /\ Counts(b, p.book)
      BY <2>2, <2>7, <3>1
    <3>4. Keeps(p.book, q.book, i)
      BY <2>5, <3>2
    <3> QED BY <2>6, <3>3, <3>4, KeepsOfKeeps
  <2>11. Good(k)
    BY <2>2, <2>8, <2>9, <2>10
  <2> QED BY <2>1, <2>11
<1>6. \A k \in 0..m : k \in S
  <2> HIDE DEF S
  <2> QED BY <1>2, <1>4, <1>5, Upward
<1>7. Good(m) /\ f[m].book \in Books
  <2>1. m \in S /\ m \in 0..m
    BY <1>2, <1>6
  <2> QED BY <1>3, <2>1 DEF EventRuns
<1> QED BY <1>1, <1>3, <1>7

-----------------------------------------------------------------------------
(***************************************************************************)
(* What an event enters in the journal: the gains of the lots, each under  *)
(* the campaign that has it.                                               *)
(***************************************************************************)
NamedWeight(P) == [lot \in OpenLots |-> IF lot.id \in P THEN lot.quantity ELSE 0]

LEMMA NamedWeightTypes ==
  ASSUME NEW P
  PROVE  /\ NamedWeight(P) \in [OpenLots -> Int]
         /\ \A s \in Seq(OpenLots) : Weight(NamedWeight(P), s) \in Int
<1>1. NamedWeight(P) \in [OpenLots -> Int]
  BY DEF NamedWeight, OpenLots
<1> QED BY <1>1, WeightIs

\* The lots with one of the names hold together what each of the names holds.
LEMMA HeldInSum ==
  ASSUME NEW ls \in Seq(OpenLots), NEW P, IsFiniteSet(P)
  PROVE  SumFunction([id \in P |-> Held(ls, id)]) = Weight(NamedWeight(P), ls)
<1>1. PICK W : W = [id \in P |-> IdWeight(id)]
  OBVIOUS
<1>2. W \in [P -> [OpenLots -> Int]]
  BY <1>1, LotWeights
<1>3. ASSUME NEW x \in OpenLots
      PROVE  SumFunction([id \in P |-> W[id][x]]) = NamedWeight(P)[x]
  <2>1. PICK f : f = [id \in P |-> W[id][x]]
    OBVIOUS
  <2>2. f \in [P -> Int] /\ \A id \in P : f[id] = IF x.id = id THEN x.quantity ELSE 0
    <3>1. \A id \in P : W[id][x] = IF x.id = id THEN x.quantity ELSE 0
      BY <1>1, <1>3 DEF IdWeight
    <3>2. x.quantity \in Int
      BY <1>3 DEF OpenLots
    <3> QED BY <2>1, <3>1, <3>2
  <2>3. NamedWeight(P)[x] = IF x.id \in P THEN x.quantity ELSE 0
    BY <1>3 DEF NamedWeight
  <2>4. CASE x.id \in P
    <3>1. PICK a : a = x.id
      OBVIOUS
    <3>2. a \in P /\ \A y \in P : y # a => f[y] = 0
      BY <2>2, <2>4, <3>1
    <3>3. SumFunction(f) = f[a]
      BY <2>2, <3>2, SumOfOne
    <3> QED BY <2>1, <2>2, <2>3, <2>4, <3>1, <3>3
  <2>5. CASE x.id \notin P
    <3>1. \A y \in P : f[y] = 0
      BY <2>2, <2>5
    <3>2. SumFunction(f) = 0
      BY <2>2, <3>1, SumOfZeros
    <3> QED BY <2>1, <2>3, <2>5, <3>2
  <2> QED BY <2>4, <2>5
<1>4. Divided(P, W, OpenLots, NamedWeight(P))
  BY <1>2, <1>3, NamedWeightTypes DEF Divided
<1>5. SumFunction([id \in P |-> Weight(W[id], ls)]) = Weight(NamedWeight(P), ls)
  BY <1>4, SumByOwner
<1>6. \A id \in P : Weight(W[id], ls) = Held(ls, id)
  BY <1>1, LotWeights
<1>7. [id \in P |-> Weight(W[id], ls)] = [id \in P |-> Held(ls, id)]
  BY <1>6
<1> QED BY <1>5, <1>7

LEMMA HeldGains ==
  ASSUME NEW before \in Seq(OpenLots), NEW after \in Seq(OpenLots), NEW P, IsFiniteSet(P)
  PROVE  SumFunction([id \in P |-> Held(after, id) - Held(before, id)])
           = Weight(NamedWeight(P), after) - Weight(NamedWeight(P), before)
<1>1. PICK f, g, h, z : /\ f = [id \in P |-> Held(after, id)] /\ g = [id \in P |-> -Held(before, id)]
                        /\ h = [id \in P |-> Held(before, id)]
                        /\ z = [id \in P |-> Held(after, id) - Held(before, id)]
  OBVIOUS
<1>2. \A id \in P : Held(after, id) \in Int /\ Held(before, id) \in Int
  BY LotSumsAreInts
<1>3. f \in [P -> Int] /\ g \in [P -> Int] /\ h \in [P -> Int] /\ \A id \in P : g[id] = -h[id]
  BY <1>1, <1>2
<1>4. z = [id \in P |-> f[id] + g[id]]
  BY <1>1, <1>2
<1>5. SumFunction(z) = SumFunction(f) + SumFunction(g)
  BY <1>3, <1>4, SumAdded
<1>6. SumFunction(g) = -SumFunction(h)
  BY <1>3, SumOfNegated
<1>7. SumFunction(f) = Weight(NamedWeight(P), after) /\ SumFunction(h) = Weight(NamedWeight(P), before)
  BY <1>1, HeldInSum
<1>8. Weight(NamedWeight(P), after) \in Int /\ Weight(NamedWeight(P), before) \in Int
  BY NamedWeightTypes
<1>9. PICK a, b : a = Weight(NamedWeight(P), after) /\ b = Weight(NamedWeight(P), before)
  OBVIOUS
<1>10. SumFunction(z) = a + (-b) /\ a \in Int /\ b \in Int
  BY <1>5, <1>6, <1>7, <1>8, <1>9
<1>11. a + (-b) = a - b
  BY ONLY <1>10
<1> QED BY <1>1, <1>9, <1>10, <1>11

\* The one campaign that has a name's lots.
Holds(c, before, after, id) ==
  /\ Holders(before, after, id) = {c}
  /\ \A k \in 1..Len(after) : after[k].id = id => after[k].campaign = c
  /\ id \notin NamesOf(after) => \A k \in 1..Len(before) : before[k].id = id => before[k].campaign = c

LEMMA OneHolder ==
  ASSUME NEW before \in Seq(OpenLots), NEW after \in Seq(OpenLots), NamedApart(before), NamedApart(after),
         NEW id \in NamesOf(before) \cup NamesOf(after)
  PROVE  \E c \in Owners : Holds(c, before, after, id)
<1> DEFINE Of(ls) == { ls[k].campaign : k \in { n \in DOMAIN ls : ls[n].id = id } }
<1>1. DOMAIN before = 1..Len(before) /\ DOMAIN after = 1..Len(after)
  OBVIOUS
<1>2. ASSUME NEW ls \in Seq(OpenLots), NamedApart(ls), NEW k \in 1..Len(ls), ls[k].id = id
      PROVE  /\ Of(ls) = {ls[k].campaign} /\ ls[k].campaign \in Owners
             /\ \A j \in 1..Len(ls) : ls[j].id = id => ls[j].campaign = ls[k].campaign
  <2>1. DOMAIN ls = 1..Len(ls) /\ ls[k] \in OpenLots
    BY <1>2
  <2>2. \A j \in 1..Len(ls) : ls[j].id = id => j = k
    BY <1>2 DEF NamedApart
  <2>3. ls[k].campaign \in Owners
    BY <2>1 DEF OpenLots
  <2> QED BY <1>2, <2>1, <2>2, <2>3
<1>3. CASE id \in NamesOf(after)
  <2>1. PICK k \in 1..Len(after) : after[k].id = id
    BY <1>1, <1>3 DEF NamesOf
  <2>2. PICK c : c = after[k].campaign
    OBVIOUS
  <2>3. Of(after) = {c} /\ c \in Owners
    BY <1>2, <2>1, <2>2
  <2>4. \A j \in 1..Len(after) : after[j].id = id => after[j].campaign = c
    BY <1>2, <2>1, <2>2
  <2>5. Holders(before, after, id) = {c}
    BY <2>3 DEF Holders
  <2> QED BY <1>3, <2>3, <2>4, <2>5 DEF Holds
<1>4. CASE id \notin NamesOf(after)
  <2>1. id \in NamesOf(before)
    BY <1>4
  <2>2. PICK k \in 1..Len(before) : before[k].id = id
    BY <1>1, <2>1 DEF NamesOf
  <2>3. PICK c : c = before[k].campaign
    OBVIOUS
  <2>4. Of(before) = {c} /\ c \in Owners
    BY <1>2, <2>2, <2>3
  <2>5. \A j \in 1..Len(before) : before[j].id = id => before[j].campaign = c
    BY <1>2, <2>2, <2>3
  <2>6. \A j \in 1..Len(after) : after[j].id # id
    BY <1>1, <1>4 DEF NamesOf
  <2>7. Of(after) = {}
    BY <1>1, <2>6
  <2>8. Holders(before, after, id) = {c}
    BY <2>4, <2>7 DEF Holders
  <2> QED BY <2>4, <2>5, <2>6, <2>8 DEF Holds
<1> QED BY <1>3, <1>4

\* The holder of each name.
Keyed(h, before, after) ==
  /\ h \in [NamesOf(before) \cup NamesOf(after) -> Owners]
  /\ \A id \in NamesOf(before) \cup NamesOf(after) : Holds(h[id], before, after, id)

LEMMA HoldersKeyed ==
  ASSUME NEW before \in Seq(OpenLots), NEW after \in Seq(OpenLots), NamedApart(before), NamedApart(after)
  PROVE  \E h : Keyed(h, before, after)
<1> DEFINE N == NamesOf(before) \cup NamesOf(after)
           key == [id \in N |-> CHOOSE c \in Owners : Holds(c, before, after, id)]
<1>1. \A id \in N : key[id] \in Owners /\ Holds(key[id], before, after, id)
  <2> TAKE id \in N
  <2>1. \E c \in Owners : Holds(c, before, after, id)
    BY OneHolder
  <2> QED BY <2>1
<1>2. Keyed(key, before, after)
  BY <1>1 DEF Keyed
<1> QED BY <1>2

GainsOver(before, after, c, P) ==
  GainOf(before, after, c) = SumFunction([id \in P |-> Held(after, id) - Held(before, id)])

LEMMA GainsGrouped ==
  ASSUME NEW before \in Seq(OpenLots), NEW after \in Seq(OpenLots), NEW h, Keyed(h, before, after),
         NEW c, NEW P, P = Group(NamesOf(before) \cup NamesOf(after), h, c)
  PROVE  IsFiniteSet(P) /\ GainsOver(before, after, c, P)
<1>1. PICK N : N = NamesOf(before) \cup NamesOf(after)
  OBVIOUS
<1>2. IsFiniteSet(N)
  BY <1>1, NamesFinite, FS_Union
<1>3. P = { id \in N : h[id] = c }
  BY <1>1 DEF Group
<1>4. \A id \in N : Holders(before, after, id) = {h[id]}
  BY <1>1 DEF Keyed, Holds
<1>5. P = { id \in N : c \in Holders(before, after, id) }
  BY <1>3, <1>4
<1>6. IsFiniteSet(P)
  BY <1>2, <1>3, FS_Subset
<1> QED BY <1>1, <1>5, <1>6 DEF GainOf, GainsOver

\* In sum, an event's entries are the change of the position.
LEMMA GainsInSum ==
  ASSUME NEW before \in Seq(OpenLots), NEW after \in Seq(OpenLots), NamedApart(before), NamedApart(after)
  PROVE  SumFunction([c \in Owners |-> GainOf(before, after, c)])
           = SumQuantities(after) - SumQuantities(before)
<1>1. PICK h : Keyed(h, before, after)
  BY HoldersKeyed
<1>2. PICK N : N = NamesOf(before) \cup NamesOf(after)
  OBVIOUS
<1>3. IsFiniteSet(N) /\ h \in [N -> Owners]
  BY <1>1, <1>2, NamesFinite, FS_Union DEF Keyed
<1>4. PICK g : g = [id \in N |-> Held(after, id) - Held(before, id)]
  OBVIOUS
<1>5. g \in [N -> Int]
  BY <1>4, LotSumsAreInts
<1>6. SumFunction(g) = SumFunction([c \in Owners |-> SumFunction(Over(g, Group(N, h, c)))])
  <2>1. GroupedSum(g, N, Owners, h)
    BY <1>3, <1>5, OwnersFinite, SumIsGrouped
  <2> QED BY <2>1 DEF GroupedSum
<1>7. ASSUME NEW c \in Owners PROVE SumFunction(Over(g, Group(N, h, c))) = GainOf(before, after, c)
  <2>1. PICK P : P = Group(N, h, c)
    OBVIOUS
  <2>2. P \subseteq N
    BY <2>1 DEF Group
  <2>3. Over(g, P) = [id \in P |-> Held(after, id) - Held(before, id)]
    BY <1>4, <2>2 DEF Over
  <2>4. GainsOver(before, after, c, P)
    BY <1>1, <1>2, <2>1, GainsGrouped
  <2> QED BY <2>1, <2>3, <2>4 DEF GainsOver
<1>8. [c \in Owners |-> SumFunction(Over(g, Group(N, h, c)))] = [c \in Owners |-> GainOf(before, after, c)]
  BY <1>7
<1>9. SumFunction(g) = Weight(NamedWeight(N), after) - Weight(NamedWeight(N), before)
  BY <1>3, <1>4, HeldGains
<1>10. ASSUME NEW s \in Seq(OpenLots), NamesOf(s) \subseteq N
       PROVE  Weight(NamedWeight(N), s) = SumQuantities(s)
  <2>1. \A k \in DOMAIN s : s[k] \in OpenLots /\ s[k].id \in N
    BY <1>10 DEF NamesOf
  <2>2. \A k \in DOMAIN s : NamedWeight(N)[s[k]] = UnitWeight[s[k]]
    BY <2>1 DEF NamedWeight, UnitWeight
  <2>3. Weight(NamedWeight(N), s) = Weight(UnitWeight, s)
    BY <2>2, WeightsAgree
  <2> QED BY <2>3, SumIsWeight
<1>11. /\ Weight(NamedWeight(N), after) = SumQuantities(after)
       /\ Weight(NamedWeight(N), before) = SumQuantities(before)
  BY <1>2, <1>10
<1> QED BY <1>6, <1>8, <1>9, <1>11

\* Where lots keep their campaigns, each campaign's entry is the change of what
\* its lots hold.
LEMMA GainsKept ==
  ASSUME NEW before \in Seq(OpenLots), NEW after \in Seq(OpenLots), NamedApart(before), NamedApart(after),
         NEW n \in Nat, AllUnder(before, n), KinOrNew(before, after, n), NEW c \in Owners
  PROVE  GainOf(before, after, c) = OwnedBy(after, c) - OwnedBy(before, c)
<1>1. PICK h : Keyed(h, before, after)
  BY HoldersKeyed
<1>2. PICK N, P : N = NamesOf(before) \cup NamesOf(after) /\ P = Group(N, h, c)
  OBVIOUS
<1>3. IsFiniteSet(P)
  BY <1>1, <1>2, GainsGrouped
<1>4. GainsOver(before, after, c, P)
  BY <1>1, <1>2, GainsGrouped
<1>5. GainOf(before, after, c) = Weight(NamedWeight(P), after) - Weight(NamedWeight(P), before)
  BY <1>3, <1>4, HeldGains DEF GainsOver
<1>6. DOMAIN before = 1..Len(before) /\ DOMAIN after = 1..Len(after)
  OBVIOUS
<1>7. ASSUME NEW k \in 1..Len(after) PROVE after[k].id \in N /\ h[after[k].id] = after[k].campaign
  <2>1. after[k].id \in N
    BY <1>2, <1>6 DEF NamesOf
  <2>2. Holds(h[after[k].id], before, after, after[k].id)
    BY <1>1, <1>2, <2>1 DEF Keyed
  <2> QED BY <2>1, <2>2 DEF Holds
<1>8. ASSUME NEW k \in 1..Len(before) PROVE before[k].id \in N /\ h[before[k].id] = before[k].campaign
  <2>1. PICK id : id = before[k].id
    OBVIOUS
  <2>2. id \in N
    BY <1>2, <1>6, <2>1 DEF NamesOf
  <2>3. Holds(h[id], before, after, id)
    BY <1>1, <1>2, <2>2 DEF Keyed
  <2>4. CASE id \notin NamesOf(after)
    BY <2>1, <2>2, <2>3, <2>4 DEF Holds
  <2>5. CASE id \in NamesOf(after)
    <3>1. PICK j \in 1..Len(after) : after[j].id = id
      BY <1>6, <2>5 DEF NamesOf
    <3>2. h[id] = after[j].campaign
      BY <1>7, <3>1
    <3>3. CASE \E m \in 1..Len(before) : after[j].id = before[m].id /\ after[j].campaign = before[m].campaign
      <4>1. PICK m \in 1..Len(before) : after[j].id = before[m].id /\ after[j].campaign = before[m].campaign
        BY <3>3
      <4>2. m = k
        BY <2>1, <3>1, <4>1 DEF NamedApart
      <4> QED BY <2>1, <2>2, <3>2, <4>1, <4>2
    <3>4. CASE \E q \in Nat : n <= q /\ after[j].id = Counter(q)
      <4>1. PICK q \in Nat : n <= q /\ id = Counter(q)
        BY <3>1, <3>4
      <4>2. CountedUnder(id, n)
        BY <2>1 DEF AllUnder
      <4>3. q < n
        BY <4>1, <4>2, CountersDiffer
      <4> QED BY <4>1, <4>3
    <3> QED BY <3>3, <3>4 DEF KinOrNew
  <2> QED BY <2>4, <2>5
<1>9. ASSUME NEW s \in Seq(OpenLots), \A k \in 1..Len(s) : s[k].id \in N /\ h[s[k].id] = s[k].campaign
      PROVE  Weight(NamedWeight(P), s) = OwnedBy(s, c)
  <2>1. \A k \in DOMAIN s : s[k] \in OpenLots /\ (s[k].id \in P <=> s[k].campaign = c)
    BY <1>2, <1>9 DEF Group
  <2>2. \A k \in DOMAIN s : NamedWeight(P)[s[k]] = LotWeight(c)[s[k]]
    BY <2>1 DEF NamedWeight, LotWeight
  <2>3. Weight(NamedWeight(P), s) = Weight(LotWeight(c), s)
    BY <2>2, WeightsAgree
  <2> QED BY <2>3, LotWeights
<1>10. Weight(NamedWeight(P), after) = OwnedBy(after, c)
  BY <1>7, <1>9
<1>11. Weight(NamedWeight(P), before) = OwnedBy(before, c)
  BY <1>8, <1>9
<1> QED BY <1>5, <1>10, <1>11

-----------------------------------------------------------------------------
(***************************************************************************)
(* Closing lots that all have a campaign.                                  *)
(***************************************************************************)
AllOwned(ls) == \A k \in 1..Len(ls) : ls[k].campaign # NoCampaign

\* What a lot adds to a campaign's position.
Has(lot, c) == IF lot.campaign = c THEN lot.quantity ELSE 0

OwnedStep(r, lot, next, c) ==
  OwnedBy(next.open, c) - OwnedBy(next.taken, c)
    = OwnedBy(r.open, c) - OwnedBy(r.taken, c) + Has(lot, c)

LEMMA OwnedAppended ==
  ASSUME NEW s \in Seq(OpenLots), NEW x \in OpenLots, NEW c
  PROVE  /\ OwnedBy(Append(s, x), c) = OwnedBy(s, c) + Has(x, c)
         /\ OwnedBy(s, c) \in Int /\ Has(x, c) \in Int
<1>1. Has(x, c) \in Int
  BY DEF Has, OpenLots
<1> QED BY <1>1, OwnedAdds DEF Has

LEMMA CloseLotOwned ==
  ASSUME NEW r \in Runs, NEW lot \in OpenLots, lot.campaign # NoCampaign, NEW o \in Owners,
         NEW c, NEW next, next = CloseLot(r, lot, o)
  PROVE  OwnedStep(r, lot, next, c)
<1>1. r.open \in Seq(OpenLots) /\ r.due \in Int /\ r.taken \in Seq(OpenLots)
  BY DEF Runs
<1>2. PICK a, b, h : a = OwnedBy(r.open, c) /\ b = OwnedBy(r.taken, c) /\ h = Has(lot, c)
  OBVIOUS
<1>3. a \in Int /\ b \in Int /\ h \in Int
  BY <1>1, <1>2, OwnedAppended
<1>4. lot.quantity \in Int /\ lot.id \in LotNames /\ lot.opened \in Nat /\ lot.campaign \in Owners
  BY DEF OpenLots
<1>5. CASE r.due = 0 \/ Sign(lot.quantity) = Sign(r.due)
  <2>1. next = [open |-> Append(r.open, lot), due |-> r.due, taken |-> r.taken]
    BY <1>5 DEF CloseLot
  <2>2. next.open = Append(r.open, lot) /\ next.taken = r.taken
    BY <2>1
  <2>3. OwnedBy(next.open, c) = a + h /\ OwnedBy(next.taken, c) = b
    BY <1>1, <1>2, <2>2, OwnedAppended
  <2>4. (a + h) - b = a - b + h
    BY ONLY <1>3
  <2> QED BY <1>2, <2>3, <2>4 DEF OwnedStep
<1>6. CASE ~(r.due = 0 \/ Sign(lot.quantity) = Sign(r.due))
  <2>1. PICK part : part = Taken(lot, r.due)
    OBVIOUS
  <2>2. PICK rest, used : /\ rest = [lot EXCEPT !.quantity = lot.quantity + part]
                          /\ used = AllocationOf(lot, part, o)
    OBVIOUS
  <2>3. next = [open |-> IF lot.quantity + part = 0 THEN r.open ELSE Append(r.open, rest),
                due |-> r.due - part, taken |-> Append(r.taken, used)]
    BY <1>6, <2>1, <2>2 DEF CloseLot
  <2>4. /\ next.open = IF lot.quantity + part = 0 THEN r.open ELSE Append(r.open, rest)
        /\ next.taken = Append(r.taken, used)
    BY <2>3
  <2>5. part \in Int \ {0} /\ lot.quantity + part \in Int
    BY <1>1, <1>6, <2>1, TakenFacts
  <2>6. used \in OpenLots /\ used.quantity = part /\ used.campaign = lot.campaign
    BY <1>4, <2>2, <2>5 DEF AllocationOf, OpenLots
  <2>7. lot.quantity + part # 0 =>
          rest \in OpenLots /\ rest.quantity = lot.quantity + part /\ rest.campaign = lot.campaign
    BY <1>4, <2>2, <2>5 DEF OpenLots
  <2>8. PICK q, p, u : q = lot.quantity /\ p = part /\ u = Has(used, c)
    OBVIOUS
  <2>9. q \in Int /\ p \in Int /\ u = (IF lot.campaign = c THEN p ELSE 0) /\ u \in Int
    BY <1>4, <2>5, <2>6, <2>8 DEF Has
  <2>10. OwnedBy(next.taken, c) = b + u
    BY <1>1, <1>2, <2>4, <2>6, <2>8, OwnedAppended
  <2>11. h = IF lot.campaign = c THEN q ELSE 0
    BY <1>2, <2>8 DEF Has
  <2>12. OwnedBy(next.open, c) = a + h + u
    <3>1. CASE q + p = 0
      <4>1. next.open = r.open
        BY <2>4, <2>8, <3>1
      <4>2. h + u = 0
        BY <2>9, <2>11, <3>1
      <4>3. a + h + u = a
        BY ONLY <1>3, <2>9, <4>2
      <4> QED BY <1>2, <4>1, <4>3
    <3>2. CASE q + p # 0
      <4>1. next.open = Append(r.open, rest) /\ rest \in OpenLots
            /\ rest.quantity = q + p /\ rest.campaign = lot.campaign
        BY <2>4, <2>7, <2>8, <3>2
      <4>2. Has(rest, c) = h + u
        BY <2>9, <2>11, <4>1 DEF Has
      <4>3. OwnedBy(next.open, c) = a + Has(rest, c)
        BY <1>1, <1>2, <4>1, OwnedAppended
      <4>4. a + (h + u) = a + h + u
        BY ONLY <1>3, <2>9
      <4> QED BY <4>2, <4>3, <4>4
    <3> QED BY <3>1, <3>2
  <2>13. (a + h + u) - (b + u) = a - b + h
    BY ONLY <1>3, <2>9
  <2> QED BY <1>2, <2>10, <2>12, <2>13 DEF OwnedStep
<1> QED BY <1>5, <1>6

LEMMA CloseOwned ==
  ASSUME NEW ls \in Seq(OpenLots), AllOwned(ls), NEW due \in Int, NEW o \in Owners, NEW c,
         NEW run, run = CloseRun(ls, due, o)
  PROVE  OwnedBy(run.open, c) = OwnedBy(ls, c) + OwnedBy(run.taken, c)
<1>1. PICK f \in [0..Len(ls) -> Runs] :
        /\ f[0] = [open |-> << >>, due |-> due, taken |-> << >>]
        /\ \A k \in 1..Len(ls) : f[k] = CloseLot(f[k - 1], ls[k], o)
        /\ CloseRun(ls, due, o) = f[Len(ls)]
  BY CloseRunLoop
<1>2. PICK w, d : w = LotWeight(c) /\ d = [n \in DOMAIN ls |-> w[ls[n]]]
  OBVIOUS
<1>3. w \in [OpenLots -> Int] /\ OwnedBy(ls, c) = Total(d)
  <2>1. w \in [OpenLots -> Int] /\ OwnedBy(ls, c) = Weight(w, ls)
    BY <1>2, LotWeights
  <2> QED BY <1>2, <2>1 DEF Weight
<1>4. d \in Seq(Int) /\ Len(d) = Len(ls) /\ \A k \in 1..Len(ls) : d[k] = w[ls[k]]
  BY <1>2, <1>3, WeightIs
<1>5. PICK rho : IsRunning(rho, d)
  BY <1>4, RunningExists
<1>6. OwnedBy(ls, c) = rho[Len(ls)]
  BY <1>3, <1>4, <1>5, TotalIs
<1>7. Len(ls) \in Nat /\ \A k \in 1..Len(ls) : ls[k] \in OpenLots
  OBVIOUS
<1>8. /\ rho[0] = 0 /\ \A k \in 0..Len(ls) : rho[k] \in Int
      /\ \A k \in 1..Len(ls) : rho[k] = rho[k - 1] + Has(ls[k], c) /\ Has(ls[k], c) \in Int
  <2>1. \A k \in 1..Len(ls) : w[ls[k]] = Has(ls[k], c) /\ Has(ls[k], c) \in Int
    BY <1>2, <1>7, OwnedAppended DEF LotWeight, Has, OpenLots
  <2> QED BY <1>4, <1>5, <2>1, RunningFacts
<1>9. \A k \in 0..Len(ls) : /\ f[k].open \in Seq(OpenLots) /\ f[k].taken \in Seq(OpenLots)
                            /\ OwnedBy(f[k].open, c) \in Int /\ OwnedBy(f[k].taken, c) \in Int
  <2> TAKE k \in 0..Len(ls)
  <2>1. f[k].open \in Seq(OpenLots) /\ f[k].taken \in Seq(OpenLots)
    BY <1>1 DEF Runs
  <2> QED BY <2>1, OwnedAdds
<1> DEFINE S == { k \in 0..Len(ls) : OwnedBy(f[k].open, c) = rho[k] + OwnedBy(f[k].taken, c) }
<1>10. 0 \in S
  <2>1. f[0].open = << >> /\ f[0].taken = << >>
    BY <1>1
  <2>2. OwnedBy(<< >>, c) = 0
    BY OwnedAdds
  <2>3. OwnedBy(f[0].open, c) = 0 /\ OwnedBy(f[0].taken, c) = 0
    BY <2>1, <2>2
  <2>4. OwnedBy(f[0].open, c) = rho[0] + OwnedBy(f[0].taken, c)
    BY <1>8, <2>3
  <2> QED BY <1>7, <2>4
<1>11. ASSUME NEW k \in 1..Len(ls), k - 1 \in S PROVE k \in S
  <2>1. k - 1 \in 0..Len(ls) /\ k \in 0..Len(ls)
    BY <1>7
  <2>2. PICK p, q, lot : p = f[k - 1] /\ q = f[k] /\ lot = ls[k]
    OBVIOUS
  <2>3. p \in Runs /\ lot \in OpenLots /\ lot.campaign # NoCampaign /\ q = CloseLot(p, lot, o)
    BY <1>1, <1>7, <2>1, <2>2 DEF AllOwned
  <2>4. OwnedStep(p, lot, q, c)
    BY <2>3, CloseLotOwned
  <2>5. PICK a, b, x, y, r, h : /\ a = OwnedBy(p.open, c) /\ b = OwnedBy(p.taken, c)
                                /\ x = OwnedBy(q.open, c) /\ y = OwnedBy(q.taken, c)
                                /\ r = rho[k - 1] /\ h = Has(lot, c)
    OBVIOUS
  <2>6. a \in Int /\ b \in Int /\ x \in Int /\ y \in Int /\ r \in Int /\ h \in Int /\ rho[k] = r + h
    BY <1>8, <1>9, <2>1, <2>2, <2>5
  <2>7. x - y = a - b + h
    BY <2>4, <2>5 DEF OwnedStep
  <2>8. a = r + b
    BY <1>11, <2>2, <2>5
  <2>9. x = (r + h) + y
    BY ONLY <2>6, <2>7, <2>8
  <2> QED BY <2>1, <2>2, <2>5, <2>6, <2>9
<1>12. Len(ls) \in S
  <2>1. Len(ls) \in 0..Len(ls)
    BY <1>7
  <2> HIDE DEF S
  <2> QED BY <1>7, <1>10, <1>11, <2>1, Upward
<1> QED BY <1>1, <1>6, <1>12

LEMMA KinAreAllOwned ==
  ASSUME NEW ls, NEW open, KinOf(open, ls), AllOwned(ls)
  PROVE  AllOwned(open)
BY DEF KinOf, AmongLots, AllOwned

LEMMA AllOwnedAppended ==
  ASSUME NEW ls \in Seq(OpenLots), AllOwned(ls), NEW x \in OpenLots, x.campaign # NoCampaign
  PROVE  AllOwned(Append(ls, x))
<1>1. PICK s : s = Append(ls, x)
  OBVIOUS
<1>2. /\ Len(s) = Len(ls) + 1 /\ s[Len(s)] = x /\ Len(ls) \in Nat
      /\ \A j \in 1..Len(ls) : s[j] = ls[j]
  BY <1>1
<1>3. \A j \in 1..Len(s) : j = Len(s) \/ j \in 1..Len(ls)
  BY <1>2
<1> QED BY <1>1, <1>2, <1>3 DEF AllOwned

-----------------------------------------------------------------------------
(***************************************************************************)
(* The journal explains a book: in sum, and for the instruments of A by    *)
(* campaign; the lots of T all have one.                                   *)
(***************************************************************************)
Told(entries, b, i) == \A c \in Owners : entries[i][c] = OwnedBy(b.lots[i], c)

Explained(entries, b, A, T) ==
  /\ AllNumbered(b)
  /\ Balanced(entries, b)
  /\ \A i \in A : Told(entries, b, i)
  /\ \A i \in T : AllOwned(b.lots[i])

LEMMA JournalLegIs ==
  ASSUME NEW r \in JournalRuns, NEW trade \in TradeRecords, NEW o \in Owners, o = CampaignOf(trade),
         NEW leg \in LegRecords, r.book.ok,
         NEW after, after = ApplyLeg([r.book EXCEPT !.taken = << >>], leg, trade.time, o),
         NEW next, next = JournalLeg(r, trade, leg)
  PROVE  /\ next.book = after /\ after \in Books
         /\ \A c \in Owners : next.entries[leg.instrument][c]
                                = r.entries[leg.instrument][c] + LegGain(trade, leg, after.taken, c)
         /\ \A i \in Instruments : i # leg.instrument => next.entries[i] = r.entries[i]
<1>1. PICK j, e : j = leg.instrument /\ e = r.entries
  OBVIOUS
<1>2. j \in Instruments /\ e \in Entries /\ r.book \in Books /\ trade.time \in Nat
  BY <1>1, ExecutedTypes DEF JournalRuns, TradeRecords
<1>3. PICK m : m = [e EXCEPT ![j] = [c \in Owners |-> e[j][c] + LegGain(trade, leg, after.taken, c)]]
  OBVIOUS
<1>4. next = [book |-> after, entries |-> m]
  BY <1>1, <1>3 DEF JournalLeg
<1>5. next.book = after /\ next.entries = m
  BY <1>4
<1>6. after \in Books
  <2>1. PICK t : t = [r.book EXCEPT !.taken = << >>]
    OBVIOUS
  <2>2. t \in Books /\ after = ApplyLeg(t, leg, trade.time, o)
    BY <1>2, <2>1, TakenReset
  <2> QED BY <1>2, <2>2, ApplyLegTypes
<1>7. DOMAIN e = Instruments
  BY <1>2 DEF Entries
<1>8. m[j] = [c \in Owners |-> e[j][c] + LegGain(trade, leg, after.taken, c)]
  BY <1>2, <1>3, <1>7
<1>9. \A i \in Instruments : i # j => m[i] = e[i]
  BY <1>2, <1>3, <1>7
<1> QED BY <1>1, <1>5, <1>6, <1>8, <1>9

LEMMA OpenedGain ==
  ASSUME NEW b \in Books, NEW leg \in LegRecords, leg.effect = "OPEN", NEW trade \in TradeRecords,
         NEW o \in Owners, o = CampaignOf(trade),
         NEW x, x = BuildLot(NewId(b), Executed(leg), trade.time, o)
  PROVE  /\ x \in OpenLots /\ x.campaign = o
         /\ \A taken, c : LegGain(trade, leg, taken, c) = Has(x, c)
<1>1. Executed(leg) \in Int \ {0} /\ leg.instrument \in Instruments /\ trade.time \in Nat
  BY ExecutedTypes DEF TradeRecords
<1>2. x \in OpenLots
  BY <1>1, AppendNewTypes
<1>3. x.quantity = Executed(leg) /\ x.campaign = o
  BY DEF BuildLot
<1> QED BY <1>2, <1>3 DEF LegGain, Has

LEMMA LegTold ==
  ASSUME NEW r \in JournalRuns, r.book.ok, NEW trade \in TradeRecords,
         NEW o \in Campaigns, o = CampaignOf(trade), NEW leg \in LegRecords,
         NEW next, next = JournalLeg(r, trade, leg), NEW i \in Instruments,
         leg.instrument = i /\ leg.effect = "CLOSE" => AllOwned(r.book.lots[i])
  PROVE  /\ Told(r.entries, r.book, i) => Told(next.entries, next.book, i)
         /\ AllOwned(r.book.lots[i]) => AllOwned(next.book.lots[i])
<1>1. PICK b, e, after : /\ b = r.book /\ e = r.entries
                         /\ after = ApplyLeg([r.book EXCEPT !.taken = << >>], leg, trade.time, o)
  OBVIOUS
<1>2. b \in Books /\ o \in Owners /\ o # NoCampaign /\ e \in Entries
  BY <1>1, InstrumentAssumption DEF JournalRuns, Owners
<1>3. next.book = after /\ after \in Books
  BY <1>1, <1>2, JournalLegIs
<1>4. \A c \in Owners : next.entries[leg.instrument][c]
                          = r.entries[leg.instrument][c] + LegGain(trade, leg, after.taken, c)
  BY <1>1, <1>2, JournalLegIs
<1>5. \A k \in Instruments : k # leg.instrument => next.entries[k] = r.entries[k]
  BY <1>1, <1>2, JournalLegIs
<1>6. after = ApplyLeg([b EXCEPT !.taken = << >>], leg, trade.time, o) /\ b.ok
  BY <1>1
<1>7. OpensOne(b, after, leg, trade.time, o) \/ ClosesSome(b, after, leg, o)
  BY <1>2, <1>6, LegKinds
<1>8. \A j \in Instruments : j # leg.instrument => after.lots[j] = b.lots[j]
  BY <1>2, <1>6, LegKinds
<1>9. CASE leg.instrument # i
  <2>1. after.lots[i] = b.lots[i] /\ next.entries[i] = e[i]
    BY <1>1, <1>5, <1>8, <1>9
  <2> QED BY <1>1, <1>3, <2>1 DEF Told
<1>10. CASE leg.instrument = i
  <2>1. PICK ls : ls = b.lots[i]
    OBVIOUS
  <2>2. ls \in Seq(OpenLots)
    BY <1>2, <2>1, BookFields
  <2>3. \A c \in Owners : e[i][c] \in Int
    BY <1>2 DEF Entries
  <2>4. CASE OpensOne(b, after, leg, trade.time, o)
    <3>1. PICK x : x = BuildLot(NewId(b), Executed(leg), trade.time, o)
      OBVIOUS
    <3>2. leg.effect = "OPEN" /\ after.lots[i] = Append(ls, x)
      BY <1>10, <2>1, <2>4, <3>1 DEF OpensOne
    <3>3. x \in OpenLots /\ x.campaign = o
      BY <1>2, <3>1, <3>2, OpenedGain
    <3>4. ASSUME Told(e, b, i), NEW c \in Owners PROVE next.entries[i][c] = OwnedBy(after.lots[i], c)
      <4>1. LegGain(trade, leg, after.taken, c) = Has(x, c)
        BY <1>2, <3>1, <3>2, OpenedGain
      <4>2. OwnedBy(Append(ls, x), c) = OwnedBy(ls, c) + Has(x, c)
        BY <2>2, <3>3, OwnedAppended
      <4>3. e[i][c] = OwnedBy(ls, c)
        BY <2>1, <3>4 DEF Told
      <4> QED BY <1>1, <1>4, <1>10, <3>2, <4>1, <4>2, <4>3
    <3>5. ASSUME AllOwned(ls) PROVE AllOwned(after.lots[i])
      <4>1. AllOwned(Append(ls, x))
        BY <1>2, <2>2, <3>3, <3>5, AllOwnedAppended
      <4> QED BY <3>2, <4>1
    <3> QED BY <1>1, <1>3, <2>1, <3>4, <3>5 DEF Told
  <2>5. CASE ClosesSome(b, after, leg, o)
    <3>1. PICK due, run : due = Executed(leg) /\ run = CloseRun(ls, due, o)
      OBVIOUS
    <3>2. leg.effect = "CLOSE" /\ after.lots[i] = run.open /\ after.taken = run.taken
      BY <1>10, <2>1, <2>5, <3>1 DEF ClosesSome
    <3>3. due \in Int /\ AllOwned(ls)
      BY <1>1, <1>10, <2>1, <3>1, <3>2, ExecutedTypes
    <3>4. ASSUME Told(e, b, i), NEW c \in Owners PROVE next.entries[i][c] = OwnedBy(after.lots[i], c)
      <4>1. GainsOwned(trade, leg, run.taken)
        BY <1>2, <2>2, <3>1, <3>2, CloseGains
      <4>2. LegGain(trade, leg, after.taken, c) = OwnedBy(run.taken, c)
        BY <3>2, <4>1 DEF GainsOwned
      <4>3. OwnedBy(run.open, c) = OwnedBy(ls, c) + OwnedBy(run.taken, c)
        BY <1>2, <2>2, <3>1, <3>3, CloseOwned
      <4>4. e[i][c] = OwnedBy(ls, c)
        BY <2>1, <3>4 DEF Told
      <4> QED BY <1>1, <1>4, <1>10, <3>2, <4>2, <4>3, <4>4
    <3>5. AllOwned(after.lots[i])
      <4>1. KinOf(CloseRun(ls, due, o).open, ls)
        BY <1>2, <2>2, <3>3, CloseRunNames
      <4> QED BY <3>1, <3>2, <3>3, <4>1, KinAreAllOwned
    <3> QED BY <1>1, <1>3, <2>1, <3>4, <3>5 DEF Told
  <2> QED BY <1>7, <2>4, <2>5
<1> QED BY <1>9, <1>10

LEMMA LegExplained ==
  ASSUME NEW r \in JournalRuns, NEW trade \in TradeRecords,
         NEW o \in Campaigns, o = CampaignOf(trade), NEW leg \in LegRecords,
         NEW A \in SUBSET Instruments, NEW T \in SUBSET Instruments,
         leg.effect = "CLOSE" /\ leg.instrument \in A => leg.instrument \in T,
         NEW next, next = JournalLeg(r, trade, leg), next.book.ok
  PROVE  r.book.ok /\ (Explained(r.entries, r.book, A, T) => Explained(next.entries, next.book, A, T))
<1>1. o \in Owners /\ r.book \in Books /\ trade.time \in Nat
  BY DEF JournalRuns, Owners, TradeRecords
<1>2. r.book.ok
  BY <1>1, JournalLegBalanced
<1> SUFFICES ASSUME Explained(r.entries, r.book, A, T) PROVE Explained(next.entries, next.book, A, T)
  BY <1>2
<1>3. Balanced(next.entries, next.book)
  BY <1>1, JournalLegBalanced DEF Explained
<1>4. AllNumbered(next.book)
  <2>1. PICK b, after : b = r.book /\ after = ApplyLeg([r.book EXCEPT !.taken = << >>], leg, trade.time, o)
    OBVIOUS
  <2>2. next.book = after
    BY <1>1, <1>2, <2>1, JournalLegIs
  <2>3. after = ApplyLeg([b EXCEPT !.taken = << >>], leg, trade.time, o) /\ b \in Books /\ b.ok
    BY <1>1, <1>2, <2>1
  <2>4. Counts(b, after)
    BY <1>1, <2>3, LegCounts
  <2> QED BY <2>1, <2>2, <2>4 DEF Counts, Explained
<1>5. ASSUME NEW i \in T PROVE AllOwned(next.book.lots[i])
  <2>1. AllOwned(r.book.lots[i]) /\ i \in Instruments
    BY <1>5 DEF Explained
  <2> QED BY <1>2, <2>1, LegTold
<1>6. ASSUME NEW i \in A PROVE Told(next.entries, next.book, i)
  <2>1. Told(r.entries, r.book, i) /\ i \in Instruments
    BY <1>6 DEF Explained
  <2>2. leg.instrument = i /\ leg.effect = "CLOSE" => AllOwned(r.book.lots[i])
    BY <1>6 DEF Explained
  <2> QED BY <1>2, <2>1, <2>2, LegTold
<1> QED BY <1>3, <1>4, <1>5, <1>6 DEF Explained

LEMMA TradeExplained ==
  ASSUME NEW start \in JournalRuns, NEW trade \in TradeRecords, CampaignOf(trade) \in Campaigns,
         NEW A \in SUBSET Instruments, NEW T \in SUBSET Instruments,
         \A k \in 1..Len(trade.legs) :
           trade.legs[k].effect = "CLOSE" /\ trade.legs[k].instrument \in A
             => trade.legs[k].instrument \in T,
         Explained(start.entries, start.book, A, T),
         NEW end, end = JournalTrade(start, trade), end.book.ok
  PROVE  Explained(end.entries, end.book, A, T)
<1>1. PICK o, legs, m : o = CampaignOf(trade) /\ legs = trade.legs /\ m = Len(trade.legs)
  OBVIOUS
<1>2. o \in Campaigns /\ CampaignOf(trade) \in Owners
  BY <1>1 DEF Owners
<1>3. m \in Nat /\ \A k \in 1..m : legs[k] \in LegRecords
  <2>1. legs \in Seq(LegRecords)
    BY <1>1 DEF TradeRecords
  <2> QED BY <1>1, <2>1
<1>4. PICK f \in [0..m -> JournalRuns] :
        /\ f[0] = start
        /\ \A k \in 1..m : f[k] = JournalLeg(f[k - 1], trade, legs[k])
        /\ end = f[m]
  BY <1>1, <1>2, JournalTradeLoop
<1> DEFINE S == { k \in 0..m : f[k].book.ok => Explained(f[k].entries, f[k].book, A, T) }
<1>5. 0 \in S
  BY <1>3, <1>4
<1>6. ASSUME NEW k \in 1..m, k - 1 \in S PROVE k \in S
  <2>1. k - 1 \in 0..m /\ k \in 0..m
    BY <1>3
  <2>2. PICK p, q, leg : p = f[k - 1] /\ q = f[k] /\ leg = legs[k]
    OBVIOUS
  <2>3. p \in JournalRuns /\ leg \in LegRecords /\ q = JournalLeg(p, trade, leg)
    BY <1>3, <1>4, <2>1, <2>2
  <2>4. leg.effect = "CLOSE" /\ leg.instrument \in A => leg.instrument \in T
    BY <1>1, <2>2
  <2>5. ASSUME q.book.ok PROVE Explained(q.entries, q.book, A, T)
    <3>1. p.book.ok /\ (Explained(p.entries, p.book, A, T) => Explained(q.entries, q.book, A, T))
      BY <1>1, <1>2, <2>3, <2>4, <2>5, LegExplained
    <3>2. Explained(p.entries, p.book, A, T)
      BY <1>6, <2>2, <3>1
    <3> QED BY <3>1, <3>2
  <2> QED BY <2>1, <2>2, <2>5
<1>7. m \in S
  <2>1. m \in 0..m
    BY <1>3
  <2> HIDE DEF S
  <2> QED BY <1>3, <1>5, <1>6, <2>1, Upward
<1> QED BY <1>4, <1>7

LEMMA EventExplained ==
  ASSUME NEW b \in Books, NEW e \in Entries, NEW event \in EventRecords,
         NEW A \in SUBSET Instruments, NEW T \in SUBSET Instruments,
         \A k \in 1..Len(event.changes) : event.changes[k].instrument \notin T,
         \A i \in A \ T : \A k \in 1..Len(event.changes) : Gentle(i, event.changes[k]),
         Explained(e, b, A, T),
         NEW d, d = ApplyEvent(b, event),
         NEW next, next = [i \in Instruments |->
                             IF i \notin { ch.instrument : ch \in ToSet(event.changes) } THEN e[i]
                             ELSE [c \in Owners |-> e[i][c] + GainOf(b.lots[i], d.lots[i], c)]]
  PROVE  Explained(next, d, A, T)
<1>1. PICK chs, m, named : /\ chs = event.changes /\ m = Len(event.changes)
                           /\ named = { ch.instrument : ch \in ToSet(event.changes) }
  OBVIOUS
<1>2. /\ m \in Nat /\ chs \in Seq(ChangeRecords) /\ DOMAIN chs = 1..m
      /\ \A i : i \in named <=> \E k \in 1..m : chs[k].instrument = i
  <2>1. chs \in Seq(ChangeRecords)
    BY <1>1 DEF EventRecords
  <2>2. DOMAIN chs = 1..m /\ m \in Nat
    BY <1>1, <2>1
  <2>3. named = { ch.instrument : ch \in { chs[k] : k \in 1..m } }
    BY <1>1, <2>2 DEF ToSet
  <2> QED BY <2>1, <2>2, <2>3
<1>3. d \in Books /\ Counts(b, d)
  BY EventCounts
<1>4. \A i \in Instruments :
        /\ (\A k \in 1..m : chs[k].instrument # i) => d.lots[i] = b.lots[i]
        /\ (\A k \in 1..m : Gentle(i, chs[k])) => Keeps(b, d, i)
  BY <1>1, EventCounts
<1>5. AllNumbered(b) /\ AllNumbered(d) /\ b.nextId \in Nat
  BY <1>3, BookFields DEF Counts, Explained
<1>6. \A i \in Instruments :
        /\ b.lots[i] \in Seq(OpenLots) /\ d.lots[i] \in Seq(OpenLots) /\ e[i] \in [Owners -> Int]
        /\ NamedApart(b.lots[i]) /\ NamedApart(d.lots[i]) /\ AllUnder(b.lots[i], b.nextId)
  BY <1>3, <1>5, BookFields DEF Entries, AllNumbered, Numbered
<1>7. ASSUME NEW i \in Instruments, i \notin named PROVE d.lots[i] = b.lots[i] /\ next[i] = e[i]
  BY <1>1, <1>2, <1>4, <1>7
<1>8. ASSUME NEW i \in Instruments, i \in named
      PROVE  next[i] = [c \in Owners |-> e[i][c] + GainOf(b.lots[i], d.lots[i], c)]
  BY <1>1, <1>8
<1>9. ASSUME NEW i \in Instruments PROVE SumFunction(next[i]) = SumQuantities(d.lots[i])
  <2>1. SumFunction(e[i]) = SumQuantities(b.lots[i])
    BY DEF Explained, Balanced
  <2>2. CASE i \notin named
    BY <1>7, <2>1, <2>2
  <2>3. CASE i \in named
    <3>1. PICK before, after, old : before = b.lots[i] /\ after = d.lots[i] /\ old = e[i]
      OBVIOUS
    <3>2. PICK g : g = [c \in Owners |-> GainOf(before, after, c)]
      OBVIOUS
    <3>3. before \in Seq(OpenLots) /\ after \in Seq(OpenLots) /\ NamedApart(before) /\ NamedApart(after)
          /\ old \in [Owners -> Int]
      BY <1>6, <3>1
    <3>4. g \in [Owners -> Int]
      BY <3>2, <3>3, GainTypes
    <3>5. next[i] = [c \in Owners |-> old[c] + g[c]]
      BY <1>8, <2>3, <3>1, <3>2
    <3>6. SumFunction(next[i]) = SumFunction(old) + SumFunction(g)
      <4>1. SumFunction([c \in Owners |-> old[c] + g[c]]) = SumFunction(old) + SumFunction(g)
        BY <3>3, <3>4, OwnersFinite, SumAdded
      <4> QED BY <3>5, <4>1
    <3>7. SumFunction(g) = SumQuantities(after) - SumQuantities(before)
      BY <3>2, <3>3, GainsInSum
    <3>8. SumQuantities(after) \in Int /\ SumQuantities(before) \in Int
      BY <3>3, LotsQuantified, QuantitiesAreInts
    <3> QED BY <2>1, <3>1, <3>6, <3>7, <3>8
  <2> QED BY <2>2, <2>3
<1>10. ASSUME NEW i \in T PROVE AllOwned(d.lots[i]) /\ i \notin named
  <2>0. \A k \in 1..m : chs[k].instrument \notin T
    BY <1>1
  <2>1. i \notin named /\ i \in Instruments
    BY <1>2, <1>10, <2>0
  <2> QED BY <1>7, <1>10, <2>1 DEF Explained
<1>11. ASSUME NEW i \in A PROVE Told(next, d, i)
  <2>1. Told(e, b, i) /\ i \in Instruments
    BY <1>11 DEF Explained
  <2>2. CASE i \notin named
    BY <1>7, <2>1, <2>2 DEF Told
  <2>3. CASE i \in named
    <3>1. i \notin T
      BY <1>10, <2>3
    <3>2. Keeps(b, d, i)
      BY <1>1, <1>4, <1>11, <2>1, <3>1
    <3>3. PICK before, after, n : before = b.lots[i] /\ after = d.lots[i] /\ n = b.nextId
      OBVIOUS
    <3>4. KinOrNew(before, after, n)
      BY <1>5, <3>2, <3>3 DEF Keeps
    <3>5. before \in Seq(OpenLots) /\ after \in Seq(OpenLots) /\ NamedApart(before) /\ NamedApart(after)
          /\ AllUnder(before, n) /\ n \in Nat
      BY <1>5, <1>6, <2>1, <3>3
    <3>6. ASSUME NEW c \in Owners PROVE next[i][c] = OwnedBy(d.lots[i], c)
      <4>1. GainOf(before, after, c) = OwnedBy(after, c) - OwnedBy(before, c)
        BY <3>4, <3>5, GainsKept
      <4>2. next[i][c] = e[i][c] + GainOf(before, after, c)
        BY <1>8, <2>1, <2>3, <3>3, ZenonT(60)
      <4>3. e[i][c] = OwnedBy(before, c)
        BY <2>1, <3>3 DEF Told
      <4>4. OwnedBy(after, c) \in Int /\ OwnedBy(before, c) \in Int
        BY <3>5, OwnedAdds
      <4> QED BY <3>3, <4>1, <4>2, <4>3, <4>4
    <3> QED BY <3>6 DEF Told
  <2> QED BY <2>2, <2>3
<1> QED BY <1>5, <1>9, <1>10, <1>11 DEF Explained, Balanced

-----------------------------------------------------------------------------
(* What the month's files say of an instrument. *)
LEMMA ClosingLegs ==
  ASSUME NEW trades \in Seq(TradeRecords), NEW trade \in ToSet(trades),
         NEW k \in 1..Len(trade.legs), trade.legs[k].effect = "CLOSE"
  PROVE  trade.legs[k].instrument \in Closing(trades)
<1>1. PICK n \in 1..Len(trades) : trade = trades[n]
  <2>1. DOMAIN trades = 1..Len(trades)
    OBVIOUS
  <2> QED BY <2>1 DEF ToSet
<1>2. PICK seqs, legs, leg : /\ seqs = [j \in DOMAIN trades |-> trades[j].legs]
                             /\ legs = trade.legs /\ leg = trade.legs[k]
  OBVIOUS
<1>3. seqs \in Seq(Seq(LegRecords)) /\ Len(seqs) = Len(trades) /\ seqs[n] = legs /\ legs \in Seq(LegRecords)
  <2>1. \A j \in 1..Len(trades) : trades[j] \in TradeRecords
    OBVIOUS
  <2>2. \A j \in 1..Len(trades) : trades[j].legs \in Seq(LegRecords)
    BY <2>1 DEF TradeRecords
  <2>3. DOMAIN trades = 1..Len(trades) /\ Len(trades) \in Nat
    OBVIOUS
  <2>4. seqs = [j \in 1..Len(trades) |-> trades[j].legs]
    BY <1>2, <2>3
  <2> QED BY <1>1, <1>2, <2>2, <2>3, <2>4
<1>4. leg \in ToSet(legs)
  <2>1. DOMAIN legs = 1..Len(legs)
    BY <1>3
  <2> QED BY <1>2, <2>1 DEF ToSet
<1>5. leg \in ToSet(FlattenSeq(seqs))
  BY <1>1, <1>3, <1>4, FlattenedContains
<1>6. leg \in ToSet(LegsOf(trades)) /\ leg.effect = "CLOSE"
  BY <1>2, <1>5 DEF LegsOf
<1> QED BY <1>2, <1>6 DEF Closing

LEMMA PositionItemSources ==
  ASSUME input \in Inputs, NEW n \in 1..Len(PositionItems), NEW item, item = PositionItems[n]
  PROVE  IF IsTrade(item)
         THEN item \in ToSet(input.trades) /\ item \in TradeRecords /\ CampaignOf(item) \in Campaigns
         ELSE item \in ToSet(input.events) /\ item \in EventRecords
<1>1. PICK ts, es : ts = input.trades /\ es = input.events
  OBVIOUS
<1>2. /\ ts \in Seq(TradeRecords) /\ ToSet(ts) \subseteq Members(MonthCampaigns)
      /\ \A trade \in Members(MonthCampaigns) : CampaignOf(trade) \in Campaigns
  BY <1>1, MonthTrades, InputTypes
<1>3. es \in Seq(EventRecords)
  BY <1>1, InputTypes
<1>4. PICK X : X = TradeRecords \cup EventRecords
  OBVIOUS
<1>5. ts \in Seq(X) /\ es \in Seq(X) /\ \A x \in X : x.time \in Nat
  BY <1>2, <1>3, <1>4, ItemKinds
<1>6. PICK line : line = Timeline(ts, es)
  OBVIOUS
<1>7. line \in Seq(X) /\ \A m \in DOMAIN line : line[m] \in ToSet(ts) \cup ToSet(es)
  BY <1>5, <1>6, TimelineItems
<1>8. item \in ToSet(ts) \cup ToSet(es)
  <2>1. PositionItems = line
    BY <1>1, <1>6 DEF PositionItems
  <2>2. DOMAIN line = 1..Len(line)
    BY <1>7
  <2> QED BY <1>7, <2>1, <2>2
<1>9. CASE item \in ToSet(ts)
  <2>1. item \in TradeRecords
    BY <1>2, <1>9 DEF ToSet
  <2> QED BY <1>1, <1>2, <1>9, <2>1, ItemKinds
<1>10. CASE item \in ToSet(es)
  <2>1. item \in EventRecords
    BY <1>3, <1>10 DEF ToSet
  <2> QED BY <1>1, <1>10, <2>1, ItemKinds
<1> QED BY <1>8, <1>9, <1>10

Moved(i) == { c \in UNION { ToSet(e.changes) : e \in ToSet(input.events) } : c.instrument = i }

\* Instruments that only trades move, whose lots all have a campaign.
TradedOnly ==
  { i \in Instruments : Moved(i) = {} /\ \A lot \in ToSet(input.lots[i]) : lot.campaign # NoCampaign }

Accounted == { i \in Instruments : Accountable(i) }

LEMMA AccountedIs ==
  ASSUME NEW i \in Accounted, i \notin TradedOnly
  PROVE  i \in Instruments /\ ~ClosedByTrade(i) /\ (i \in Options \/ \A c \in Moved(i) : c.quantity > 0)
BY DEF Accounted, TradedOnly, Accountable, Moved

LEMMA ResetExplained ==
  ASSUME NEW b \in Books, NEW e, NEW A, NEW T \in SUBSET Instruments, A \subseteq Instruments,
         Explained(e, b, A, T), NEW d, d = [b EXCEPT !.taken = << >>]
  PROVE  Explained(e, d, A, T)
<1>1. d.lots = b.lots /\ d.nextId = b.nextId
  BY DEF Books
<1> QED BY <1>1 DEF Explained, AllNumbered, Balanced, Told

LEMMA StartExplained ==
  ASSUME input \in Inputs, Identified(Fresh)
  PROVE  Explained(Carried, Fresh, Accounted, TradedOnly)
<1>1. PICK b, e : b = Fresh /\ e = Carried
  OBVIOUS
<1>2. b \in Books /\ Identified(b)
  BY <1>1, FreshTypes
<1>3. b.lots = input.lots
  BY <1>1 DEF Fresh
<1>4. \A i \in Instruments : b.lots[i] \in Seq(OpenLots)
  BY <1>2 DEF Books
<1>5. \A i \in Instruments : e[i] = [c \in Owners |-> OwnedBy(b.lots[i], c)]
  BY <1>1, <1>3 DEF Carried
<1>6. AllNumbered(b)
  BY <1>2, IdentifiedIs DEF AllNumbered
<1>7. ASSUME NEW i \in Instruments PROVE SumFunction(e[i]) = SumQuantities(b.lots[i])
  <2>1. PICK ls : ls = b.lots[i]
    OBVIOUS
  <2>2. SumFunction([c \in Owners |-> OwnedBy(ls, c)]) = SumQuantities(ls)
    BY <1>4, <2>1, OwnedInSum
  <2> QED BY <1>5, <2>1, <2>2
<1>8. ASSUME NEW i \in TradedOnly PROVE AllOwned(b.lots[i])
  <2>1. i \in Instruments /\ \A lot \in ToSet(b.lots[i]) : lot.campaign # NoCampaign
    BY <1>3 DEF TradedOnly
  <2>2. b.lots[i] \in Seq(OpenLots)
    BY <1>4, <2>1
  <2>3. \A k \in 1..Len(b.lots[i]) : b.lots[i][k] \in ToSet(b.lots[i])
    BY <2>2 DEF ToSet
  <2> QED BY <2>1, <2>3 DEF AllOwned
<1>9. \A i \in Accounted : Told(e, b, i)
  BY <1>5 DEF Told, Accounted
<1> QED BY <1>1, <1>6, <1>7, <1>8, <1>9 DEF Explained, Balanced

LEMMA ItemExplained ==
  ASSUME input \in Inputs, book \in Books, journal \in Entries, NEW n \in 1..Len(PositionItems),
         NEW item, item = PositionItems[n], NEW r, r = Journaled(item), r.book.ok,
         Explained(journal, book, Accounted, TradedOnly)
  PROVE  Explained(r.entries, r.book, Accounted, TradedOnly)
<1>1. PICK A, T : A = Accounted /\ T = TradedOnly
  OBVIOUS
<1>2. A \in SUBSET Instruments /\ T \in SUBSET Instruments
  BY <1>1 DEF Accounted, TradedOnly
<1>3. Explained(journal, book, A, T)
  BY <1>1
<1>4. /\ \A i \in A \ T : ~ClosedByTrade(i) /\ (i \in Options \/ \A c \in Moved(i) : c.quantity > 0)
      /\ \A i \in T : Moved(i) = {}
  BY <1>1, AccountedIs DEF TradedOnly
<1>5. input.trades \in Seq(TradeRecords) /\ input.events \in Seq(EventRecords)
  BY EvidenceAssumption
<1>6. IF IsTrade(item)
      THEN item \in ToSet(input.trades) /\ item \in TradeRecords /\ CampaignOf(item) \in Campaigns
      ELSE item \in ToSet(input.events) /\ item \in EventRecords
  BY PositionItemSources
<1>7. CASE IsTrade(item)
  <2>1. PICK start : start = [book |-> book, entries |-> journal]
    OBVIOUS
  <2>2. start \in JournalRuns /\ start.entries = journal /\ start.book = book
    BY <2>1 DEF JournalRuns
  <2>3. r = JournalTrade(start, item)
    BY <1>7, <2>1, JournaledTrade
  <2>4. item \in ToSet(input.trades) /\ item \in TradeRecords /\ CampaignOf(item) \in Campaigns
    BY <1>6, <1>7
  <2>5. ASSUME NEW k \in 1..Len(item.legs), item.legs[k].effect = "CLOSE", item.legs[k].instrument \in A
        PROVE  item.legs[k].instrument \in T
    <3>1. item.legs[k].instrument \in Closing(input.trades)
      BY <1>5, <2>4, <2>5, ClosingLegs
    <3> QED BY <1>4, <2>5, <3>1 DEF ClosedByTrade
  <2>6. Explained(start.entries, start.book, A, T)
    BY <1>3, <2>2
  <2>7. Explained(r.entries, r.book, A, T)
    BY <1>2, <2>2, <2>3, <2>4, <2>5, <2>6, TradeExplained
  <2> QED BY <1>1, <2>7
<1>8. CASE ~IsTrade(item)
  <2> DEFINE d == ApplyEvent(book, item)
  <2>2. item \in ToSet(input.events) /\ item \in EventRecords
    BY <1>6, <1>8
  <2>3. r = [book |-> d,
             entries |-> [i \in Instruments |->
               IF i \notin { ch.instrument : ch \in ToSet(item.changes) } THEN journal[i]
               ELSE [c \in Owners |-> journal[i][c] + GainOf(book.lots[i], d.lots[i], c)]]]
    BY <1>8, JournaledEvent, ZenonT(60)
  <2>4. PICK next : next = [i \in Instruments |->
               IF i \notin { ch.instrument : ch \in ToSet(item.changes) } THEN journal[i]
               ELSE [c \in Owners |-> journal[i][c] + GainOf(book.lots[i], d.lots[i], c)]]
    OBVIOUS
  <2>5. r = [book |-> d, entries |-> next]
    BY <2>3, <2>4
  <2>6. item.changes \in Seq(ChangeRecords)
    BY <2>2 DEF EventRecords
  <2>7. ASSUME NEW k \in 1..Len(item.changes)
        PROVE  /\ item.changes[k] \in Moved(item.changes[k].instrument)
               /\ item.changes[k] \in ChangeRecords
    <3>1. item.changes[k] \in ToSet(item.changes) /\ item.changes[k] \in ChangeRecords
      BY <2>6 DEF ToSet
    <3> QED BY <2>2, <3>1 DEF Moved
  <2>8. \A k \in 1..Len(item.changes) : item.changes[k].instrument \notin T
    BY <1>4, <2>7
  <2>9. ASSUME NEW i \in A \ T, NEW k \in 1..Len(item.changes) PROVE Gentle(i, item.changes[k])
    BY <1>4, <2>7 DEF Gentle
  <2>10. Explained(next, d, A, T)
    BY <1>2, <1>3, <2>2, <2>4, <2>8, <2>9, EventExplained
  <2> QED BY <1>1, <2>5, <2>10
<1> QED BY <1>7, <1>8

-----------------------------------------------------------------------------
(* The journal explains the book it has come to, and in the end the ending *)
(* book, if the opening lots are identified.                               *)
Explaining ==
  Identified(Fresh) =>
    /\ stage = "journal" => Explained(journal, book, Accounted, TradedOnly)
    /\ stage = "captured" => Explained(journal, ending, Accounted, TradedOnly)

LEMMA ExplainedOfInput ==
  ASSUME input' = input
  PROVE  /\ Accounted' = Accounted /\ TradedOnly' = TradedOnly
         /\ Identified(Fresh)' <=> Identified(Fresh)
<1>1. \A i : Moved(i)' = Moved(i) /\ (ClosedByTrade(i)' <=> ClosedByTrade(i))
  BY DEF Moved, ClosedByTrade
<1>2. \A i : Accountable(i)' <=> Accountable(i)
  BY <1>1 DEF Accountable
<1>3. Accounted' = Accounted
  BY <1>2 DEF Accounted
<1>4. TradedOnly' = TradedOnly
  BY <1>1 DEF TradedOnly
<1>5. Fresh' = Fresh
  BY DEF Fresh
<1>6. Identified(Fresh)' <=> Identified(Fresh)
  BY <1>5 DEF Identified
<1> QED BY <1>3, <1>4, <1>6

LEMMA InitExplaining == Init => Explaining
BY DEF Init, Explaining

LEMMA NextExplaining == Typed /\ Retraced /\ Explaining /\ [Next]_vars => Explaining'
<1> SUFFICES ASSUME Typed, Retraced, Explaining, [Next]_vars PROVE Explaining'
  OBVIOUS
<1>1. input \in Inputs /\ at \in Nat \ {0} /\ book \in Books /\ journal \in Entries
  BY DEF Typed
<1>2. Len(PositionItems) \in Nat
  BY <1>1, PositionItemTypes
<1>3. input' = input
  BY DEF Next, ApplyItem, StartAttribution, AttributeItem, StartMatching, MatchRecord, StartJournal,
         JournalItem, CheckJournal, Finished, vars
<1>4. PICK A, T, known :
        /\ A = Accounted /\ T = TradedOnly /\ known \in BOOLEAN /\ (known <=> Identified(Fresh))
  <2>1. (Identified(Fresh) <=> TRUE) \/ (Identified(Fresh) <=> FALSE)
    OBVIOUS
  <2> QED BY <2>1
<1>5. Accounted' = A /\ TradedOnly' = T /\ (known <=> Identified(Fresh)')
  BY <1>3, <1>4, ExplainedOfInput
<1>6. A \in SUBSET Instruments /\ T \in SUBSET Instruments
  BY <1>4 DEF Accounted, TradedOnly
<1>7. /\ known /\ stage = "journal" => Explained(journal, book, A, T)
      /\ known /\ stage = "captured" => Explained(journal, ending, A, T)
  BY <1>4 DEF Explaining
<1> SUFFICES ASSUME known
             PROVE  /\ stage' = "journal" => Explained(journal', book', A, T)
                    /\ stage' = "captured" => Explained(journal', ending', A, T)
  BY <1>5 DEF Explaining
<1>8. ASSUME ApplyItem \/ StartAttribution \/ AttributeItem \/ StartMatching \/ MatchRecord
      PROVE  stage' \notin {"journal", "captured"}
  BY <1>8 DEF ApplyItem, StartAttribution, AttributeItem, StartMatching, MatchRecord, Continue, Refuse
<1>9. ASSUME StartJournal
      PROVE  stage' = "journal" /\ Explained(journal', book', A, T)
  <2>1. stage' = "journal" /\ book' = Fresh /\ journal' = Carried
    BY <1>9 DEF StartJournal
  <2>2. Explained(Carried, Fresh, A, T)
    BY <1>1, <1>4, StartExplained
  <2> QED BY <2>1, <2>2
<1>10. ASSUME JournalItem
       PROVE  stage' # "captured" /\ (stage' = "journal" => Explained(journal', book', A, T))
  <2>1. stage = "journal" /\ at <= Len(PositionItems)
    BY <1>10 DEF JournalItem
  <2>2. PICK n, item, r : n = at /\ item = PositionItems[at] /\ r = Journaled(item)
    OBVIOUS
  <2>3. /\ book' = [r.book EXCEPT !.taken = << >>] /\ journal' = r.entries
        /\ Continue(r.book.ok, "journal", "journal")
    BY <1>10, <2>2 DEF JournalItem
  <2>4. CASE r.book.ok
    <3>1. n \in 1..Len(PositionItems) /\ item = PositionItems[n]
      BY <1>1, <1>2, <2>1, <2>2
    <3>2. Explained(journal, book, Accounted, TradedOnly)
      BY <1>4, <1>7, <2>1
    <3>3. Explained(r.entries, r.book, A, T)
      BY <1>1, <1>4, <2>2, <2>4, <3>1, <3>2, ItemExplained
    <3>4. IsItem(item)
      BY <1>1, <3>1, PositionItemTypes
    <3>5. r.book \in Books
      BY <1>1, <2>2, <3>4, JournaledTypes DEF JournalRuns
    <3>6. Explained(journal', book', A, T)
      BY <1>6, <2>3, <3>3, <3>5, ResetExplained
    <3>7. stage' = "journal"
      BY <2>3, <2>4 DEF Continue
    <3> QED BY <3>6, <3>7
  <2>5. CASE ~r.book.ok
    BY <2>3, <2>5 DEF Continue, Refuse
  <2> QED BY <2>4, <2>5
<1>11. ASSUME CheckJournal
       PROVE  stage' # "journal" /\ (stage' = "captured" => Explained(journal', ending', A, T))
  <2>1. /\ stage = "journal" /\ at > Len(PositionItems)
        /\ journal' = journal /\ ending' = ending /\ stage' \in {"captured", "refused"}
    BY <1>11 DEF CheckJournal, Continue, Refuse
  <2>2. PICK f, m, n : /\ m = Len(PositionItems) /\ n \in 0..m /\ n = at - 1
                       /\ f[m] = ending /\ f[n] = book
    BY <2>1 DEF Retraced, Journaling
  <2>3. n = m
    BY <1>1, <1>2, <2>1, <2>2
  <2>4. Explained(journal, ending, A, T)
    BY <1>7, <2>1, <2>2, <2>3
  <2> QED BY <2>1, <2>4
<1>12. ASSUME UNCHANGED vars
       PROVE  stage' = stage /\ book' = book /\ ending' = ending /\ journal' = journal
  BY <1>12 DEF vars
<1> QED BY <1>7, <1>8, <1>9, <1>10, <1>11, <1>12 DEF Next, Finished

LEMMA ExplainedPositions == Explaining => JournalExplainsPositions
<1> SUFFICES ASSUME Explaining, stage = "captured", Identified(Fresh), NEW i \in Instruments
             PROVE  /\ SumFunction(journal[i]) = SumQuantities(ending.lots[i])
                    /\ Accountable(i) => \A c \in Owners : journal[i][c] = OwnedBy(ending.lots[i], c)
  BY DEF JournalExplainsPositions
<1>1. Explained(journal, ending, Accounted, TradedOnly)
  BY DEF Explaining
<1>2. Accountable(i) => i \in Accounted
  BY DEF Accounted
<1> QED BY <1>1, <1>2 DEF Explained, Balanced, Told

\* capture_position_journal: the entries of a captured journal explain, from
\* the carried positions, what is left in every instrument, and whose it is
\* where the lots' owners are never in doubt.
THEOREM PositionsAreExplained == Spec => []JournalExplainsPositions
<1>1. Spec => []Explaining
  BY InitExplaining, NextExplaining, AlwaysTyped, AlwaysRetraced, PTL DEF Spec
<1> QED BY <1>1, ExplainedPositions, PTL

-----------------------------------------------------------------------------
(***************************************************************************)
(* The two sides of an instrument, its long and its short lots.  What a    *)
(* trade does to them does not depend on the campaign it is entered under. *)
(***************************************************************************)
SideWeight(t) == [lot \in OpenLots |-> IF Sign(lot.quantity) = t THEN lot.quantity ELSE 0]

SideOf(ls, t) == Weight(SideWeight(t), ls)

LEMMA SideAdds ==
  ASSUME NEW t
  PROVE  /\ SideOf(<< >>, t) = 0
         /\ \A s \in Seq(OpenLots) : SideOf(s, t) \in Int
         /\ \A s \in Seq(OpenLots), x \in OpenLots :
              SideOf(Append(s, x), t) = SideOf(s, t) + (IF Sign(x.quantity) = t THEN x.quantity ELSE 0)
<1>1. PICK w : w = SideWeight(t)
  OBVIOUS
<1>2. w \in [OpenLots -> Int] /\ \A x \in OpenLots : w[x] = IF Sign(x.quantity) = t THEN x.quantity ELSE 0
  BY <1>1 DEF SideWeight, OpenLots
<1>3. SideOf(<< >>, t) = 0
  BY WeightOfNone DEF SideOf
<1>4. \A s \in Seq(OpenLots) : SideOf(s, t) \in Int
  BY <1>1, <1>2, WeightIs DEF SideOf
<1>5. ASSUME NEW s \in Seq(OpenLots), NEW x \in OpenLots
      PROVE  SideOf(Append(s, x), t) = SideOf(s, t) + (IF Sign(x.quantity) = t THEN x.quantity ELSE 0)
  <2>1. Weight(w, Append(s, x)) = Weight(w, s) + w[x]
    BY <1>2, WeightOfOneMore
  <2> QED BY <1>1, <1>2, <2>1 DEF SideOf
<1> QED BY <1>3, <1>4, <1>5

LEMMA SideRunning ==
  ASSUME NEW ls \in Seq(OpenLots), NEW t
  PROVE  \E f : /\ f[0] = 0 /\ \A k \in 0..Len(ls) : f[k] \in Int
                /\ \A k \in 1..Len(ls) :
                     f[k] = f[k - 1] + (IF Sign(ls[k].quantity) = t THEN ls[k].quantity ELSE 0)
                /\ SideOf(ls, t) = f[Len(ls)]
<1>1. PICK w, u : w = SideWeight(t) /\ u = [n \in DOMAIN ls |-> w[ls[n]]]
  OBVIOUS
<1>2. w \in [OpenLots -> Int] /\ \A x \in OpenLots : w[x] = IF Sign(x.quantity) = t THEN x.quantity ELSE 0
  BY <1>1 DEF SideWeight, OpenLots
<1>3. u \in Seq(Int) /\ Len(u) = Len(ls) /\ \A k \in 1..Len(ls) : u[k] = w[ls[k]]
  BY <1>1, <1>2, WeightIs
<1>4. PICK f : IsRunning(f, u)
  BY <1>3, RunningExists
<1>5. SideOf(ls, t) = f[Len(ls)]
  <2>1. SideOf(ls, t) = Total(u)
    BY <1>1 DEF SideOf, Weight
  <2> QED BY <1>3, <1>4, <2>1, TotalIs
<1>6. /\ f[0] = 0 /\ \A k \in 0..Len(u) : f[k] \in Int
      /\ \A k \in 1..Len(u) : f[k] = f[k - 1] + u[k]
  BY <1>3, <1>4, RunningFacts
<1>7. \A k \in 1..Len(ls) : u[k] = IF Sign(ls[k].quantity) = t THEN ls[k].quantity ELSE 0
  BY <1>2, <1>3
<1> QED BY <1>3, <1>5, <1>6, <1>7

\* What there is of a sign has it.
LEMMA SideSigned ==
  ASSUME NEW ls \in Seq(OpenLots), NEW t \in {1, -1}
  PROVE  IF t = 1 THEN SideOf(ls, t) >= 0 ELSE SideOf(ls, t) <= 0
<1>1. PICK f : /\ f[0] = 0 /\ \A k \in 0..Len(ls) : f[k] \in Int
               /\ \A k \in 1..Len(ls) :
                    f[k] = f[k - 1] + (IF Sign(ls[k].quantity) = t THEN ls[k].quantity ELSE 0)
               /\ SideOf(ls, t) = f[Len(ls)]
  BY SideRunning
<1>2. Len(ls) \in Nat
  OBVIOUS
<1> DEFINE Good(x) == IF t = 1 THEN x >= 0 ELSE x <= 0
           S == { k \in 0..Len(ls) : Good(f[k]) }
<1>3. 0 \in S
  BY <1>1, <1>2
<1>4. ASSUME NEW k \in 1..Len(ls), k - 1 \in S PROVE k \in S
  <2>1. k - 1 \in 0..Len(ls) /\ k \in 0..Len(ls)
    BY <1>2
  <2>2. PICK p, q, r : p = f[k - 1] /\ q = ls[k].quantity /\ r = f[k]
    OBVIOUS
  <2>3. /\ p \in Int /\ q \in Int /\ r = p + (IF Sign(q) = t THEN q ELSE 0) /\ Good(p)
    <3>1. ls[k] \in OpenLots
      OBVIOUS
    <3>2. q \in Int
      BY <2>2, <3>1 DEF OpenLots
    <3> QED BY <1>1, <1>4, <2>1, <2>2, <3>2
  <2>4. Good(r)
    BY ONLY <2>3, t \in {1, -1} DEF Sign
  <2> QED BY <2>1, <2>2, <2>4
<1>5. Len(ls) \in S
  <2>1. Len(ls) \in 0..Len(ls)
    BY <1>2
  <2> HIDE DEF S
  <2> QED BY <1>2, <1>3, <1>4, <2>1, Upward
<1> QED BY <1>1, <1>5

LEMMA SidesMakeTheSum ==
  ASSUME NEW ls \in Seq(OpenLots)
  PROVE  SumQuantities(ls) = SideOf(ls, 1) + SideOf(ls, -1)
<1>1. PICK x, y, u, v, q : /\ x = SideWeight(1) /\ y = SideWeight(-1)
                           /\ u = [n \in DOMAIN ls |-> x[ls[n]]] /\ v = [n \in DOMAIN ls |-> y[ls[n]]]
                           /\ q = QuantitiesOf(ls)
  OBVIOUS
<1>2. x \in [OpenLots -> Int] /\ y \in [OpenLots -> Int]
  BY <1>1 DEF SideWeight, OpenLots
<1>3. /\ u \in Seq(Int) /\ v \in Seq(Int) /\ Len(u) = Len(ls) /\ Len(v) = Len(ls)
      /\ \A k \in 1..Len(ls) : u[k] = x[ls[k]] /\ v[k] = y[ls[k]]
  <2>1. u \in Seq(Int) /\ Len(u) = Len(ls) /\ \A k \in 1..Len(ls) : u[k] = x[ls[k]]
    BY <1>1, <1>2, WeightIs
  <2>2. v \in Seq(Int) /\ Len(v) = Len(ls) /\ \A k \in 1..Len(ls) : v[k] = y[ls[k]]
    BY <1>1, <1>2, WeightIs
  <2> QED BY <2>1, <2>2
<1>4. q \in Seq(Int) /\ Len(q) = Len(ls) /\ \A k \in 1..Len(ls) : q[k] = ls[k].quantity
  BY <1>1, LotsQuantified, QuantitiesAreInts
<1>5. \A k \in 1..Len(u) : q[k] = u[k] + v[k]
  <2> TAKE k \in 1..Len(u)
  <2>1. k \in 1..Len(ls) /\ ls[k] \in OpenLots
    BY <1>3
  <2>2. u[k] = SideWeight(1)[ls[k]] /\ v[k] = SideWeight(-1)[ls[k]] /\ q[k] = ls[k].quantity
    BY <1>1, <1>3, <1>4, <2>1
  <2> QED BY <2>1, <2>2 DEF SideWeight, OpenLots, Sign
<1>6. Total(q) = Total(u) + Total(v)
  BY <1>3, <1>4, <1>5, TotalAdded
<1> QED BY <1>1, <1>6 DEF SumQuantities, SideOf, Weight

\* A close moves one side only, and by what it finds.
SideStep(r, lot, next, t) ==
  /\ next.due = 0 \/ (r.due # 0 /\ Sign(next.due) = t)
  /\ SideOf(next.open, -t) = SideOf(r.open, -t)
       + (IF Sign(lot.quantity) = -t THEN lot.quantity ELSE 0) + (r.due - next.due)
  /\ SideOf(next.open, t) = SideOf(r.open, t) + (IF Sign(lot.quantity) = t THEN lot.quantity ELSE 0)
  /\ next.due = 0 \/ (SideOf(r.open, -t) = 0 => SideOf(next.open, -t) = 0)

LEMMA CloseLotSides ==
  ASSUME NEW r \in Runs, NEW lot \in OpenLots, NEW c \in Owners, NEW t \in {1, -1},
         r.due = 0 \/ Sign(r.due) = t
  PROVE  SideStep(r, lot, CloseLot(r, lot, c), t)
<1>1. r.open \in Seq(OpenLots) /\ r.due \in Int
  BY DEF Runs
<1>2. PICK a, b, q : a = SideOf(r.open, t) /\ b = SideOf(r.open, -t) /\ q = lot.quantity
  OBVIOUS
<1>3. a \in Int /\ b \in Int /\ q \in Int \ {0} /\ (Sign(q) = t \/ Sign(q) = -t) /\ t # -t
  <2>1. a \in Int /\ b \in Int
    BY <1>1, <1>2, SideAdds
  <2>2. q \in Int \ {0}
    BY <1>2 DEF OpenLots
  <2> QED BY <2>1, <2>2 DEF Sign
<1>4. PICK next : next = CloseLot(r, lot, c)
  OBVIOUS
<1>5. CASE r.due = 0 \/ Sign(lot.quantity) = Sign(r.due)
  <2>1. next = [open |-> Append(r.open, lot), due |-> r.due, taken |-> r.taken]
    BY <1>4, <1>5 DEF CloseLot
  <2>2. next.open = Append(r.open, lot) /\ next.due = r.due
    BY <2>1
  <2>3. /\ SideOf(next.open, t) = a + (IF Sign(q) = t THEN q ELSE 0)
        /\ SideOf(next.open, -t) = b + (IF Sign(q) = -t THEN q ELSE 0)
    <3>1. SideOf(Append(r.open, lot), t)
            = SideOf(r.open, t) + (IF Sign(lot.quantity) = t THEN lot.quantity ELSE 0)
      BY <1>1, SideAdds
    <3>2. SideOf(Append(r.open, lot), -t)
            = SideOf(r.open, -t) + (IF Sign(lot.quantity) = -t THEN lot.quantity ELSE 0)
      BY <1>1, SideAdds
    <3> QED BY <1>2, <2>2, <3>1, <3>2
  <2>4. r.due = 0 \/ Sign(q) = t
    BY <1>2, <1>5
  <2>5. PICK d, x, y : d = r.due /\ x = SideOf(next.open, t) /\ y = SideOf(next.open, -t)
    OBVIOUS
  <2>6. /\ d \in Int /\ next.due = d /\ (d = 0 \/ Sign(d) = t)
        /\ x = a + (IF Sign(q) = t THEN q ELSE 0) /\ y = b + (IF Sign(q) = -t THEN q ELSE 0)
    BY <1>1, <2>2, <2>3, <2>5
  <2>7. d = 0 \/ (d # 0 /\ Sign(d) = t)
    BY <2>6
  <2>8. y = b + (IF Sign(q) = -t THEN q ELSE 0) + (d - d)
    BY <1>3, <2>6
  <2>9. d = 0 \/ (b = 0 => y = 0)
    BY <1>3, <2>4, <2>5, <2>6
  <2>10. /\ next.due = 0 \/ (r.due # 0 /\ Sign(next.due) = t)
         /\ SideOf(next.open, -t) = SideOf(r.open, -t)
              + (IF Sign(lot.quantity) = -t THEN lot.quantity ELSE 0) + (r.due - next.due)
         /\ SideOf(next.open, t) = SideOf(r.open, t) + (IF Sign(lot.quantity) = t THEN lot.quantity ELSE 0)
         /\ next.due = 0 \/ (SideOf(r.open, -t) = 0 => SideOf(next.open, -t) = 0)
    BY <1>2, <2>5, <2>6, <2>7, <2>8, <2>9
  <2> QED BY <1>4, <2>10 DEF SideStep
<1>6. CASE ~(r.due = 0 \/ Sign(lot.quantity) = Sign(r.due))
  <2>1. PICK part : part = Taken(lot, r.due)
    OBVIOUS
  <2>2. PICK rest : rest = [lot EXCEPT !.quantity = lot.quantity + part]
    OBVIOUS
  <2>3. next = [open |-> IF lot.quantity + part = 0 THEN r.open ELSE Append(r.open, rest),
                due |-> r.due - part, taken |-> Append(r.taken, AllocationOf(lot, part, c))]
    BY <1>4, <1>6, <2>1, <2>2 DEF CloseLot
  <2>4. /\ next.open = IF q + part = 0 THEN r.open ELSE Append(r.open, rest)
        /\ next.due = r.due - part
    BY <1>2, <2>3
  <2>5. Sign(r.due) = t /\ Sign(q) = -t /\ r.due # 0
    BY <1>2, <1>3, <1>6
  <2>6. /\ part \in Int /\ (r.due - part = 0 \/ Sign(r.due - part) = t)
        /\ q + part # 0 => r.due - part = 0 /\ Sign(q + part) = -t
    <3>1. PICK d, m : d = r.due /\ m = Smaller(Magnitude(q), Magnitude(d))
      OBVIOUS
    <3>2. part = t * m /\ d \in Int /\ d # 0 /\ Sign(d) = t /\ Sign(q) = -t
      BY <1>1, <1>2, <2>1, <2>5, <3>1 DEF Taken
    <3>3. CASE t = 1
      <4>1. d > 0 /\ q < 0 /\ m = (IF -q < d THEN -q ELSE d)
        BY <1>3, <3>1, <3>2, <3>3 DEF Sign, Magnitude, Smaller
      <4>2. part = m
        BY <1>3, <3>2, <3>3, <4>1
      <4>3. /\ part \in Int /\ (d - part = 0 \/ Sign(d - part) = 1)
            /\ q + part # 0 => d - part = 0 /\ Sign(q + part) = -1
        BY ONLY <1>3, <3>2, <4>1, <4>2 DEF Sign
      <4> QED BY <3>1, <3>3, <4>3
    <3>4. CASE t = -1
      <4>1. d < 0 /\ q > 0 /\ m = (IF q < -d THEN q ELSE -d)
        BY <1>3, <3>1, <3>2, <3>4 DEF Sign, Magnitude, Smaller
      <4>2. part = -m
        BY <1>3, <3>2, <3>4, <4>1
      <4>3. /\ part \in Int /\ (d - part = 0 \/ Sign(d - part) = -1)
            /\ q + part # 0 => d - part = 0 /\ Sign(q + part) = 1
        BY ONLY <1>3, <3>2, <4>1, <4>2 DEF Sign
      <4> QED BY <3>1, <3>4, <4>3
    <3> QED BY <3>3, <3>4
  <2>7. q + part # 0 => rest \in OpenLots /\ rest.quantity = q + part
    BY <1>2, <1>3, <2>2, <2>6 DEF OpenLots
  <2>8. SideOf(next.open, t) = a
    <3>1. CASE q + part = 0
      BY <1>2, <2>4, <3>1
    <3>2. CASE q + part # 0
      <4>1. next.open = Append(r.open, rest) /\ rest \in OpenLots /\ rest.quantity = q + part
        BY <2>4, <2>7, <3>2
      <4>2. Sign(rest.quantity) # t
        BY <1>3, <2>6, <3>2, <4>1
      <4>3. SideOf(Append(r.open, rest), t)
              = SideOf(r.open, t) + (IF Sign(rest.quantity) = t THEN rest.quantity ELSE 0)
        BY <1>1, <4>1, SideAdds
      <4>4. SideOf(next.open, t) = a + 0
        BY <1>2, <4>1, <4>2, <4>3
      <4> QED BY <1>3, <4>4
    <3> QED BY <3>1, <3>2
  <2>9. SideOf(next.open, -t) = b + q + part
    <3>1. CASE q + part = 0
      <4>1. next.open = r.open
        BY <2>4, <3>1
      <4>2. SideOf(next.open, -t) = b
        BY <1>2, <4>1
      <4> QED BY ONLY <1>3, <2>6, <3>1, <4>2
    <3>2. CASE q + part # 0
      <4>1. SideOf(next.open, -t) = b + (q + part)
        BY <1>1, <1>2, <2>4, <2>6, <2>7, <3>2, SideAdds, ZenonT(60)
      <4> QED BY ONLY <1>3, <2>6, <4>1
    <3> QED BY <3>1, <3>2
  <2>10. next.due # 0 => q + part = 0
    BY <2>4, <2>6
  <2>11. SideOf(next.open, -t) = b + q + (r.due - next.due)
    BY <1>1, <1>3, <2>4, <2>6, <2>9
  <2>12. next.due = 0 \/ (b = 0 => SideOf(next.open, -t) = 0)
    BY <1>3, <2>6, <2>9, <2>10
  <2> QED BY <1>2, <1>3, <1>4, <2>4, <2>5, <2>6, <2>8, <2>11, <2>12 DEF SideStep
<1> QED BY <1>5, <1>6

\* A close as a whole.
RunSides(ls, due, run, t) ==
  /\ run.due = 0 \/ (Sign(run.due) = t /\ SideOf(run.open, -t) = 0)
  /\ SideOf(run.open, -t) = SideOf(ls, -t) + (due - run.due)
  /\ SideOf(run.open, t) = SideOf(ls, t)

LEMMA CloseRunSides ==
  ASSUME NEW ls \in Seq(OpenLots), NEW due \in Int, NEW c \in Owners, NEW t \in {1, -1},
         due = 0 \/ Sign(due) = t
  PROVE  RunSides(ls, due, CloseRun(ls, due, c), t)
<1>1. PICK f \in [0..Len(ls) -> Runs] :
        /\ f[0] = [open |-> << >>, due |-> due, taken |-> << >>]
        /\ \A k \in 1..Len(ls) : f[k] = CloseLot(f[k - 1], ls[k], c)
        /\ CloseRun(ls, due, c) = f[Len(ls)]
  BY CloseRunLoop
<1>2. -t \in {1, -1} /\ Len(ls) \in Nat
  OBVIOUS
<1>3. PICK u : /\ u[0] = 0 /\ \A k \in 0..Len(ls) : u[k] \in Int
               /\ \A k \in 1..Len(ls) :
                    u[k] = u[k - 1] + (IF Sign(ls[k].quantity) = t THEN ls[k].quantity ELSE 0)
               /\ SideOf(ls, t) = u[Len(ls)]
  BY SideRunning
<1>4. PICK v : /\ v[0] = 0 /\ \A k \in 0..Len(ls) : v[k] \in Int
               /\ \A k \in 1..Len(ls) :
                    v[k] = v[k - 1] + (IF Sign(ls[k].quantity) = -t THEN ls[k].quantity ELSE 0)
               /\ SideOf(ls, -t) = v[Len(ls)]
  BY SideRunning
<1> DEFINE Good(k) ==
             /\ f[k].due = 0 \/ (Sign(f[k].due) = t /\ SideOf(f[k].open, -t) = 0)
             /\ SideOf(f[k].open, -t) = v[k] + (due - f[k].due)
             /\ SideOf(f[k].open, t) = u[k]
           S == { k \in 0..Len(ls) : Good(k) }
<1>5. 0 \in S
  <2>1. f[0].open = << >> /\ f[0].due = due
    BY <1>1
  <2>2. SideOf(f[0].open, -t) = 0 /\ SideOf(f[0].open, t) = 0
    BY <2>1, SideAdds
  <2>3. Good(0)
    BY <1>3, <1>4, <2>1, <2>2
  <2> QED BY <1>2, <2>3
<1>6. ASSUME NEW k \in 1..Len(ls), k - 1 \in S PROVE k \in S
  <2>1. k - 1 \in 0..Len(ls) /\ k \in 0..Len(ls) /\ ls[k] \in OpenLots
    BY <1>2
  <2>2. PICK p, q, lot : p = f[k - 1] /\ q = f[k] /\ lot = ls[k]
    OBVIOUS
  <2>3. p \in Runs /\ q \in Runs /\ lot \in OpenLots /\ q = CloseLot(p, lot, c)
    BY <1>1, <2>1, <2>2
  <2>4. Good(k - 1)
    BY <1>6
  <2>5. p.due = 0 \/ Sign(p.due) = t
    BY <2>2, <2>4
  <2>6. SideStep(p, lot, q, t)
    BY <2>3, <2>5, CloseLotSides
  <2>7. /\ p.open \in Seq(OpenLots) /\ q.open \in Seq(OpenLots) /\ p.due \in Int /\ q.due \in Int
        /\ lot.quantity \in Int
    BY <2>3 DEF Runs, OpenLots
  <2>8. PICK a, b, x, y, z, d, e :
          /\ a = SideOf(p.open, -t) /\ b = SideOf(q.open, -t)
          /\ x = SideOf(p.open, t) /\ y = SideOf(q.open, t)
          /\ z = lot.quantity /\ d = p.due /\ e = q.due
    OBVIOUS
  <2>9. a \in Int /\ b \in Int /\ x \in Int /\ y \in Int /\ z \in Int /\ d \in Int /\ e \in Int
    BY <2>7, <2>8, SideAdds
  <2>10. /\ e = 0 \/ (d # 0 /\ Sign(e) = t)
         /\ b = a + (IF Sign(z) = -t THEN z ELSE 0) + (d - e)
         /\ y = x + (IF Sign(z) = t THEN z ELSE 0)
         /\ e = 0 \/ (a = 0 => b = 0)
    BY <2>6, <2>8 DEF SideStep
  <2>11. PICK v0, v1, u0, u1 : v0 = v[k - 1] /\ v1 = v[k] /\ u0 = u[k - 1] /\ u1 = u[k]
    OBVIOUS
  <2>12. /\ v0 \in Int /\ u0 \in Int
         /\ v1 = v0 + (IF Sign(z) = -t THEN z ELSE 0) /\ u1 = u0 + (IF Sign(z) = t THEN z ELSE 0)
    BY <1>3, <1>4, <2>1, <2>2, <2>8, <2>11
  <2>13. (d = 0 \/ (Sign(d) = t /\ a = 0)) /\ a = v0 + (due - d) /\ x = u0
    BY <2>2, <2>4, <2>8, <2>11
  <2>14. b = v1 + (due - e) /\ y = u1
    BY <2>9, <2>10, <2>12, <2>13
  <2>15. e = 0 \/ b = 0
    BY <2>10, <2>13
  <2> QED BY <2>1, <2>2, <2>8, <2>10, <2>11, <2>14, <2>15
<1>7. Len(ls) \in S
  <2>1. Len(ls) \in 0..Len(ls)
    BY <1>2
  <2> HIDE DEF S
  <2> QED BY <1>2, <1>5, <1>6, <2>1, Upward
<1> QED BY <1>1, <1>3, <1>4, <1>7 DEF RunSides

\* What a leg does to the sides of its instrument, for a signed quantity "due".
LegSides(ls, after, leg, due, ok, t) ==
  IF leg.effect = "OPEN"
  THEN ok /\ SideOf(after, t) = SideOf(ls, t) + due /\ SideOf(after, -t) = SideOf(ls, -t)
  ELSE \E left \in Int :
         /\ ok = (left = 0)
         /\ left = 0 \/ (Sign(left) = t /\ SideOf(after, -t) = 0)
         /\ SideOf(after, -t) = SideOf(ls, -t) + (due - left)
         /\ SideOf(after, t) = SideOf(ls, t)

LEMMA LegMoves ==
  ASSUME NEW b \in Books, b.ok, NEW leg \in LegRecords, NEW now \in Nat, NEW o \in Owners,
         NEW t \in {1, -1}, t = Sign(Executed(leg)),
         NEW after, after = ApplyLeg(b, leg, now, o)
  PROVE  /\ LegSides(b.lots[leg.instrument], after.lots[leg.instrument], leg, Executed(leg), after.ok, t)
         /\ \A j \in Instruments : j # leg.instrument => after.lots[j] = b.lots[j]
<1>1. PICK i, due, ls : i = leg.instrument /\ due = Executed(leg) /\ ls = b.lots[i]
  OBVIOUS
<1>2. /\ i \in Instruments /\ due \in Int \ {0} /\ leg.effect \in {"OPEN", "CLOSE"}
      /\ b.lots \in [Instruments -> Seq(OpenLots)] /\ ls \in Seq(OpenLots)
  BY <1>1, ExecutedTypes, BookFields
<1>3. CASE leg.effect = "OPEN"
  <2>1. after = AppendNew(b, i, due, now, o)
    BY <1>1, <1>3 DEF ApplyLeg
  <2>2. PICK x : x = BuildLot(NewId(b), due, now, o)
    OBVIOUS
  <2>3. x \in OpenLots /\ x.quantity = due
    <3>1. x \in OpenLots
      BY <1>2, <2>2, AppendNewTypes
    <3> QED BY <2>2, <3>1 DEF BuildLot
  <2>4. Rewrites(after, b.lots, i, Append(ls, x), b.nextId + 1, b.ok, b.taken)
    BY <1>1, <1>2, <2>1, <2>2, AppendNewIs
  <2>5. /\ after.lots[i] = Append(ls, x) /\ after.ok = b.ok
        /\ \A j \in Instruments : j # i => after.lots[j] = b.lots[j]
    BY <2>4 DEF Rewrites
  <2>6. Sign(x.quantity) = t /\ t # -t
    BY <1>1, <2>3
  <2>8. SideOf(Append(ls, x), t) = SideOf(ls, t) + due
    BY <1>2, <2>3, <2>6, SideAdds
  <2>7. SideOf(Append(ls, x), -t) = SideOf(ls, -t)
    <3>1. SideOf(Append(ls, x), -t) = SideOf(ls, -t) + 0 /\ SideOf(ls, -t) \in Int
      BY <1>2, <2>3, <2>6, SideAdds
    <3> QED BY <3>1
  <2> QED BY <1>1, <1>3, <2>5, <2>8, <2>7 DEF LegSides
<1>4. CASE leg.effect = "CLOSE"
  <2>1. PICK run : run = CloseRun(ls, due, o)
    OBVIOUS
  <2>2. run.due \in Int
    BY <1>2, <2>1, CloseRunTypes
  <2>3. after = [lots |-> [b.lots EXCEPT ![i] = run.open], nextId |-> b.nextId,
                 ok |-> run.due = 0, taken |-> b.taken \o run.taken]
    BY <1>1, <1>4, <2>1 DEF ApplyLeg
  <2>4. PICK lots, n, ok, u, s : lots = b.lots /\ n = b.nextId /\ ok = (run.due = 0)
                                 /\ u = b.taken \o run.taken /\ s = run.open
    OBVIOUS
  <2>5. after = [lots |-> [lots EXCEPT ![i] = s], nextId |-> n, ok |-> ok, taken |-> u]
    BY <2>3, <2>4
  <2>6. Rewrites(after, lots, i, s, n, ok, u)
    BY <1>2, <2>4, <2>5, Rewritten
  <2>8. /\ after.lots[i] = run.open /\ after.ok = (run.due = 0)
        /\ \A j \in Instruments : j # i => after.lots[j] = b.lots[j]
    BY <2>4, <2>6 DEF Rewrites
  <2>7. RunSides(ls, due, run, t)
    BY <1>1, <1>2, <2>1, CloseRunSides
  <2>9. LegSides(ls, run.open, leg, due, after.ok, t)
    BY <1>4, <2>2, <2>8, <2>7 DEF RunSides, LegSides
  <2> QED BY <1>1, <2>8, <2>9
<1> QED BY <1>2, <1>3, <1>4

\* The same sides, and as far.
Levels(b, d) ==
  /\ b.ok = d.ok
  /\ \A i \in Instruments : \A t \in {1, -1} : SideOf(b.lots[i], t) = SideOf(d.lots[i], t)

LEMMA SidesDetermined ==
  ASSUME NEW ls \in Seq(OpenLots), NEW ms \in Seq(OpenLots), NEW t \in {1, -1},
         SideOf(ls, t) = SideOf(ms, t), SideOf(ls, -t) = SideOf(ms, -t),
         NEW leg, NEW due \in Int, NEW x \in BOOLEAN, NEW y \in BOOLEAN,
         NEW ls1 \in Seq(OpenLots), NEW ms1 \in Seq(OpenLots),
         LegSides(ls, ls1, leg, due, x, t), LegSides(ms, ms1, leg, due, y, t)
  PROVE  x = y /\ SideOf(ls1, t) = SideOf(ms1, t) /\ SideOf(ls1, -t) = SideOf(ms1, -t)
<1>1. PICK s : s = SideOf(ls, -t)
  OBVIOUS
<1>2. \A os \in Seq(OpenLots) :
        SideOf(os, -t) \in Int /\ IF t = 1 THEN SideOf(os, -t) <= 0 ELSE SideOf(os, -t) >= 0
  <2>1. -t \in {1, -1} /\ (-t = 1 <=> t # 1)
    OBVIOUS
  <2>2. \A os \in Seq(OpenLots) : IF -t = 1 THEN SideOf(os, -t) >= 0 ELSE SideOf(os, -t) <= 0
    BY <2>1, SideSigned
  <2>3. \A os \in Seq(OpenLots) : SideOf(os, -t) \in Int
    BY SideAdds
  <2> QED BY <2>1, <2>2, <2>3
<1>3. CASE leg.effect = "OPEN"
  BY <1>3 DEF LegSides
<1>4. CASE leg.effect # "OPEN"
  <2>1. PICK left \in Int : /\ x = (left = 0)
                            /\ left = 0 \/ (Sign(left) = t /\ SideOf(ls1, -t) = 0)
                            /\ SideOf(ls1, -t) = s + (due - left)
                            /\ SideOf(ls1, t) = SideOf(ls, t)
    BY <1>1, <1>4 DEF LegSides
  <2>2. PICK rest \in Int : /\ y = (rest = 0)
                            /\ rest = 0 \/ (Sign(rest) = t /\ SideOf(ms1, -t) = 0)
                            /\ SideOf(ms1, -t) = s + (due - rest)
                            /\ SideOf(ms1, t) = SideOf(ms, t)
    BY <1>1, <1>4 DEF LegSides
  <2>3. PICK p, q : p = SideOf(ls1, -t) /\ q = SideOf(ms1, -t)
    OBVIOUS
  <2>4. rest = 0 \/ (Sign(rest) = t /\ q = 0)
    BY <2>2, <2>3
  <2>5. p = s + (due - left) /\ q = s + (due - rest)
    BY <2>1, <2>2, <2>3
  <2>6. left = 0 \/ (Sign(left) = t /\ p = 0)
    BY <2>1, <2>3
  <2>7. /\ left \in Int /\ rest \in Int /\ due \in Int /\ s \in Int
        /\ IF t = 1 THEN s <= 0 /\ p <= 0 /\ q <= 0 ELSE s >= 0 /\ p >= 0 /\ q >= 0
    BY <1>1, <1>2, <2>3
  <2>8. left = rest
    <3>1. CASE t = 1
      <4>1. p <= 0 /\ q <= 0 /\ (left = 0 \/ (left > 0 /\ p = 0)) /\ (rest = 0 \/ (rest > 0 /\ q = 0))
        BY <2>4, <2>6, <2>7, <3>1 DEF Sign
      <4> QED BY ONLY <4>1, <2>5, <2>7
    <3>2. CASE t = -1
      <4>1. p >= 0 /\ q >= 0 /\ (left = 0 \/ (left < 0 /\ p = 0)) /\ (rest = 0 \/ (rest < 0 /\ q = 0))
        BY <2>4, <2>6, <2>7, <3>2 DEF Sign
      <4> QED BY ONLY <4>1, <2>5, <2>7
    <3> QED BY <3>1, <3>2
  <2> QED BY <2>1, <2>2, <2>8
<1> QED BY <1>3, <1>4

LEMMA LegLevels ==
  ASSUME NEW b \in Books, NEW d \in Books, Levels(b, d), NEW leg \in LegRecords, NEW now \in Nat,
         NEW o \in Owners, NEW c \in Owners
  PROVE  Levels(ApplyLeg(b, leg, now, o), ApplyLeg(d, leg, now, c))
<1>1. PICK p, q : p = ApplyLeg(b, leg, now, o) /\ q = ApplyLeg(d, leg, now, c)
  OBVIOUS
<1>2. p \in Books /\ q \in Books
  BY <1>1, ApplyLegTypes
<1>3. b.ok = d.ok /\ b.ok \in BOOLEAN
  BY BookFields DEF Levels
<1>4. CASE b.ok = FALSE
  <2>1. p = b /\ q = d
    BY <1>1, <1>3, <1>4 DEF ApplyLeg
  <2> QED BY <1>1, <2>1
<1>5. CASE b.ok = TRUE
  <2>1. PICK i, due, t : i = leg.instrument /\ due = Executed(leg) /\ t = Sign(due)
    OBVIOUS
  <2>2. i \in Instruments /\ due \in Int /\ t \in {1, -1} /\ -t \in {1, -1}
    <3>1. i \in Instruments /\ due \in Int
      BY <2>1, ExecutedTypes
    <3>2. t = 1 \/ t = -1
      BY <2>1 DEF Sign
    <3> QED BY <3>1, <3>2
  <2>3. PICK ls, ms, ls1, ms1 : ls = b.lots[i] /\ ms = d.lots[i] /\ ls1 = p.lots[i] /\ ms1 = q.lots[i]
    OBVIOUS
  <2>4. ls \in Seq(OpenLots) /\ ms \in Seq(OpenLots) /\ ls1 \in Seq(OpenLots) /\ ms1 \in Seq(OpenLots)
    BY <1>2, <2>2, <2>3, BookFields
  <2>5. /\ LegSides(ls, ls1, leg, due, p.ok, t)
        /\ \A j \in Instruments : j # i => p.lots[j] = b.lots[j]
    <3>1. b.ok /\ p = ApplyLeg(b, leg, now, o) /\ t = Sign(Executed(leg)) /\ t \in {1, -1}
      BY <1>1, <1>3, <1>5, <2>1, <2>2
    <3>2. LegSides(b.lots[leg.instrument], p.lots[leg.instrument], leg, Executed(leg), p.ok, t)
      BY <3>1, LegMoves
    <3>3. \A j \in Instruments : j # leg.instrument => p.lots[j] = b.lots[j]
      BY <3>1, LegMoves
    <3> QED BY <2>1, <2>3, <3>2, <3>3
  <2>6. /\ LegSides(ms, ms1, leg, due, q.ok, t)
        /\ \A j \in Instruments : j # i => q.lots[j] = d.lots[j]
    <3>1. d.ok /\ q = ApplyLeg(d, leg, now, c) /\ t = Sign(Executed(leg)) /\ t \in {1, -1}
      BY <1>1, <1>3, <1>5, <2>1, <2>2
    <3>2. LegSides(d.lots[leg.instrument], q.lots[leg.instrument], leg, Executed(leg), q.ok, t)
      BY <3>1, LegMoves
    <3>3. \A j \in Instruments : j # leg.instrument => q.lots[j] = d.lots[j]
      BY <3>1, LegMoves
    <3> QED BY <2>1, <2>3, <3>2, <3>3
  <2>7. SideOf(ls, t) = SideOf(ms, t) /\ SideOf(ls, -t) = SideOf(ms, -t)
    BY <2>2, <2>3 DEF Levels
  <2>8. p.ok \in BOOLEAN /\ q.ok \in BOOLEAN
    BY <1>2, BookFields
  <2>9. p.ok = q.ok /\ SideOf(ls1, t) = SideOf(ms1, t) /\ SideOf(ls1, -t) = SideOf(ms1, -t)
    BY <2>2, <2>4, <2>5, <2>6, <2>7, <2>8, SidesDetermined
  <2>10. ASSUME NEW j \in Instruments, NEW u \in {1, -1}
         PROVE  SideOf(p.lots[j], u) = SideOf(q.lots[j], u)
    <3>1. CASE j # i
      <4>1. p.lots[j] = b.lots[j] /\ q.lots[j] = d.lots[j]
        BY <2>5, <2>6, <3>1
      <4> QED BY <4>1 DEF Levels
    <3>2. CASE j = i
      <4>1. u = t \/ u = -t
        BY <2>2
      <4> QED BY <2>3, <2>9, <3>2, <4>1
    <3> QED BY <3>1, <3>2
  <2> QED BY <1>1, <2>9, <2>10 DEF Levels
<1> QED BY <1>3, <1>4, <1>5

LEMMA TradeLevels ==
  ASSUME NEW b \in Books, NEW trade \in TradeRecords, NEW o \in Owners, NEW c \in Owners
  PROVE  Levels(ApplyTrade(b, trade, o), ApplyTrade(b, trade, c))
<1>1. PICK m, legs, now : m = Len(trade.legs) /\ legs = trade.legs /\ now = trade.time
  OBVIOUS
<1>2. m \in Nat /\ now \in Nat /\ \A k \in 1..m : legs[k] \in LegRecords
  <2>1. legs \in Seq(LegRecords) /\ now \in Nat
    BY <1>1 DEF TradeRecords
  <2> QED BY <1>1, <2>1
<1>3. PICK f \in [0..m -> Books] :
        /\ f[0] = b
        /\ \A k \in 1..m : f[k] = ApplyLeg(f[k - 1], legs[k], now, o)
        /\ ApplyTrade(b, trade, o) = f[m]
  BY <1>1, ApplyTradeLoop
<1>4. PICK g \in [0..m -> Books] :
        /\ g[0] = b
        /\ \A k \in 1..m : g[k] = ApplyLeg(g[k - 1], legs[k], now, c)
        /\ ApplyTrade(b, trade, c) = g[m]
  BY <1>1, ApplyTradeLoop
<1> DEFINE S == { k \in 0..m : Levels(f[k], g[k]) }
<1>5. 0 \in S
  BY <1>2, <1>3, <1>4 DEF Levels
<1>6. ASSUME NEW k \in 1..m, k - 1 \in S PROVE k \in S
  <2>1. k - 1 \in 0..m /\ k \in 0..m
    BY <1>2
  <2>2. PICK p, q, leg : p = f[k - 1] /\ q = g[k - 1] /\ leg = legs[k]
    OBVIOUS
  <2>3. p \in Books /\ q \in Books /\ leg \in LegRecords /\ Levels(p, q)
    BY <1>2, <1>6, <2>1, <2>2
  <2>4. Levels(ApplyLeg(p, leg, now, o), ApplyLeg(q, leg, now, c))
    BY <1>2, <2>3, LegLevels
  <2> QED BY <1>3, <1>4, <2>1, <2>2, <2>4
<1>7. m \in S
  <2>1. m \in 0..m
    BY <1>2
  <2> HIDE DEF S
  <2> QED BY <1>2, <1>5, <1>6, <2>1, Upward
<1> QED BY <1>3, <1>4, <1>7

LEMMA LevelsExpose ==
  ASSUME NEW b \in Books, NEW d \in Books, Levels(b, d), NEW symbol
  PROVE  Exposed(b, symbol) = Exposed(d, symbol)
<1>1. ASSUME NEW i \in Instruments PROVE SumQuantities(b.lots[i]) = SumQuantities(d.lots[i])
  <2>1. b.lots[i] \in Seq(OpenLots) /\ d.lots[i] \in Seq(OpenLots)
    BY BookFields
  <2>2. SideOf(b.lots[i], 1) = SideOf(d.lots[i], 1) /\ SideOf(b.lots[i], -1) = SideOf(d.lots[i], -1)
    BY DEF Levels
  <2> QED BY <2>1, <2>2, SidesMakeTheSum
<1> QED BY <1>1 DEF Exposed

\* What a close may take is the other side of what is there.
LEMMA ClosableIs ==
  ASSUME NEW b \in Books, NEW i \in Instruments, NEW side \in {"BUY", "SELL"}, NEW t,
         t = IF side = "BUY" THEN 1 ELSE -1
  PROVE  Closable(b, i, side) = Magnitude(SideOf(b.lots[i], -t))
<1>1. PICK ls : ls = b.lots[i]
  OBVIOUS
<1>2. ls \in Seq(OpenLots)
  BY <1>1, BookFields
<1>3. (IF side = "SELL" THEN 1 ELSE -1) = -t
  OBVIOUS
<1>4. Closable(b, i, side)
        = Magnitude(Total([k \in DOMAIN ls |-> IF Sign(ls[k].quantity) = -t THEN ls[k].quantity ELSE 0]))
  BY <1>1, <1>3 DEF Closable
<1>5. [k \in DOMAIN ls |-> IF Sign(ls[k].quantity) = -t THEN ls[k].quantity ELSE 0]
        = [k \in DOMAIN ls |-> SideWeight(-t)[ls[k]]]
  <2>1. \A k \in DOMAIN ls : ls[k] \in OpenLots
    BY <1>2
  <2> QED BY <2>1 DEF SideWeight
<1> QED BY <1>1, <1>4, <1>5 DEF SideOf, Weight

\* A leg that has been executed in full moves its side by its quantity.
LEMMA LegDone ==
  ASSUME NEW b \in Books, b.ok, NEW leg \in LegRecords, NEW now \in Nat, NEW o \in Owners,
         NEW after, after = ApplyLeg(b, leg, now, o), after.ok, leg.effect = "CLOSE",
         NEW i \in Instruments, i = leg.instrument, NEW t \in {1, -1}
  PROVE  SideOf(after.lots[i], -t) = SideOf(b.lots[i], -t)
           + (IF Sign(Executed(leg)) = t THEN t * leg.quantity ELSE 0)
<1>1. PICK due, u, ls, ls1 : /\ due = Executed(leg) /\ u = Sign(due)
                             /\ ls = b.lots[i] /\ ls1 = after.lots[i]
  OBVIOUS
<1>2. due \in Int \ {0} /\ Magnitude(due) = leg.quantity /\ leg.quantity \in Nat \ {0}
  BY <1>1, ExecutedTypes
<1>3. (u = 1 \/ u = -1) /\ due = u * leg.quantity
  BY <1>1, <1>2 DEF Sign, Magnitude
<1>4. ls \in Seq(OpenLots)
  BY <1>1, BookFields
<1>5. LegSides(ls, ls1, leg, due, after.ok, u)
  <2>1. /\ b \in Books /\ b.ok /\ leg \in LegRecords /\ now \in Nat /\ o \in Owners
        /\ after = ApplyLeg(b, leg, now, o) /\ u = Sign(Executed(leg)) /\ u \in {1, -1}
    BY <1>1, <1>3
  <2>2. LegSides(b.lots[leg.instrument], after.lots[leg.instrument], leg, Executed(leg), after.ok, u)
    BY ONLY <2>1, LegMoves
  <2> QED BY <1>1, <2>2
<1>6. PICK left \in Int : /\ after.ok = (left = 0)
                          /\ SideOf(ls1, -u) = SideOf(ls, -u) + (due - left)
                          /\ SideOf(ls1, u) = SideOf(ls, u)
  BY <1>5 DEF LegSides
<1>7. left = 0
  BY <1>6
<1>8. SideOf(ls, t) \in Int /\ SideOf(ls, -t) \in Int
  BY <1>4, SideAdds
<1>9. CASE u = t
  <2>1. SideOf(ls1, -t) = SideOf(ls, -t) + due
    BY <1>2, <1>6, <1>7, <1>8, <1>9
  <2> QED BY <1>1, <1>3, <1>9, <2>1
<1>10. CASE u # t
  <2>1. u = -t
    BY <1>3, <1>10
  <2>2. SideOf(ls1, -t) = SideOf(ls, -t)
    BY <1>6, <2>1
  <2> QED BY <1>1, <1>8, <1>10, <2>2
<1> QED BY <1>9, <1>10

\* A trade opens or closes an instrument, not both.
EachOneWay(trade) ==
  \A j, k \in DOMAIN trade.legs :
    trade.legs[j].instrument = trade.legs[k].instrument =>
      trade.legs[j].effect = trade.legs[k].effect

LEMMA SupportedWhenDone ==
  ASSUME NEW b \in Books, NEW trade \in TradeRecords, NEW o \in Owners,
         ApplyTrade(b, trade, o).ok, EachOneWay(trade)
  PROVE  Supported(b, trade)
<1>1. PICK m, legs, now : m = Len(trade.legs) /\ legs = trade.legs /\ now = trade.time
  OBVIOUS
<1>2. m \in Nat /\ now \in Nat /\ DOMAIN legs = 1..m /\ \A k \in 1..m : legs[k] \in LegRecords
  <2>1. legs \in Seq(LegRecords) /\ now \in Nat
    BY <1>1 DEF TradeRecords
  <2> QED BY <1>1, <2>1
<1>3. PICK f \in [0..m -> Books] :
        /\ f[0] = b
        /\ \A k \in 1..m : f[k] = ApplyLeg(f[k - 1], legs[k], now, o)
        /\ ApplyTrade(b, trade, o) = f[m]
  BY <1>1, ApplyTradeLoop
<1> SUFFICES ASSUME NEW n \in 1..m, legs[n].effect = "CLOSE"
             PROVE  Demanded(trade, legs[n].instrument, legs[n].side)
                      <= Closable(b, legs[n].instrument, legs[n].side)
  BY <1>1, <1>2 DEF Supported, ToSet
<1>4. PICK i, side, t : /\ i = legs[n].instrument /\ side = legs[n].side
                        /\ t = IF side = "BUY" THEN 1 ELSE -1
  OBVIOUS
<1>5. i \in Instruments /\ side \in {"BUY", "SELL"} /\ t \in {1, -1} /\ -t \in {1, -1}
  <2>1. i \in Instruments /\ side \in {"BUY", "SELL"}
    BY <1>2, <1>4, ExecutedTypes
  <2>2. t = 1 \/ t = -1
    BY <1>4
  <2> QED BY <2>1, <2>2
<1>6. PICK asked : asked = [k \in 1..m |-> IF /\ legs[k].effect = "CLOSE"
                                              /\ legs[k].instrument = i /\ legs[k].side = side
                                           THEN legs[k].quantity ELSE 0]
  OBVIOUS
<1>7. asked \in Seq(Int) /\ Len(asked) = m /\ \A k \in 1..m : asked[k] \in Int
  <2>1. \A k \in 1..m : legs[k].quantity \in Int
    BY <1>2, ExecutedTypes
  <2>2. asked \in [1..m -> Int]
    BY <1>6, <2>1
  <2> QED BY <1>2, <2>2
<1>8. Demanded(trade, i, side) = Total(asked)
  BY <1>1, <1>2, <1>6 DEF Demanded
<1>9. PICK rho : IsRunning(rho, asked)
  BY <1>7, RunningExists
<1>10. /\ rho[0] = 0 /\ \A k \in 0..m : rho[k] \in Int
       /\ \A k \in 1..m : rho[k] = rho[k - 1] + asked[k]
       /\ Total(asked) = rho[m]
  BY <1>7, <1>9, RunningFacts, TotalIs
<1>11. PICK B : B = SideOf(b.lots[i], -t)
  OBVIOUS
<1>12. B \in Int
  BY <1>5, <1>11, BookFields, SideAdds
<1> DEFINE Good(k) == f[k].ok => SideOf(f[k].lots[i], -t) = B + t * rho[k]
           S == { k \in 0..m : Good(k) }
<1>13. 0 \in S
  <2>1. SideOf(f[0].lots[i], -t) = B /\ rho[0] = 0
    BY <1>3, <1>10, <1>11
  <2>2. B = B + t * 0
    BY <1>5, <1>12
  <2> QED BY <1>2, <2>1, <2>2
<1>14. ASSUME NEW k \in 1..m, k - 1 \in S PROVE k \in S
  <2>1. k - 1 \in 0..m /\ k \in 0..m
    BY <1>2
  <2>2. PICK p, q, leg : p = f[k - 1] /\ q = f[k] /\ leg = legs[k]
    OBVIOUS
  <2>3. p \in Books /\ q \in Books /\ leg \in LegRecords /\ q = ApplyLeg(p, leg, now, o)
    BY <1>2, <1>3, <2>1, <2>2
  <2>4. rho[k] = rho[k - 1] + asked[k] /\ rho[k - 1] \in Int /\ asked[k] \in Int
    BY <1>7, <1>10, <2>1
  <2> SUFFICES ASSUME q.ok PROVE SideOf(q.lots[i], -t) = B + t * rho[k]
    BY <2>1, <2>2
  <2>5. p.ok
    <3>1. CASE ~p.ok
      <4>1. q = p
        BY <2>3, <3>1 DEF ApplyLeg
      <4> QED BY <3>1, <4>1
    <3> QED BY <3>1
  <2>6. SideOf(p.lots[i], -t) = B + t * rho[k - 1]
    BY <1>14, <2>2, <2>5
  <2>7. CASE leg.instrument # i
    <3>1. PICK u : u = Sign(Executed(leg))
      OBVIOUS
    <3>2. u \in {1, -1}
      <4>1. u = 1 \/ u = -1
        BY <3>1 DEF Sign
      <4> QED BY <4>1
    <3>3. \A j \in Instruments : j # leg.instrument => q.lots[j] = p.lots[j]
      BY <1>2, <2>3, <2>5, <3>1, <3>2, LegMoves
    <3>4. asked[k] = 0
      BY <1>6, <2>2, <2>7
    <3>5. rho[k] = rho[k - 1]
      BY ONLY <2>4, <3>4
    <3> QED BY <1>5, <2>6, <2>7, <3>3, <3>5
  <2>8. CASE leg.instrument = i
    <3>1. leg.effect = "CLOSE"
      BY <1>1, <1>2, <1>4, <2>2, <2>8 DEF EachOneWay
    <3>2. SideOf(q.lots[i], -t) = SideOf(p.lots[i], -t)
            + (IF Sign(Executed(leg)) = t THEN t * leg.quantity ELSE 0)
      BY <1>2, <1>5, <2>3, <2>5, <2>8, <3>1, LegDone
    <3>3. leg.quantity \in Nat \ {0} /\ leg.side \in {"BUY", "SELL"}
      BY <2>3, ExecutedTypes
    <3>4. Sign(Executed(leg)) = t <=> leg.side = side
      BY <1>4, <1>5, <3>3 DEF Sign, Executed
    <3>5. asked[k] = IF leg.side = side THEN leg.quantity ELSE 0
      BY <1>6, <2>2, <2>8, <3>1
    <3>6. PICK x, y, z, v : x = rho[k - 1] /\ y = asked[k] /\ z = SideOf(q.lots[i], -t) /\ v = rho[k]
      OBVIOUS
    <3>7. v = x + y /\ x \in Int /\ y \in Int
      BY <2>4, <3>6
    <3>8. z = (B + t * x) + t * y
      <4>1. CASE leg.side = side
        BY <2>6, <3>2, <3>4, <3>5, <3>6, <4>1
      <4>2. CASE leg.side # side
        <5>1. z = (B + t * x) + 0 /\ y = 0
          BY <2>6, <3>2, <3>4, <3>5, <3>6, <4>2
        <5> QED BY <1>5, <5>1
      <4> QED BY <4>1, <4>2
    <3>9. z = B + t * v
      BY ONLY <1>5, <1>12, <3>7, <3>8
    <3> QED BY <3>6, <3>9
  <2> QED BY <2>7, <2>8
<1>15. m \in S
  <2>1. m \in 0..m
    BY <1>2
  <2> HIDE DEF S
  <2> QED BY <1>2, <1>13, <1>14, <2>1, Upward
<1>16. PICK E : E = SideOf(f[m].lots[i], -t)
  OBVIOUS
<1>17. E = B + t * rho[m] /\ rho[m] \in Int
  BY <1>2, <1>3, <1>10, <1>15, <1>16
<1>18. IF t = 1 THEN E <= 0 /\ B <= 0 ELSE E >= 0 /\ B >= 0
  <2>1. f[m] \in Books
    BY <1>2, <1>3
  <2>2. f[m].lots[i] \in Seq(OpenLots) /\ b.lots[i] \in Seq(OpenLots)
    BY <1>5, <2>1, BookFields
  <2>3. -t = 1 <=> t # 1
    BY <1>5
  <2>4. /\ IF -t = 1 THEN SideOf(f[m].lots[i], -t) >= 0 ELSE SideOf(f[m].lots[i], -t) <= 0
        /\ IF -t = 1 THEN SideOf(b.lots[i], -t) >= 0 ELSE SideOf(b.lots[i], -t) <= 0
    BY <1>5, <2>2, SideSigned
  <2> QED BY <1>11, <1>16, <2>3, <2>4
<1>19. PICK x : x = rho[m]
  OBVIOUS
<1>20. x <= Magnitude(B)
  <2>1. E = B + t * x /\ x \in Int
    BY <1>17, <1>19
  <2> QED BY ONLY <1>5, <1>12, <1>18, <2>1 DEF Magnitude
<1>21. Closable(b, i, side) = Magnitude(B)
  BY <1>4, <1>5, <1>11, ClosableIs
<1> QED BY <1>4, <1>8, <1>10, <1>19, <1>20, <1>21

TransitionRecs == [kind : {"ROLL", "EXIT", "ASSIGNMENT"}, symbol : Instruments, time : Nat]

LEMMA SymbolTypes ==
  ASSUME NEW i \in Instruments
  PROVE  SymbolOf(i) \in Instruments
BY InstrumentAssumption DEF SymbolOf, Instruments

LEMMA EachTypes ==
  ASSUME NEW kind \in {"ROLL", "EXIT", "ASSIGNMENT"}, NEW symbols \in SUBSET Instruments,
         IsFiniteSet(symbols), NEW item, item.time \in Nat
  PROVE  /\ Each(kind, symbols, item) \in Seq(TransitionRecs)
         /\ \A s \in symbols : \E k \in DOMAIN Each(kind, symbols, item) :
              /\ Each(kind, symbols, item)[k].kind = kind
              /\ Each(kind, symbols, item)[k].symbol = s
<1>1. PICK order, each : order = SetToSeq(symbols) /\ each = Each(kind, symbols, item)
  OBVIOUS
<1>2. order \in Seq(symbols) /\ ToSet(order) = symbols
  BY <1>1, InOrder
<1>3. each = [k \in DOMAIN order |-> Transition(kind, order[k], item)]
  BY <1>1 DEF Each
<1>4. ASSUME NEW k \in DOMAIN order
      PROVE  /\ each[k] \in TransitionRecs
             /\ each[k].kind = kind /\ each[k].symbol = order[k]
  <2>1. each[k] = Transition(kind, order[k], item)
    BY <1>3
  <2>2. order[k] \in Instruments
    BY <1>2
  <2> QED BY <2>1, <2>2 DEF Transition, TransitionRecs
<1>5. DOMAIN order = 1..Len(order) /\ Len(order) \in Nat
  BY <1>2
<1>6. DOMAIN each = DOMAIN order
  BY <1>3
<1>7. each \in Seq(TransitionRecs)
  <2>1. each \in [1..Len(order) -> TransitionRecs]
    BY <1>3, <1>4, <1>5
  <2> QED BY <1>5, <2>1
<1>8. ASSUME NEW s \in symbols
      PROVE  \E k \in DOMAIN each : each[k].kind = kind /\ each[k].symbol = s
  <2>1. PICK k \in DOMAIN order : order[k] = s
    BY <1>2 DEF ToSet
  <2> QED BY <1>4, <1>6, <2>1
<1> QED BY <1>1, <1>7, <1>8

LEMMA TradeSymbolsFinite ==
  ASSUME NEW trade \in TradeRecords
  PROVE  IsFiniteSet(TradeSymbols(trade)) /\ TradeSymbols(trade) \subseteq Instruments
<1>1. PICK m, legs, T : m = Len(trade.legs) /\ legs = trade.legs /\ T = TradeSymbols(trade)
  OBVIOUS
<1>2. m \in Nat /\ DOMAIN legs = 1..m /\ \A k \in 1..m : legs[k] \in LegRecords
  <2>1. legs \in Seq(LegRecords)
    BY <1>1 DEF TradeRecords
  <2> QED BY <1>1, <2>1
<1>3. T = { SymbolOf(legs[k].instrument) : k \in 1..m }
  BY <1>1, <1>2 DEF TradeSymbols, ToSet
<1>4. IsFiniteSet(T)
  <2>1. PICK f : f = [k \in 1..m |-> SymbolOf(legs[k].instrument)]
    OBVIOUS
  <2>2. f \in [1..m -> T] /\ \A x \in T : \E k \in 1..m : f[k] = x
    BY <1>3, <2>1
  <2> QED BY <1>2, <2>2, NumberedFinite
<1>5. \A k \in 1..m : SymbolOf(legs[k].instrument) \in Instruments
  <2> TAKE k \in 1..m
  <2>1. legs[k].instrument \in Instruments
    BY <1>2, ExecutedTypes
  <2> QED BY <2>1, SymbolTypes
<1> QED BY <1>1, <1>3, <1>4, <1>5

LEMMA ChangeSymbolsFinite ==
  ASSUME NEW event \in EventRecords, NEW T,
         T = { SymbolOf(c.instrument) : c \in ToSet(event.changes) }
  PROVE  IsFiniteSet(T) /\ T \subseteq Instruments
<1>1. PICK m, ch : m = Len(event.changes) /\ ch = event.changes
  OBVIOUS
<1>2. m \in Nat /\ DOMAIN ch = 1..m /\ \A k \in 1..m : ch[k] \in ChangeRecords
  <2>1. ch \in Seq(ChangeRecords)
    BY <1>1 DEF EventRecords
  <2> QED BY <1>1, <2>1
<1>3. T = { SymbolOf(ch[k].instrument) : k \in 1..m }
  BY <1>1, <1>2 DEF ToSet
<1>4. IsFiniteSet(T)
  <2>1. PICK f : f = [k \in 1..m |-> SymbolOf(ch[k].instrument)]
    OBVIOUS
  <2>2. f \in [1..m -> T] /\ \A x \in T : \E k \in 1..m : f[k] = x
    BY <1>3, <2>1
  <2> QED BY <1>2, <2>2, NumberedFinite
<1>5. \A k \in 1..m : SymbolOf(ch[k].instrument) \in Instruments
  <2> TAKE k \in 1..m
  <2>1. ch[k].instrument \in Instruments
    BY <1>2 DEF ChangeRecords
  <2> QED BY <2>1, SymbolTypes
<1> QED BY <1>3, <1>4, <1>5

LEMMA RollsTypes ==
  ASSUME NEW trade \in TradeRecords, NEW rolls, rolls = SetToSeq(Rolls(trade)), NEW ts,
         ts = [k \in DOMAIN rolls |->
                 Transition("ROLL", SymbolOf(trade.legs[rolls[k][1]].instrument), trade)]
  PROVE  ts \in Seq(TransitionRecs)
<1>1. PICK m, legs, pairs : /\ m = Len(trade.legs) /\ legs = trade.legs
                            /\ pairs = (1..m) \X (1..m)
  OBVIOUS
<1>2. m \in Nat /\ DOMAIN legs = 1..m /\ (\A k \in 1..m : legs[k] \in LegRecords) /\ trade.time \in Nat
  <2>1. legs \in Seq(LegRecords) /\ trade.time \in Nat
    BY <1>1 DEF TradeRecords
  <2> QED BY <1>1, <2>1
<1>3. Rolls(trade) \subseteq pairs
  BY <1>1, <1>2 DEF Rolls, RollPairs
<1>4. IsFiniteSet(Rolls(trade))
  <2>1. IsFiniteSet(1..m)
    BY <1>2, FS_Interval
  <2>2. IsFiniteSet(pairs)
    BY <1>1, <2>1, FS_Product
  <2> QED BY <1>3, <2>2, FS_Subset
<1>5. rolls \in Seq(pairs)
  <2>1. rolls \in Seq(Rolls(trade))
    BY <1>4, InOrder
  <2> QED BY <1>3, <2>1
<1>6. Len(rolls) \in Nat /\ DOMAIN rolls = 1..Len(rolls)
  BY <1>5
<1>7. ASSUME NEW k \in 1..Len(rolls) PROVE ts[k] \in TransitionRecs
  <2>1. rolls[k] \in pairs
    BY <1>5
  <2>2. rolls[k][1] \in 1..m
    BY <1>1, <2>1
  <2>3. PICK i : i = legs[rolls[k][1]].instrument
    OBVIOUS
  <2>4. i \in Instruments
    BY <1>2, <2>2, <2>3, ExecutedTypes
  <2>5. SymbolOf(i) \in Instruments
    BY <2>4, SymbolTypes
  <2>6. ts[k] = Transition("ROLL", SymbolOf(i), trade)
    BY <1>1, <1>6, <2>3
  <2>7. PICK x, now : x = SymbolOf(i) /\ now = trade.time
    OBVIOUS
  <2>8. x \in Instruments /\ now \in Nat
    BY <1>2, <2>5, <2>7
  <2>9. ts[k] = [kind |-> "ROLL", symbol |-> x, time |-> now]
    BY ONLY <2>6, <2>7 DEF Transition
  <2> QED BY ONLY <2>8, <2>9 DEF TransitionRecs
<1>8. ts \in [1..Len(rolls) -> TransitionRecs]
  BY <1>6, <1>7
<1> QED BY <1>6, <1>8

LEMMA TransitionsTypes ==
  ASSUME NEW b \in Books, NEW item, IsItem(item)
  PROVE  TransitionsOf(b, item) \in Seq(TransitionRecs)
<1>1. CASE IsTrade(item)
  <2>1. item \in TradeRecords /\ item.time \in Nat
    BY <1>1 DEF IsItem, TradeRecords
  <2>2. PICK rolls, xs, ys :
          /\ rolls = SetToSeq(Rolls(item))
          /\ xs = [k \in DOMAIN rolls |->
                     Transition("ROLL", SymbolOf(item.legs[rolls[k][1]].instrument), item)]
          /\ ys = Each("EXIT", Exits(b, item), item)
    OBVIOUS
  <2>3. TransitionsOf(b, item) = xs \o ys
    BY <1>1, <2>2 DEF TransitionsOf
  <2>4. xs \in Seq(TransitionRecs)
    BY <2>1, <2>2, RollsTypes
  <2>5. IsFiniteSet(Exits(b, item)) /\ Exits(b, item) \in SUBSET Instruments
    <3>1. Exits(b, item) \subseteq TradeSymbols(item)
      BY DEF Exits
    <3> QED BY <2>1, <3>1, TradeSymbolsFinite, FS_Subset
  <2>6. ys \in Seq(TransitionRecs)
    BY <2>1, <2>2, <2>5, EachTypes
  <2> QED BY <2>3, <2>4, <2>6
<1>2. CASE ~IsTrade(item)
  <2>1. item \in EventRecords /\ item.time \in Nat
    BY <1>2 DEF IsItem, EventRecords
  <2>2. CASE item.kind = "ASSIGNMENT"
    <3>1. PICK T : T = { SymbolOf(c.instrument) : c \in ToSet(item.changes) }
      OBVIOUS
    <3>2. IsFiniteSet(T) /\ T \in SUBSET Instruments
      BY <2>1, <3>1, ChangeSymbolsFinite
    <3>3. TransitionsOf(b, item) = Each("ASSIGNMENT", T, item)
      BY <1>2, <2>2, <3>1 DEF TransitionsOf
    <3> QED BY <2>1, <3>2, <3>3, EachTypes
  <2>3. CASE item.kind # "ASSIGNMENT"
    BY <1>2, <2>3 DEF TransitionsOf
  <2> QED BY <2>2, <2>3
<1> QED BY <1>1, <1>2

\* A trade leaves the instruments it does not name.
LEMMA TradeElsewhere ==
  ASSUME NEW b \in Books, NEW trade \in TradeRecords, NEW o \in Owners, NEW i \in Instruments,
         \A k \in 1..Len(trade.legs) : trade.legs[k].instrument # i
  PROVE  ApplyTrade(b, trade, o).lots[i] = b.lots[i]
<1>1. PICK m, legs, now : m = Len(trade.legs) /\ legs = trade.legs /\ now = trade.time
  OBVIOUS
<1>2. m \in Nat /\ now \in Nat /\ \A k \in 1..m : legs[k] \in LegRecords
  <2>1. legs \in Seq(LegRecords) /\ now \in Nat
    BY <1>1 DEF TradeRecords
  <2> QED BY <1>1, <2>1
<1>3. PICK f \in [0..m -> Books] :
        /\ f[0] = b
        /\ \A k \in 1..m : f[k] = ApplyLeg(f[k - 1], legs[k], now, o)
        /\ ApplyTrade(b, trade, o) = f[m]
  BY <1>1, ApplyTradeLoop
<1> DEFINE S == { k \in 0..m : f[k].lots[i] = b.lots[i] }
<1>4. 0 \in S
  BY <1>2, <1>3
<1>5. ASSUME NEW k \in 1..m, k - 1 \in S PROVE k \in S
  <2>1. k - 1 \in 0..m /\ k \in 0..m
    BY <1>2
  <2>2. PICK p, q, leg : p = f[k - 1] /\ q = f[k] /\ leg = legs[k]
    OBVIOUS
  <2>3. p \in Books /\ leg \in LegRecords /\ q = ApplyLeg(p, leg, now, o) /\ leg.instrument # i
    BY <1>1, <1>2, <1>3, <2>1, <2>2
  <2>4. q.lots[i] = p.lots[i]
    <3>1. CASE ~p.ok
      BY <2>3, <3>1 DEF ApplyLeg
    <3>2. CASE p.ok
      <4>1. PICK u : u = Sign(Executed(leg))
        OBVIOUS
      <4>2. u = 1 \/ u = -1
        BY <4>1 DEF Sign
      <4>3. u \in {1, -1}
        BY <4>2
      <4>4. \A j \in Instruments : j # leg.instrument => q.lots[j] = p.lots[j]
        BY <1>2, <2>3, <3>2, <4>1, <4>3, LegMoves
      <4> QED BY <2>3, <4>4
    <3> QED BY <3>1, <3>2
  <2> QED BY <1>5, <2>1, <2>2, <2>4
<1>6. m \in S
  <2>1. m \in 0..m
    BY <1>2
  <2> HIDE DEF S
  <2> QED BY <1>2, <1>4, <1>5, <2>1, Upward
<1> QED BY <1>3, <1>6

\* A trade that leaves nothing of a symbol is an exit.
LEMMA ExitFound ==
  ASSUME NEW b \in Books, NEW trade \in TradeRecords, NEW o \in Owners, NEW d,
         d = ApplyTrade(b, trade, o), d.ok, EachOneWay(trade),
         NEW symbol, Exposed(b, symbol) # {}, Exposed(d, symbol) = {}
  PROVE  symbol \in Exits(b, trade)
<1>1. NoCampaign \in Owners
  BY DEF Owners
<1>2. PICK a : a = ApplyTrade(b, trade, NoCampaign)
  OBVIOUS
<1>3. a \in Books /\ d \in Books
  BY <1>1, <1>2, TradeTypes
<1>4. Levels(d, a)
  BY <1>1, <1>2, TradeLevels
<1>5. Exposed(a, symbol) = {}
  BY <1>3, <1>4, LevelsExpose
<1>6. Supported(b, trade)
  BY SupportedWhenDone
<1>7. symbol \in TradeSymbols(trade)
  <2>1. SUFFICES ASSUME symbol \notin TradeSymbols(trade) PROVE FALSE
    OBVIOUS
  <2>2. PICK i \in Instruments : SymbolOf(i) = symbol /\ SumQuantities(b.lots[i]) # 0
    BY DEF Exposed
  <2>3. trade.legs \in Seq(LegRecords)
    BY DEF TradeRecords
  <2>4. \A k \in 1..Len(trade.legs) : trade.legs[k].instrument # i
    BY <2>1, <2>2, <2>3 DEF TradeSymbols, ToSet
  <2>5. d.lots[i] = b.lots[i]
    BY <2>4, TradeElsewhere
  <2> QED BY <2>2, <2>5 DEF Exposed
<1> QED BY <1>2, <1>5, <1>6, <1>7 DEF Exits

\* An event that leaves nothing of a symbol has changed it.
LEMMA EventTouches ==
  ASSUME NEW b \in Books, NEW event \in EventRecords, NEW d, d = ApplyEvent(b, event),
         NEW symbol, Exposed(b, symbol) # {}, Exposed(d, symbol) = {}
  PROVE  \E c \in ToSet(event.changes) : SymbolOf(c.instrument) = symbol
<1>1. SUFFICES ASSUME \A c \in ToSet(event.changes) : SymbolOf(c.instrument) # symbol PROVE FALSE
  OBVIOUS
<1>2. PICK i \in Instruments : SymbolOf(i) = symbol /\ SumQuantities(b.lots[i]) # 0
  BY DEF Exposed
<1>3. event.changes \in Seq(ChangeRecords)
  BY DEF EventRecords
<1>4. \A k \in 1..Len(event.changes) : event.changes[k].instrument # i
  BY <1>1, <1>2, <1>3 DEF ToSet
<1>5. d.lots[i] = b.lots[i]
  BY <1>4, EventCounts
<1> QED BY <1>2, <1>5 DEF Exposed

-----------------------------------------------------------------------------
(* A symbol of the opening book has a reason on record for having left.    *)
HasReason(ts, s) ==
  \/ \E k \in DOMAIN ts : ts[k].symbol = s /\ ts[k].kind \in {"EXIT", "ASSIGNMENT"}
  \/ \E e \in ToSet(input.events) :
       e.kind = "EXPIRATION" /\ \E c \in ToSet(e.changes) : SymbolOf(c.instrument) = s

Reasoned(b, ts) ==
  \A s \in Equities : Exposed(Fresh, s) # {} /\ Exposed(b, s) = {} => HasReason(ts, s)

LEMMA ReasonsKept ==
  ASSUME NEW ts \in Seq(TransitionRecs), NEW us \in Seq(TransitionRecs), NEW s,
         HasReason(ts, s) \/ \E k \in DOMAIN us : us[k].symbol = s /\ us[k].kind \in {"EXIT", "ASSIGNMENT"}
  PROVE  HasReason(ts \o us, s)
<1>1. PICK m, n, all : m = Len(ts) /\ n = Len(us) /\ all = ts \o us
  OBVIOUS
<1>2. /\ m \in Nat /\ n \in Nat /\ DOMAIN ts = 1..m /\ DOMAIN us = 1..n /\ DOMAIN all = 1..(m + n)
      /\ \A k \in 1..m : all[k] = ts[k]
      /\ \A k \in 1..n : all[m + k] = us[k]
  BY <1>1
<1>3. CASE \E k \in DOMAIN us : us[k].symbol = s /\ us[k].kind \in {"EXIT", "ASSIGNMENT"}
  <2>1. PICK k \in 1..n : us[k].symbol = s /\ us[k].kind \in {"EXIT", "ASSIGNMENT"}
    BY <1>2, <1>3
  <2>2. m + k \in DOMAIN all /\ all[m + k] = us[k]
    BY <1>2
  <2> QED BY <1>1, <2>1, <2>2 DEF HasReason
<1>4. CASE HasReason(ts, s)
  <2>1. CASE \E k \in DOMAIN ts : ts[k].symbol = s /\ ts[k].kind \in {"EXIT", "ASSIGNMENT"}
    <3>1. PICK k \in 1..m : ts[k].symbol = s /\ ts[k].kind \in {"EXIT", "ASSIGNMENT"}
      BY <1>2, <2>1
    <3>2. k \in DOMAIN all /\ all[k] = ts[k]
      BY <1>2
    <3> QED BY <1>1, <3>1, <3>2 DEF HasReason
  <2>2. CASE ~(\E k \in DOMAIN ts : ts[k].symbol = s /\ ts[k].kind \in {"EXIT", "ASSIGNMENT"})
    BY <1>4, <2>2 DEF HasReason
  <2> QED BY <2>1, <2>2
<1> QED BY <1>3, <1>4

LEMMA ItemReasoned ==
  ASSUME input \in Inputs, OneWay, NEW b \in Books, NEW n \in 1..Len(PositionItems),
         NEW item, item = PositionItems[n], NEW after, after = AppliedItem(b, item), after.ok,
         NEW ts \in Seq(TransitionRecs), Reasoned(b, ts)
  PROVE  Reasoned(after, ts \o TransitionsOf(b, item))
<1>1. PICK us : us = TransitionsOf(b, item)
  OBVIOUS
<1>2. IF IsTrade(item)
      THEN item \in ToSet(input.trades) /\ item \in TradeRecords /\ CampaignOf(item) \in Campaigns
      ELSE item \in ToSet(input.events) /\ item \in EventRecords
  BY PositionItemSources
<1>3. us \in Seq(TransitionRecs)
  <2>1. IsItem(item)
    BY <1>2 DEF IsItem, Owners
  <2> QED BY <1>1, <2>1, TransitionsTypes
<1> SUFFICES ASSUME NEW s \in Equities, Exposed(Fresh, s) # {}, Exposed(after, s) = {}
             PROVE  HasReason(ts \o us, s)
  BY <1>1 DEF Reasoned
<1>4. s \in Instruments
  BY DEF Instruments
<1>5. CASE Exposed(b, s) = {}
  <2>1. HasReason(ts, s)
    BY <1>5 DEF Reasoned
  <2> QED BY <1>3, <2>1, ReasonsKept
<1>6. CASE Exposed(b, s) # {} /\ IsTrade(item)
  <2>1. item \in ToSet(input.trades) /\ item \in TradeRecords /\ CampaignOf(item) \in Owners
    BY <1>2, <1>6 DEF Owners
  <2>2. after = ApplyTrade(b, item, CampaignOf(item))
    BY <1>6 DEF AppliedItem
  <2>3. EachOneWay(item)
    BY <2>1 DEF OneWay, EachOneWay
  <2>4. s \in Exits(b, item)
    BY <1>6, <2>1, <2>2, <2>3, ExitFound
  <2>5. PICK rolls, xs, ys :
          /\ rolls = SetToSeq(Rolls(item))
          /\ xs = [k \in DOMAIN rolls |->
                     Transition("ROLL", SymbolOf(item.legs[rolls[k][1]].instrument), item)]
          /\ ys = Each("EXIT", Exits(b, item), item)
    OBVIOUS
  <2>6. us = xs \o ys
    BY <1>1, <1>6, <2>5 DEF TransitionsOf
  <2>7. xs \in Seq(TransitionRecs)
    BY <2>1, <2>5, RollsTypes
  <2>8. IsFiniteSet(Exits(b, item)) /\ Exits(b, item) \in SUBSET Instruments /\ item.time \in Nat
    <3>1. Exits(b, item) \subseteq TradeSymbols(item)
      BY DEF Exits
    <3> QED BY <2>1, <3>1, TradeSymbolsFinite, FS_Subset DEF TradeRecords
  <2>9. ys \in Seq(TransitionRecs) /\ \E k \in DOMAIN ys : ys[k].kind = "EXIT" /\ ys[k].symbol = s
    BY <2>4, <2>5, <2>8, EachTypes
  <2>10. PICK k \in DOMAIN ys : ys[k].kind = "EXIT" /\ ys[k].symbol = s
    BY <2>9
  <2>11. Len(xs) + k \in DOMAIN us /\ us[Len(xs) + k] = ys[k]
    BY <2>6, <2>7, <2>9, <2>10
  <2>12. \E j \in DOMAIN us : us[j].symbol = s /\ us[j].kind \in {"EXIT", "ASSIGNMENT"}
    BY <2>10, <2>11
  <2> QED BY <1>3, <2>12, ReasonsKept
<1>7. CASE Exposed(b, s) # {} /\ ~IsTrade(item)
  <2>1. item \in ToSet(input.events) /\ item \in EventRecords
    BY <1>2, <1>7
  <2>2. after = ApplyEvent(b, item)
    BY <1>7 DEF AppliedItem
  <2>3. \E c \in ToSet(item.changes) : SymbolOf(c.instrument) = s
    BY <1>7, <2>1, <2>2, EventTouches
  <2>4. CASE item.kind = "ASSIGNMENT"
    <3>1. PICK T : T = { SymbolOf(c.instrument) : c \in ToSet(item.changes) }
      OBVIOUS
    <3>2. IsFiniteSet(T) /\ T \in SUBSET Instruments /\ s \in T /\ item.time \in Nat
      BY <2>1, <2>3, <3>1, ChangeSymbolsFinite DEF EventRecords
    <3>3. us = Each("ASSIGNMENT", T, item)
      BY <1>1, <1>7, <2>4, <3>1 DEF TransitionsOf
    <3>4. \E k \in DOMAIN us : us[k].kind = "ASSIGNMENT" /\ us[k].symbol = s
      <4>1. "ASSIGNMENT" \in {"ROLL", "EXIT", "ASSIGNMENT"}
        OBVIOUS
      <4>2. \A x \in T : \E k \in DOMAIN Each("ASSIGNMENT", T, item) :
              /\ Each("ASSIGNMENT", T, item)[k].kind = "ASSIGNMENT"
              /\ Each("ASSIGNMENT", T, item)[k].symbol = x
        BY ONLY <3>2, <4>1, EachTypes
      <4> QED BY <3>2, <3>3, <4>2
    <3>5. \E k \in DOMAIN us : us[k].symbol = s /\ us[k].kind \in {"EXIT", "ASSIGNMENT"}
      BY <3>4
    <3> QED BY <1>3, <3>5, ReasonsKept
  <2>5. CASE item.kind # "ASSIGNMENT"
    <3>1. item.kind = "EXPIRATION"
      BY <2>1, <2>5 DEF EventRecords
    <3> QED BY <2>1, <2>3, <3>1 DEF HasReason
  <2> QED BY <2>4, <2>5
<1> QED BY <1>5, <1>6, <1>7

\* The lifecycle as far as it has come.
Accounting ==
  /\ transitions \in Seq(TransitionRecs)
  /\ OneWay /\ stage = "apply" => Reasoned(book, transitions)
  /\ OneWay /\ stage = "attribute" => Reasoned(ending, transitions)

LEMMA InitAccounting == Init => Accounting
<1> SUFFICES ASSUME Init PROVE Accounting
  OBVIOUS
<1>1. stage = "apply" /\ book = Fresh /\ transitions = << >>
  BY DEF Init
<1>2. Reasoned(book, transitions)
  BY <1>1 DEF Reasoned
<1> QED BY <1>1, <1>2 DEF Accounting

LEMMA NextAccounting == Typed /\ Accounting /\ [Next]_vars => Accounting'
<1> SUFFICES ASSUME Typed, Accounting, [Next]_vars PROVE Accounting'
  OBVIOUS
<1>1. input \in Inputs /\ at \in Nat \ {0} /\ book \in Books /\ Len(PositionItems) \in Nat
  BY PositionItemTypes DEF Typed
<1>2. input' = input
  BY DEF Next, ApplyItem, StartAttribution, AttributeItem, StartMatching, MatchRecord, StartJournal,
         JournalItem, CheckJournal, Finished, vars
<1>3. Fresh' = Fresh /\ (OneWay' <=> OneWay)
  BY <1>2 DEF Fresh, OneWay
<1>4. /\ Reasoned(book, transitions)' <=> Reasoned(book', transitions')
      /\ Reasoned(ending, transitions)' <=> Reasoned(ending', transitions')
  BY <1>2, <1>3 DEF Reasoned, HasReason, Exposed
<1>5. PICK oneWay : oneWay \in BOOLEAN /\ (oneWay <=> OneWay)
  <2>1. (OneWay <=> TRUE) \/ (OneWay <=> FALSE)
    OBVIOUS
  <2> QED BY <2>1
<1>6. /\ transitions \in Seq(TransitionRecs)
      /\ oneWay /\ stage = "apply" => Reasoned(book, transitions)
      /\ oneWay /\ stage = "attribute" => Reasoned(ending, transitions)
  BY <1>5 DEF Accounting
<1> SUFFICES /\ transitions' \in Seq(TransitionRecs)
             /\ oneWay /\ stage' = "apply" => Reasoned(book', transitions')
             /\ oneWay /\ stage' = "attribute" => Reasoned(ending', transitions')
  BY <1>3, <1>4, <1>5 DEF Accounting
<1>7. ASSUME ApplyItem
      PROVE  /\ transitions' \in Seq(TransitionRecs) /\ stage' # "attribute"
             /\ oneWay /\ stage' = "apply" => Reasoned(book', transitions')
  <2>1. stage = "apply" /\ at <= Len(PositionItems)
    BY <1>7 DEF ApplyItem
  <2>2. PICK n, item, after : n = at /\ item = PositionItems[at] /\ after = AppliedItem(book, item)
    OBVIOUS
  <2>3. /\ transitions' = transitions \o TransitionsOf(book, item)
        /\ book' = [after EXCEPT !.taken = << >>]
        /\ Continue(after.ok, "apply", "replay")
    BY <1>7, <2>2 DEF ApplyItem, AppliedItem
  <2>4. n \in 1..Len(PositionItems) /\ item = PositionItems[n]
    BY <1>1, <2>1, <2>2
  <2>5. IsItem(item)
    BY <1>1, <2>4, PositionItemTypes
  <2>6. transitions' \in Seq(TransitionRecs)
    <3>1. TransitionsOf(book, item) \in Seq(TransitionRecs)
      BY <1>1, <2>5, TransitionsTypes
    <3> QED BY <1>6, <2>3, <3>1
  <2>7. stage' # "attribute" /\ (stage' = "apply" => after.ok)
    BY <2>3 DEF Continue, Refuse
  <2>8. ASSUME oneWay, stage' = "apply" PROVE Reasoned(book', transitions')
    <3>1. after.ok /\ OneWay /\ Reasoned(book, transitions)
      BY <1>5, <1>6, <2>1, <2>7, <2>8
    <3>2. Reasoned(after, transitions \o TransitionsOf(book, item))
      BY <1>1, <1>6, <2>2, <2>4, <3>1, ItemReasoned
    <3>3. after \in Books
      BY <1>1, <2>2, <2>5, ReplayedTypes
    <3>4. book'.lots = after.lots
      BY <2>3, <3>3, TakenReset
    <3> QED BY <2>3, <3>2, <3>4 DEF Reasoned, Exposed
  <2> QED BY <2>6, <2>7, <2>8
<1>8. ASSUME StartAttribution
      PROVE  /\ transitions' \in Seq(TransitionRecs) /\ stage' # "apply"
             /\ oneWay /\ stage' = "attribute" => Reasoned(ending', transitions')
  <2>1. stage = "apply" /\ ending' = book /\ transitions' = transitions /\ stage' # "apply"
    BY <1>8 DEF StartAttribution, Continue, Refuse
  <2> QED BY <1>6, <2>1
<1>9. ASSUME AttributeItem
      PROVE  /\ transitions' \in Seq(TransitionRecs) /\ stage' # "apply"
             /\ oneWay /\ stage' = "attribute" => Reasoned(ending', transitions')
  <2>1. stage = "attribute" /\ ending' = ending /\ transitions' = transitions /\ stage' # "apply"
    BY <1>9 DEF AttributeItem, Continue, Refuse
  <2> QED BY <1>6, <2>1
<1>10. ASSUME StartMatching \/ MatchRecord \/ StartJournal \/ JournalItem \/ CheckJournal
       PROVE  transitions' = transitions /\ stage' \notin {"apply", "attribute"}
  BY <1>10 DEF StartMatching, MatchRecord, StartJournal, JournalItem, CheckJournal, Continue, Refuse
<1>11. ASSUME UNCHANGED vars
       PROVE  /\ stage' = stage /\ book' = book /\ ending' = ending
              /\ transitions' = transitions
  BY <1>11 DEF vars
<1> QED BY <1>6, <1>7, <1>8, <1>9, <1>10, <1>11 DEF Next, Finished

\* apply_with_lifecycle: where no trade closes what it opens, a symbol of the
\* opening book that is gone from the ending one has a reason on record, a
\* detected exit, an assignment or an expiration.
THEOREM FlatSymbolsAreExplained == Spec => []FlatSymbolsHaveAReason
<1>1. Spec => []Accounting
  BY InitAccounting, NextAccounting, AlwaysTyped, PTL DEF Spec
<1>2. Accounting => FlatSymbolsHaveAReason
  BY DEF Accounting, FlatSymbolsHaveAReason, Reasoned, HasReason
<1> QED BY <1>1, <1>2, PTL

-----------------------------------------------------------------------------
(***************************************************************************)
(* Two replays of one history.  When a month holds no delivery that the    *)
(* attributor moves elsewhere, its timeline is the import's, item by item; *)
(* the closures it holds in reserve stay the ones it planned; and at every *)
(* item its book follows the import's, lot by lot.                         *)
(***************************************************************************)

\* Trades in groups: each is in one group only, behind those of the group that
\* come before it in the file.
Filed(groups, trades, pos, m) ==
  \A j, k \in 1..Len(groups) : \A x \in 1..Len(groups[j]), y \in 1..Len(groups[k]) :
    /\ pos[groups[j][x]] \in 1..m /\ trades[pos[groups[j][x]]] = groups[j][x]
    /\ pos[groups[j][x]] = pos[groups[k][y]] => j = k
    /\ j = k /\ x < y => pos[groups[j][x]] < pos[groups[k][y]]

LEMMA JoinedFiled ==
  ASSUME NEW groups \in Seq(Seq(TradeRecords)), NEW trade \in TradeRecords, NEW trades, NEW pos,
         NEW m \in Nat \ {0}, Filed(groups, trades, pos, m - 1), pos[trade] = m, trades[m] = trade
  PROVE  Filed(Joined(groups, trade), trades, pos, m)
<1>1. PICK takers, n, more : /\ takers = { k \in DOMAIN groups : Joins(groups[k], trade) }
                             /\ n = Len(groups) /\ more = Joined(groups, trade)
  OBVIOUS
<1>2. n \in Nat /\ DOMAIN groups = 1..n /\ \A k \in 1..n : groups[k] \in Seq(TradeRecords)
  BY <1>1
<1> DEFINE Old(k, x) == k \in 1..n /\ x \in 1..Len(groups[k]) /\ more[k][x] = groups[k][x]
           New(at0, k, x) == k = at0 /\ x = Len(more[k]) /\ more[k][x] = trade
<1>3. PICK place : \A k \in 1..Len(more) : \A x \in 1..Len(more[k]) : Old(k, x) \/ New(place, k, x)
  <2>1. CASE takers = {}
    <3>1. more = Append(groups, << trade >>)
      BY <1>1, <2>1 DEF Joined
    <3>2. << trade >> \in Seq(TradeRecords) /\ Len(<< trade >>) = 1 /\ << trade >>[1] = trade
      OBVIOUS
    <3>3. /\ Len(more) = n + 1 /\ more[n + 1] = << trade >>
          /\ \A k \in 1..n : more[k] = groups[k]
      BY <1>1, <1>2, <3>1, <3>2
    <3>4. ASSUME NEW k \in 1..Len(more), NEW x \in 1..Len(more[k]) PROVE Old(k, x) \/ New(n + 1, k, x)
      <4>1. CASE k \in 1..n
        BY <3>3, <4>1
      <4>2. CASE k = n + 1
        <5>1. more[k] = << trade >>
          BY <3>3, <4>2
        <5>2. x = 1 /\ x = Len(more[k]) /\ more[k][x] = trade
          BY <3>2, <5>1
        <5> QED BY <4>2, <5>2
      <4> QED BY <1>2, <3>3, <4>1, <4>2
    <3> HIDE DEF Old, New
    <3> QED BY <3>4
  <2>2. CASE takers # {}
    <3>1. PICK p, longer : p = Min(takers) /\ longer = Append(groups[p], trade)
      OBVIOUS
    <3>2. p \in 1..n
      <4>1. takers \in SUBSET Nat
        BY <1>1, <1>2
      <4> QED BY <1>1, <1>2, <2>2, <3>1, <4>1, MinIsLeast
    <3>3. more = [groups EXCEPT ![p] = longer]
      BY <1>1, <2>2, <3>1 DEF Joined
    <3>4. /\ Len(more) = n /\ more[p] = longer /\ \A k \in 1..n : k # p => more[k] = groups[k]
      BY <1>1, <1>2, <3>2, <3>3
    <3>5. /\ Len(groups[p]) \in Nat /\ Len(longer) = Len(groups[p]) + 1
          /\ longer[Len(groups[p]) + 1] = trade
          /\ \A x \in 1..Len(groups[p]) : longer[x] = groups[p][x]
      <4>1. PICK g \in Seq(TradeRecords) : g = groups[p]
        BY <1>2, <3>2
      <4>2. Len(g) \in Nat /\ Len(Append(g, trade)) = Len(g) + 1 /\ Append(g, trade)[Len(g) + 1] = trade
            /\ \A x \in 1..Len(g) : Append(g, trade)[x] = g[x]
        OBVIOUS
      <4> QED BY <3>1, <4>1, <4>2
    <3>6. ASSUME NEW k \in 1..Len(more), NEW x \in 1..Len(more[k]) PROVE Old(k, x) \/ New(p, k, x)
      <4>1. CASE k # p
        BY <3>4, <4>1
      <4>2. CASE k = p
        <5>1. x \in 1..Len(groups[p]) \/ x = Len(groups[p]) + 1
          BY <3>4, <3>5, <4>2
        <5> QED BY <3>2, <3>4, <3>5, <4>2, <5>1
      <4> QED BY <4>1, <4>2
    <3> HIDE DEF Old, New
    <3> QED BY <3>6
  <2> QED BY <2>1, <2>2
<1>4. ASSUME NEW j \in 1..Len(more), NEW k \in 1..Len(more),
             NEW x \in 1..Len(more[j]), NEW y \in 1..Len(more[k])
      PROVE  /\ pos[more[j][x]] \in 1..m /\ trades[pos[more[j][x]]] = more[j][x]
             /\ pos[more[j][x]] = pos[more[k][y]] => j = k
             /\ j = k /\ x < y => pos[more[j][x]] < pos[more[k][y]]
  <2>1. (Old(j, x) \/ New(place, j, x)) /\ (Old(k, y) \/ New(place, k, y))
    BY <1>3
  <2>2. CASE Old(j, x) /\ Old(k, y)
    <3>1. /\ pos[groups[j][x]] \in 1..(m - 1) /\ trades[pos[groups[j][x]]] = groups[j][x]
          /\ pos[groups[j][x]] = pos[groups[k][y]] => j = k
          /\ j = k /\ x < y => pos[groups[j][x]] < pos[groups[k][y]]
      BY <1>1, <2>2 DEF Filed
    <3>2. pos[groups[j][x]] \in 1..m
      BY <3>1
    <3> QED BY <2>2, <3>1, <3>2
  <2>3. CASE Old(j, x) /\ New(place, k, y)
    <3>1. pos[groups[j][x]] \in 1..(m - 1) /\ trades[pos[groups[j][x]]] = groups[j][x]
      BY <1>1, <2>3 DEF Filed
    <3>2. pos[more[k][y]] = m
      BY <2>3
    <3>3. pos[groups[j][x]] \in 1..m /\ pos[groups[j][x]] < m
      BY <3>1, SMTT(40)
    <3>4. pos[groups[j][x]] # m
      BY <3>1
    <3> QED BY <2>3, <3>1, <3>2, <3>3, <3>4
  <2>4. CASE New(place, j, x)
    <3>1. pos[more[j][x]] = m /\ trades[pos[more[j][x]]] = more[j][x] /\ m \in 1..m
      BY <2>4
    <3>2. CASE Old(k, y)
      <4>1. pos[groups[k][y]] \in 1..(m - 1)
        BY <1>1, <3>2 DEF Filed
      <4>2. pos[more[k][y]] # m
        BY <3>2, <4>1, SMTT(40)
      <4>3. ~(j = k /\ x < y)
        <5>1. more \in Seq(Seq(TradeRecords))
          BY <1>1, JoinedMembers
        <5>2. Len(more[j]) \in Nat
          BY <5>1
        <5> QED BY <2>4, <5>2
      <4> QED BY <3>1, <4>2, <4>3
    <3>3. CASE New(place, k, y)
      <4>1. j = k /\ x = y
        BY <2>4, <3>3
      <4>2. ~(x < y)
        BY <4>1
      <4> QED BY <3>1, <4>1, <4>2
    <3> QED BY <2>1, <3>1, <3>2, <3>3
  <2> QED BY <2>1, <2>2, <2>3, <2>4
<1> HIDE DEF Old, New
<1> QED BY <1>1, <1>4, SMTT(40) DEF Filed

LEMMA ReconstructFiled ==
  ASSUME NEW trades \in Seq(TradeRecords), NEW pos, \A k \in 1..Len(trades) : pos[trades[k]] = k
  PROVE  Filed(Reconstruct(trades), trades, pos, Len(trades))
<1>1. PICK f \in [0..Len(trades) -> Seq(Seq(TradeRecords))] :
        /\ f[0] = << >>
        /\ \A k \in 1..Len(trades) : f[k] = Joined(f[k - 1], trades[k])
        /\ Reconstruct(trades) = f[Len(trades)]
  BY ReconstructLoop
<1> DEFINE n == Len(trades)
           S == { k \in 0..n : Filed(f[k], trades, pos, k) }
<1>2. n \in Nat /\ \A k \in 1..n : trades[k] \in TradeRecords
  OBVIOUS
<1>3. 0 \in S
  <2>1. Len(f[0]) = 0
    BY <1>1
  <2>2. Filed(f[0], trades, pos, 0)
    BY <2>1 DEF Filed
  <2> QED BY <1>2, <2>2
<1>4. ASSUME NEW k \in 1..n, k - 1 \in S PROVE k \in S
  <2>1. PICK g, t : g = f[k - 1] /\ t = trades[k]
    OBVIOUS
  <2>2. /\ k - 1 \in 0..n /\ k \in 0..n /\ k \in Nat \ {0}
    BY <1>2
  <2>3. g \in Seq(Seq(TradeRecords)) /\ t \in TradeRecords /\ f[k] = Joined(g, t) /\ pos[t] = k
    BY <1>1, <1>2, <2>1, <2>2
  <2>4. Filed(g, trades, pos, k - 1)
    BY <1>4, <2>1
  <2>5. Filed(Joined(g, t), trades, pos, k)
    BY <2>1, <2>2, <2>3, <2>4, JoinedFiled
  <2> QED BY <2>2, <2>3, <2>5
<1>5. n \in S
  <2>1. n \in 0..n
    BY <1>2
  <2> HIDE DEF S, n
  <2> QED BY <1>2, <1>3, <1>4, <2>1, Upward
<1> QED BY <1>1, <1>5

\* Where no trades of two campaigns coincide, trades campaign by campaign and
\* trades in the order of the file make the same timeline.
LEMMA CampaignsInOrder ==
  ASSUME input \in Inputs, NEW es \in Seq(EventRecords),
         \A s, t \in ToSet(input.trades) : s.time = t.time => CampaignOf(s) = CampaignOf(t)
  PROVE  Timeline(FlattenSeq(MonthCampaigns), es) = Timeline(input.trades, es)
<1>1. PICK ts, groups, F, n : /\ ts = input.trades /\ groups = MonthCampaigns
                              /\ F = FlattenSeq(groups) /\ n = Len(ts)
  OBVIOUS
<1>2. /\ ts \in Seq(TradeRecords) /\ groups \in Seq(Seq(TradeRecords)) /\ F \in Seq(TradeRecords)
      /\ ToSet(ts) \subseteq Members(groups) /\ ToSet(F) \subseteq Members(groups)
  BY <1>1, MonthTrades, InputTypes
<1>3. /\ n \in Nat /\ DOMAIN ts = 1..n /\ \A k \in 1..n : ts[k] \in TradeRecords
      /\ Len(F) \in Nat /\ DOMAIN F = 1..Len(F)
      /\ Len(groups) \in Nat /\ DOMAIN groups = 1..Len(groups)
      /\ \A k \in 1..Len(groups) : groups[k] \in Seq(TradeRecords)
  BY <1>1, <1>2
<1>4. \A j, k \in 1..n : ts[j] = ts[k] => j = k
  <2>1. Cardinality(ToSet(ts)) = Len(ts)
    BY <1>1, EvidenceAssumption
  <2> QED BY <1>1, <1>2, <2>1, DistinctPlaces
<1>5. PICK pos : pos = [x \in TradeRecords |-> CHOOSE k \in 1..n : ts[k] = x]
  OBVIOUS
<1>6. \A k \in 1..n : pos[ts[k]] = k
  <2> TAKE k \in 1..n
  <2>1. pos[ts[k]] = CHOOSE j \in 1..n : ts[j] = ts[k]
    BY <1>3, <1>5
  <2>2. pos[ts[k]] \in 1..n /\ ts[pos[ts[k]]] = ts[k]
    BY <2>1, Zenon
  <2> QED BY <1>4, <2>2
<1>7. Filed(groups, ts, pos, n)
  BY <1>1, <1>2, <1>6, ReconstructFiled DEF MonthCampaigns
<1>8. ASSUME NEW u \in 1..Len(F)
      PROVE  \E j \in 1..Len(groups) : \E x \in 1..Len(groups[j]) : F[u] = groups[j][x]
  <2>1. F[u] \in ToSet(F)
    BY <1>3 DEF ToSet
  <2>2. PICK j \in 1..Len(groups) : F[u] \in ToSet(groups[j])
    BY <1>2, <1>3, <2>1 DEF Members
  <2>3. DOMAIN groups[j] = 1..Len(groups[j])
    BY <1>3
  <2> QED BY <2>2, <2>3 DEF ToSet
<1> DEFINE InPlace(j, k, x, y) ==
             /\ pos[groups[j][x]] \in 1..n /\ ts[pos[groups[j][x]]] = groups[j][x]
             /\ pos[groups[j][x]] = pos[groups[k][y]] => j = k
             /\ j = k /\ x < y => pos[groups[j][x]] < pos[groups[k][y]]
<1>8a. ASSUME NEW j \in 1..Len(groups), NEW k \in 1..Len(groups),
             NEW x \in 1..Len(groups[j]), NEW y \in 1..Len(groups[k])
      PROVE  InPlace(j, k, x, y)
  BY <1>7 DEF Filed
<1>9. ASSUME NEW u \in 1..Len(F) PROVE pos[F[u]] \in 1..n /\ ts[pos[F[u]]] = F[u]
  <2>1. PICK j \in 1..Len(groups) : \E x \in 1..Len(groups[j]) : F[u] = groups[j][x]
    BY <1>8
  <2>2. PICK x \in 1..Len(groups[j]) : F[u] = groups[j][x]
    BY <2>1
  <2>3. InPlace(j, j, x, x)
    BY <1>8a
  <2> QED BY <2>2, <2>3
<1>9a. \A u, v \in 1..Len(F) : u < v => InTurn(groups, F[u], F[v])
  <2>1. F = FlattenSeq(groups) /\ groups \in Seq(Seq(TradeRecords))
    BY <1>1, <1>2
  <2> QED BY <2>1, FlattenedPlaces
<1>10. ASSUME NEW u \in 1..Len(F), NEW v \in 1..Len(F), u < v
       PROVE  /\ F[u] # F[v]
              /\ \A k \in 1..Len(groups) : F[u] \in ToSet(groups[k]) /\ F[v] \in ToSet(groups[k])
                                             => pos[F[u]] < pos[F[v]]
  <2>1. PICK j, k \in 1..Len(groups) : \E x \in 1..Len(groups[j]), y \in 1..Len(groups[k]) :
          F[u] = groups[j][x] /\ F[v] = groups[k][y] /\ (j < k \/ (j = k /\ x < y))
    <3>1. InTurn(groups, F[u], F[v])
      BY <1>9a, <1>10
    <3> QED BY <3>1 DEF InTurn
  <2>2. PICK x \in 1..Len(groups[j]), y \in 1..Len(groups[k]) :
          F[u] = groups[j][x] /\ F[v] = groups[k][y] /\ (j < k \/ (j = k /\ x < y))
    BY <2>1
  <2>3. /\ pos[F[u]] \in 1..n /\ pos[F[v]] \in 1..n
        /\ pos[F[u]] = pos[F[v]] => j = k
        /\ j = k /\ x < y => pos[F[u]] < pos[F[v]]
    <3>1. InPlace(j, k, x, y) /\ InPlace(k, j, y, x)
      BY <1>8a
    <3> QED BY <2>2, <3>1
  <2>4. F[u] # F[v]
    BY <2>2, <2>3, SMTT(40)
  <2>5. ASSUME NEW g \in 1..Len(groups), F[u] \in ToSet(groups[g]), F[v] \in ToSet(groups[g])
        PROVE  pos[F[u]] < pos[F[v]]
    <3>1. DOMAIN groups[g] = 1..Len(groups[g])
      BY <1>3
    <3>2. PICK a, b \in 1..Len(groups[g]) : F[u] = groups[g][a] /\ F[v] = groups[g][b]
      BY <2>5, <3>1 DEF ToSet
    <3>3. InPlace(j, g, x, a) /\ InPlace(k, g, y, b)
      <4> HIDE DEF InPlace
      <4> QED BY <1>8a
    <3>4. j = g /\ k = g
      BY <2>2, <3>2, <3>3
    <3> QED BY <2>2, <2>3, <3>4
  <2> QED BY <2>4, <2>5
<1>11. ASSUME NEW k \in 1..n PROVE \E u \in 1..Len(F) : F[u] = ts[k]
  <2>1. ts[k] \in Members(groups)
    BY <1>2, <1>3 DEF ToSet
  <2>2. PICK j \in 1..Len(groups) : ts[k] \in ToSet(groups[j])
    BY <1>3, <2>1 DEF Members
  <2>3. ts[k] \in ToSet(F)
    BY <1>1, <1>2, <2>2, FlattenedContains
  <2> QED BY <1>3, <2>3 DEF ToSet
<1>12. PICK q : q = [k \in 1..n |-> CHOOSE u \in 1..Len(F) : F[u] = ts[k]]
  OBVIOUS
<1>13. ASSUME NEW k \in 1..n PROVE q[k] \in 1..Len(F) /\ F[q[k]] = ts[k]
  <2>1. q[k] = CHOOSE u \in 1..Len(F) : F[u] = ts[k]
    BY <1>12
  <2> QED BY <1>11, <2>1, Zenon
<1>14. ASSUME NEW u \in 1..Len(F), NEW v \in 1..Len(F), F[u] = F[v] PROVE u = v
  <2>1. ~(u < v) /\ ~(v < u)
    BY <1>10, <1>14
  <2> QED BY <1>3, <2>1
<1>15. ASSUME NEW u \in 1..Len(F) PROVE \E k \in 1..n : q[k] = u
  <2>1. PICK k \in 1..n : ts[k] = F[u]
    BY <1>9
  <2>2. q[k] = u
    BY <1>13, <1>14, <2>1
  <2> QED BY <2>2
<1>16. \A j, k \in 1..n : q[j] = q[k] => j = k
  BY <1>4, <1>13
<1>17. Len(F) = n
  <2>1. q \in [1..n -> 1..Len(F)]
    BY <1>12, <1>13
  <2>2. q \in Bijection(1..n, 1..Len(F))
    BY <1>15, <1>16, <2>1 DEF Bijection, Injection, Surjection, IsInjective
  <2>3. ExistsBijection(1..n, 1..Len(F))
    BY <2>2 DEF ExistsBijection
  <2>4. IsFiniteSet(1..n) /\ Cardinality(1..n) = n /\ Cardinality(1..Len(F)) = Len(F)
    <3>1. \A k \in Nat : IsFiniteSet(1..k) /\ Cardinality(1..k) = k
      BY FS_Interval
    <3> QED BY <1>3, <3>1
  <2>5. Cardinality(1..Len(F)) = Cardinality(1..n)
    BY <2>3, <2>4, FS_Bijection
  <2> QED BY <2>4, <2>5
<1>18. ASSUME NEW j \in 1..n, NEW k \in 1..n, j < k, ts[j].time = ts[k].time PROVE q[j] < q[k]
  <2>1. ts[j] \in ToSet(ts) /\ ts[k] \in ToSet(ts)
    BY <1>3 DEF ToSet
  <2>2. CampaignOf(ts[j]) = CampaignOf(ts[k])
    BY <1>1, <1>18, <2>1
  <2>3. PICK a, b : /\ a = CHOOSE g \in DOMAIN groups : ts[j] \in ToSet(groups[g])
                    /\ b = CHOOSE g \in DOMAIN groups : ts[k] \in ToSet(groups[g])
    OBVIOUS
  <2>4. CampaignOf(ts[j]) = MonthCampaign(a) /\ CampaignOf(ts[k]) = MonthCampaign(b)
    BY <1>1, <2>3 DEF CampaignOf
  <2>5. a = b
    <3>1. MonthCampaign(a).number = a /\ MonthCampaign(b).number = b
      BY DEF MonthCampaign
    <3> QED BY <2>2, <2>4, <3>1
  <2>6. a \in DOMAIN groups /\ ts[j] \in ToSet(groups[a])
    <3>1. \E g \in DOMAIN groups : ts[j] \in ToSet(groups[g])
      BY <1>2, <2>1 DEF Members
    <3> QED BY <2>3, <3>1, Zenon
  <2>7. ts[k] \in ToSet(groups[b])
    <3>1. \E g \in DOMAIN groups : ts[k] \in ToSet(groups[g])
      BY <1>2, <2>1 DEF Members
    <3> QED BY <2>3, <3>1, Zenon
  <2>8. /\ q[j] \in 1..Len(F) /\ q[k] \in 1..Len(F) /\ F[q[j]] = ts[j] /\ F[q[k]] = ts[k]
        /\ pos[ts[j]] = j /\ pos[ts[k]] = k
    BY <1>6, <1>13
  <2>9. ~(q[k] < q[j])
    <3>1. SUFFICES ASSUME q[k] < q[j] PROVE FALSE
      OBVIOUS
    <3>2. pos[F[q[k]]] < pos[F[q[j]]]
      BY <1>3, <1>10, <2>5, <2>6, <2>7, <2>8, <3>1
    <3> QED BY <1>18, <2>8, <3>2
  <2>10. q[j] # q[k]
    BY <1>16, <1>18
  <2> QED BY <1>3, <2>8, <2>9, <2>10
<1>19. PICK X : X = TradeRecords \cup EventRecords
  OBVIOUS
<1>20. /\ ts \in Seq(X) /\ F \in Seq(X) /\ es \in Seq(X) /\ \A x \in X : x.time \in Nat
  BY <1>2, <1>19, ItemKinds
<1>21. Len(F) = Len(ts) /\ q \in [1..Len(ts) -> 1..Len(ts)]
  BY <1>1, <1>12, <1>13, <1>17
<1>22. \A k \in 1..Len(ts) : F[q[k]] = ts[k]
  BY <1>1, <1>13
<1>23. \A j, k \in 1..Len(ts) : q[j] = q[k] => j = k
  BY <1>1, <1>16
<1>24. \A m \in 1..Len(ts) : \E k \in 1..Len(ts) : q[k] = m
  BY <1>1, <1>15, <1>17
<1>25. \A j, k \in 1..Len(ts) : j < k /\ ts[j].time = ts[k].time => q[j] < q[k]
  BY <1>1, <1>18
<1>26. Reorders(q, ts, F)
  BY <1>21, <1>22, <1>23, <1>24, <1>25 DEF Reorders
<1>27. Timeline(F, es) = Timeline(ts, es)
  BY <1>20, <1>26, SameTimeline
<1> QED BY <1>1, <1>27

LEMMA ItemsAgree ==
  ASSUME input \in Inputs, Alike
  PROVE  AttributedItems = PositionItems /\ AttributedEvents = input.events
<1>1. AttributedEvents = input.events /\ input.events \in Seq(EventRecords)
  BY InputTypes, ConcatEmptySeq DEF Alike, AttributedEvents
<1>2. \A s, t \in ToSet(input.trades) : s.time = t.time => CampaignOf(s) = CampaignOf(t)
  BY DEF Alike
<1>3. Timeline(FlattenSeq(MonthCampaigns), input.events) = Timeline(input.trades, input.events)
  BY <1>1, <1>2, CampaignsInOrder
<1> QED BY <1>1, <1>3 DEF AttributedItems, PositionItems

\* A trade that settles an assignment closes its shares: the closures of what
\* no trade closes stay as they were found.
Kept(pending) ==
  LET found == ClosuresOf(AttributedEvents)
  IN /\ Len(pending) = Len(found)
     /\ \A k \in 1..Len(found) :
          /\ pending[k].underlying = found[k].underlying
          /\ ~ClosedByTrade(found[k].underlying) => pending[k] = found[k]

LEMMA AfterLegKeeps ==
  ASSUME NEW pending \in Seq(ClosureRecs), Kept(pending), NEW leg \in LegRecords, NEW day \in Nat,
         leg.effect = "CLOSE" => ClosedByTrade(leg.instrument)
  PROVE  Kept(AfterLeg(leg, day, pending))
<1>1. CASE Settled(leg, day, pending) = {}
  BY <1>1 DEF AfterLeg
<1>2. CASE Settled(leg, day, pending) # {}
  <2>1. PICK k : k = LatestSettled(leg, day, pending)
    OBVIOUS
  <2>2. /\ k \in 1..Len(pending) /\ pending[k].underlying = leg.instrument /\ leg.effect = "CLOSE"
        /\ pending[k] \in ClosureRecs
    <3>1. k \in Settled(leg, day, pending)
      BY <1>2, <2>1, LatestTypes
    <3> QED BY <3>1 DEF Settled
  <2>3. PICK left : left = pending[k].remaining - Smaller(leg.quantity, pending[k].remaining)
    OBVIOUS
  <2>4. PICK rec, s : rec = [pending[k] EXCEPT !.remaining = left] /\ s = [pending EXCEPT ![k] = rec]
    OBVIOUS
  <2>5. AfterLeg(leg, day, pending) = s
    BY <1>2, <2>1, <2>3, <2>4 DEF AfterLeg
  <2>6. rec.underlying = pending[k].underlying
    BY <2>2, <2>4 DEF ClosureRecs
  <2>7. Len(s) = Len(pending) /\ s[k] = rec /\ \A j \in 1..Len(pending) : j # k => s[j] = pending[j]
    <3>1. DOMAIN pending = 1..Len(pending) /\ Len(pending) \in Nat
      OBVIOUS
    <3>2. s \in Seq(ClosureRecs) /\ DOMAIN s = DOMAIN pending
      <4>1. AfterLeg(leg, day, pending) \in Seq(ClosureRecs)
        BY AfterLegTypes
      <4>2. DOMAIN s = DOMAIN pending
        BY <2>4
      <4> QED BY <2>5, <4>1, <4>2
    <3>3. Len(s) = Len(pending)
      BY <3>2
    <3>4. s[k] = rec
      BY <2>2, <2>4, <3>1
    <3>5. \A j \in 1..Len(pending) : j # k => s[j] = pending[j]
      BY <2>4, <3>1
    <3> QED BY <3>3, <3>4, <3>5
  <2>8. PICK found : found = ClosuresOf(AttributedEvents)
    OBVIOUS
  <2>9. /\ Len(pending) = Len(found)
        /\ \A j \in 1..Len(found) :
             /\ pending[j].underlying = found[j].underlying
             /\ ~ClosedByTrade(found[j].underlying) => pending[j] = found[j]
    BY <2>8 DEF Kept
  <2>10. ASSUME NEW j \in 1..Len(found)
         PROVE  /\ s[j].underlying = found[j].underlying
                /\ ~ClosedByTrade(found[j].underlying) => s[j] = found[j]
    <3>1. CASE j = k
      <4>1. s[j].underlying = found[j].underlying /\ ClosedByTrade(found[j].underlying)
        BY <2>2, <2>6, <2>7, <2>9, <3>1
      <4> QED BY <4>1
    <3>2. CASE j # k
      <4>1. s[j] = pending[j]
        BY <2>7, <2>9, <3>2
      <4> QED BY <2>9, <4>1
    <3> QED BY <3>1, <3>2
  <2>11. Kept(s)
    BY <2>7, <2>8, <2>9, <2>10 DEF Kept
  <2> QED BY <2>5, <2>11
<1> QED BY <1>1, <1>2

LEMMA LegsClose ==
  ASSUME input \in Inputs, NEW trade \in ToSet(input.trades), NEW k \in 1..Len(trade.legs)
  PROVE  /\ trade \in TradeRecords /\ trade.legs[k] \in LegRecords /\ Day(trade.time) \in Nat
         /\ trade.legs[k].effect = "CLOSE" => ClosedByTrade(trade.legs[k].instrument)
<1>1. input.trades \in Seq(TradeRecords)
  BY InputTypes
<1>2. trade \in TradeRecords
  BY <1>1 DEF ToSet
<1>3. trade.legs \in Seq(LegRecords) /\ trade.time \in Nat
  BY <1>2 DEF TradeRecords
<1>4. trade.legs[k] \in LegRecords /\ Day(trade.time) \in Nat
  <2>1. trade.legs[k] \in LegRecords
    BY <1>3
  <2>2. Day(trade.time) \in Nat
    BY <1>3, DayTypes
  <2> QED BY <2>1, <2>2
<1>5. trade.legs[k].effect = "CLOSE" => trade.legs[k].instrument \in Closing(input.trades)
  BY <1>1, ClosingLegs
<1> QED BY <1>2, <1>4, <1>5 DEF ClosedByTrade

LEMMA ReservedKeeps ==
  ASSUME input \in Inputs, NEW trade \in ToSet(input.trades),
         NEW pending \in Seq(ClosureRecs), Kept(pending)
  PROVE  Kept(Reserved(pending, trade))
<1>1. trade \in TradeRecords
  <2>1. input.trades \in Seq(TradeRecords)
    BY InputTypes
  <2> QED BY <2>1 DEF ToSet
<1>2. PICK f \in [0..Len(trade.legs) -> Seq(ClosureRecs)] :
        /\ f[0] = pending
        /\ \A k \in 1..Len(trade.legs) : f[k] = AfterLeg(trade.legs[k], Day(trade.time), f[k - 1])
        /\ Reserved(pending, trade) = f[Len(trade.legs)]
  BY <1>1, ReservedLoop
<1>3. PICK n : n = Len(trade.legs)
  OBVIOUS
<1>4. n \in Nat
  BY <1>1, <1>3 DEF TradeRecords
<1> DEFINE S == { k \in 0..n : Kept(f[k]) }
<1>5. 0 \in S
  BY <1>2, <1>4
<1>6. ASSUME NEW k \in 1..n, k - 1 \in S PROVE k \in S
  <2>1. f[k - 1] \in Seq(ClosureRecs) /\ Kept(f[k - 1]) /\ k \in 0..n
    BY <1>2, <1>3, <1>4, <1>6
  <2>2. /\ trade.legs[k] \in LegRecords /\ Day(trade.time) \in Nat
        /\ trade.legs[k].effect = "CLOSE" => ClosedByTrade(trade.legs[k].instrument)
    BY <1>3, LegsClose
  <2>3. Kept(AfterLeg(trade.legs[k], Day(trade.time), f[k - 1]))
    BY <2>1, <2>2, AfterLegKeeps
  <2> QED BY <1>2, <1>3, <2>1, <2>3
<1>7. n \in S
  <2>1. n \in 0..n
    BY <1>4
  <2> HIDE DEF S
  <2> QED BY <1>4, <1>5, <1>6, <2>1, Upward
<1> QED BY <1>2, <1>3, <1>7

LEMMA FoundAreKept == Kept(ClosuresOf(AttributedEvents))
BY DEF Kept

\* What the month's trades reserve beforehand.
LEMMA PlannedKeeps ==
  ASSUME input \in Inputs, Alike
  PROVE  Kept(Planned)
<1>1. PICK sorted : sorted = Timeline(FlattenSeq(MonthCampaigns), << >>)
  OBVIOUS
<1>2. sorted = Timeline(input.trades, << >>)
  <2>1. \A s, t \in ToSet(input.trades) : s.time = t.time => CampaignOf(s) = CampaignOf(t)
    BY DEF Alike
  <2>2. << >> \in Seq(EventRecords)
    OBVIOUS
  <2> QED BY <1>1, <2>1, <2>2, CampaignsInOrder
<1>3. sorted \in Seq(TradeRecords) /\ \A n \in DOMAIN sorted : sorted[n] \in ToSet(input.trades)
  <2>1. /\ \A x \in TradeRecords : x.time \in Nat
        /\ input.trades \in Seq(TradeRecords) /\ << >> \in Seq(TradeRecords)
    BY InputTypes DEF TradeRecords
  <2>2. /\ sorted \in Seq(TradeRecords)
        /\ \A n \in DOMAIN sorted : sorted[n] \in ToSet(input.trades) \cup ToSet(<< >>)
    BY <1>2, <2>1, TimelineItems
  <2>3. ToSet(<< >>) = {}
    BY DEF ToSet
  <2> QED BY <2>2, <2>3
<1>4. PICK f \in [0..Len(sorted) -> Seq(ClosureRecs)] :
        /\ f[0] = ClosuresOf(AttributedEvents)
        /\ \A k \in 1..Len(sorted) : f[k] = Reserved(f[k - 1], sorted[k])
        /\ Planned = f[Len(sorted)]
  BY <1>1, <1>3, PlannedLoop
<1>5. PICK n : n = Len(sorted)
  OBVIOUS
<1>6. n \in Nat /\ DOMAIN sorted = 1..n
  BY <1>3, <1>5
<1> DEFINE S == { k \in 0..n : Kept(f[k]) }
<1>7. 0 \in S
  BY <1>4, <1>6, FoundAreKept
<1>8. ASSUME NEW k \in 1..n, k - 1 \in S PROVE k \in S
  <2>1. f[k - 1] \in Seq(ClosureRecs) /\ Kept(f[k - 1]) /\ k \in 0..n /\ sorted[k] \in ToSet(input.trades)
    <3>1. k - 1 \in 0..Len(sorted) /\ k \in 0..n
      BY <1>5, <1>6
    <3>2. f[k - 1] \in Seq(ClosureRecs)
      BY <3>1
    <3>3. Kept(f[k - 1])
      BY <1>8
    <3>4. sorted[k] \in ToSet(input.trades)
      BY <1>3, <1>6
    <3> QED BY <3>1, <3>2, <3>3, <3>4
  <2>2. Kept(Reserved(f[k - 1], sorted[k]))
    BY <2>1, ReservedKeeps
  <2> QED BY <1>4, <1>5, <2>1, <2>2
<1>9. n \in S
  <2>1. n \in 0..n
    BY <1>6
  <2> HIDE DEF S
  <2> QED BY <1>6, <1>7, <1>8, <2>1, Upward
<1> QED BY <1>4, <1>5, <1>9

\* An assigned contract is among the closures, with all its shares.
Lists(found, n, u, r) ==
  \E m \in 1..Len(found) : found[m].event = n /\ found[m].underlying = u /\ found[m].remaining = r

LEMMA ClosureListed ==
  ASSUME NEW events \in Seq(EventRecords), NEW n \in 1..Len(events), events[n].kind = "ASSIGNMENT",
         NEW k \in 1..Len(events[n].changes), events[n].changes[k].instrument \in Options,
         NEW found, found = ClosuresOf(events),
         NEW change, change = events[n].changes[k]
  PROVE  Lists(found, n, Underlying[change.instrument], Magnitude(change.quantity) * PerContract)
<1> DEFINE Found(x, y) ==
             LET e == events[x]
                 option == e.changes[y].instrument
             IN IF e.kind # "ASSIGNMENT" \/ option \notin Options THEN << >>
                ELSE << [event |-> x, underlying |-> Underlying[option], strike |-> Strike[option],
                         day |-> Day(e.time),
                         remaining |-> Magnitude(e.changes[y].quantity) * PerContract,
                         moves |-> \E c \in ToSet(e.changes) :
                                     c.instrument = Underlying[option] /\ c.quantity # 0] >>
           Row(x) == [y \in DOMAIN events[x].changes |-> Found(x, y)]
           Rows == [x \in DOMAIN events |-> FlattenSeq(Row(x))]
<1>1. DOMAIN events = 1..Len(events) /\ Len(events) \in Nat
      /\ \A x \in 1..Len(events) : events[x].changes \in Seq(ChangeRecords)
  <2>1. \A x \in 1..Len(events) : events[x] \in EventRecords
    OBVIOUS
  <2>2. \A x \in 1..Len(events) : events[x].changes \in Seq(ChangeRecords)
    BY <2>1 DEF EventRecords
  <2> QED BY <2>2
<1>2. PICK X : X = UNION { UNION { ToSet(Found(x, y)) : y \in DOMAIN events[x].changes } : x \in DOMAIN events }
  OBVIOUS
<1>3. ASSUME NEW x \in 1..Len(events), NEW y \in 1..Len(events[x].changes)
      PROVE  Found(x, y) \in Seq(X)
  <2>1. PICK s : s = Found(x, y)
    OBVIOUS
  <2>2. s = << >> \/ \E r : s = << r >>
    BY <2>1
  <2>3. x \in DOMAIN events /\ y \in DOMAIN events[x].changes
    BY <1>1
  <2>4. ToSet(s) \subseteq X
    <3> HIDE DEF Found
    <3> QED BY <1>2, <2>1, <2>3
  <2> HIDE DEF Found
  <2>5. s \in Seq(X)
    <3>1. CASE s = << >>
      BY <3>1
    <3>2. CASE s # << >>
      <4>1. PICK r : s = << r >>
        BY <2>2, <3>2
      <4>2. r \in ToSet(s)
        BY <4>1 DEF ToSet
      <4>3. r \in X
        BY <2>4, <4>2
      <4> QED BY <4>1, <4>3
    <3> QED BY <3>1, <3>2
  <2> QED BY <2>1, <2>5
<1>4. ASSUME NEW x \in 1..Len(events) PROVE Row(x) \in Seq(Seq(X)) /\ FlattenSeq(Row(x)) \in Seq(X)
  <2>1. PICK row, w : row = Row(x) /\ w = Len(events[x].changes)
    OBVIOUS
  <2>2. w \in Nat /\ DOMAIN events[x].changes = 1..w
    BY <1>1, <2>1
  <2>3. row = [y \in 1..w |-> Found(x, y)]
    BY <2>1, <2>2
  <2>4. \A y \in 1..w : Found(x, y) \in Seq(X)
    BY <1>3, <2>1
  <2> HIDE DEF Found
  <2>5. row \in Seq(Seq(X))
    BY <2>2, <2>3, <2>4
  <2>6. FlattenSeq(row) \in Seq(X)
    BY <2>5, FlattenedMembers
  <2> QED BY <2>1, <2>5, <2>6
<1>5. PICK o, q, rec : /\ o = events[n].changes[k].instrument /\ q = events[n].changes[k].quantity
                       /\ rec = [event |-> n, underlying |-> Underlying[o], strike |-> Strike[o],
                                 day |-> Day(events[n].time), remaining |-> Magnitude(q) * PerContract,
                                 moves |-> \E c \in ToSet(events[n].changes) :
                                             c.instrument = Underlying[o] /\ c.quantity # 0]
  OBVIOUS
<1>6. Found(n, k) = << rec >>
  BY <1>5
<1>7. PICK row, rows : row = Row(n) /\ rows = Rows
  OBVIOUS
<1>8. row \in Seq(Seq(X)) /\ k \in 1..Len(row) /\ row[k] = << rec >>
  <2>1. row \in Seq(Seq(X))
    <3> HIDE DEF Row
    <3> QED BY <1>4, <1>7
  <2>2. DOMAIN row = DOMAIN events[n].changes /\ DOMAIN events[n].changes = 1..Len(events[n].changes)
    <3>1. DOMAIN row = DOMAIN events[n].changes
      <4> HIDE DEF Found
      <4> QED BY <1>7
    <3> QED BY <1>1, <3>1
  <2>3. DOMAIN row = 1..Len(row)
    BY <2>1
  <2>4. row[k] = Found(n, k)
    <3> HIDE DEF Found
    <3> QED BY <1>7, <2>2
  <2>5. k \in 1..Len(row)
    BY <2>2, <2>3
  <2> HIDE DEF Found
  <2> QED BY <1>6, <2>1, <2>4, <2>5
<1>9. rec \in ToSet(FlattenSeq(row))
  <2>1. rec \in ToSet(row[k])
    BY <1>8 DEF ToSet
  <2> QED BY <1>8, <2>1, FlattenedContains
<1>10. rows \in Seq(Seq(X)) /\ n \in 1..Len(rows) /\ rows[n] = FlattenSeq(row)
  <2>1. \A x \in 1..Len(events) : FlattenSeq(Row(x)) \in Seq(X)
    BY <1>4
  <2> HIDE DEF Row
  <2>2. rows = [x \in 1..Len(events) |-> FlattenSeq(Row(x))]
    BY <1>1, <1>7
  <2>3. rows \in Seq(Seq(X)) /\ Len(rows) = Len(events)
    BY <1>1, <2>1, <2>2
  <2> QED BY <1>7, <2>2, <2>3
<1>11. rec \in ToSet(FlattenSeq(rows))
  BY <1>9, <1>10, FlattenedContains
<1>12. found = FlattenSeq(rows)
  BY <1>7 DEF ClosuresOf
<1>13. found \in Seq(ClosureRecs)
  BY ClosuresTypes
<1>14. PICK m \in DOMAIN found : found[m] = rec
  BY <1>11, <1>12 DEF ToSet
<1>15. m \in 1..Len(found)
  BY <1>13
<1>16. /\ rec.event = n /\ rec.underlying = Underlying[o]
       /\ rec.remaining = Magnitude(q) * PerContract
  BY <1>5
<1> QED BY <1>5, <1>14, <1>15, <1>16 DEF Lists

\* What the attributor applies of an event is what the event says, when no
\* trade has done any of it.
LEMMA UnitsWhole ==
  ASSUME input \in Inputs, Alike, NEW event \in ToSet(input.events), NEW change \in ToSet(event.changes),
         ~(event.kind = "ASSIGNMENT" /\ change.instrument \in Options),
         NEW pending \in Seq(ClosureRecs), Kept(pending)
  PROVE  Units(event, change, pending) = change.quantity
<1>1. PICK i, w : i = change.instrument /\ w = change.quantity
  OBVIOUS
<1>2. ~ClosedByTrade(i)
  BY <1>1 DEF Alike
<1>3. /\ AttributedEvents = input.events /\ input.events \in Seq(EventRecords)
      /\ event \in EventRecords /\ change \in ChangeRecords /\ w \in Int
  <2>1. AttributedEvents = input.events /\ input.events \in Seq(EventRecords)
    BY ItemsAgree, InputTypes
  <2>2. event \in EventRecords
    BY <2>1 DEF ToSet
  <2>3. event.changes \in Seq(ChangeRecords)
    BY <2>2 DEF EventRecords
  <2>4. change \in ChangeRecords
    BY <2>3 DEF ToSet
  <2> QED BY <1>1, <2>1, <2>2, <2>4 DEF ChangeRecords
<1>4. CASE ~(event.kind = "ASSIGNMENT" /\ w < 0)
  BY <1>1, <1>2, <1>4 DEF Units
<1>5. CASE event.kind = "ASSIGNMENT" /\ w < 0
  <2>1. PICK open, f : /\ open = Undelivered(pending, event, i)
                       /\ f = [k \in open |-> pending[k].remaining]
    OBVIOUS
  <2>2. /\ DOMAIN pending = 1..Len(pending) /\ Len(pending) \in Nat
        /\ \A k \in 1..Len(pending) : pending[k] \in ClosureRecs
    OBVIOUS
  <2>3. open \subseteq 1..Len(pending) /\ IsFiniteSet(open)
    <3>1. open \subseteq 1..Len(pending)
      BY <2>1, <2>2 DEF Undelivered
    <3>2. IsFiniteSet(1..Len(pending))
      BY <2>2, FS_Interval
    <3> QED BY <3>1, <3>2, FS_Subset
  <2>4. DOMAIN f = open /\ f \in [open -> Nat]
    <3>1. \A k \in open : pending[k].remaining \in Nat
      BY <2>2, <2>3 DEF ClosureRecs
    <3> QED BY <2>1, <3>1
  <2>5. PICK n \in 1..Len(input.events) : input.events[n] = event
    <3>1. DOMAIN input.events = 1..Len(input.events)
      BY <1>3
    <3> QED BY <3>1 DEF ToSet
  <2>6. PICK o, q : o = event.changes[1].instrument /\ q = event.changes[1].quantity
    OBVIOUS
  <2>7. /\ 1 \in 1..Len(event.changes) /\ o \in Options /\ q \in Int
        /\ i = Underlying[o] /\ w = (IF o \in Calls THEN -q ELSE q) * PerContract
    <3>1. Translated(event.changes)
      <4>1. input.boundary \in Seq(EventRecords)
        BY InputTypes
      <4>2. event \in ToSet(input.events \o input.boundary)
        BY <1>3, <4>1, JoinedContains
      <4> QED BY <1>5, <4>2, EvidenceAssumption
    <3>2. PICK c : c = [instrument |-> Underlying[o], quantity |-> (IF o \in Calls THEN -q ELSE q) * PerContract]
      OBVIOUS
    <3>3. PICK s : s = event.changes
      OBVIOUS
    <3>4. s # << >> /\ o \in Options /\ s \in { << s[1] >>, << s[1], c >> } /\ s \in Seq(ChangeRecords)
      BY <1>3, <2>6, <3>1, <3>2, <3>3 DEF Translated, EventRecords
    <3>5. 1 \in 1..Len(s) /\ q \in Int
      <4>1. Len(s) \in Nat /\ Len(s) # 0
        BY <3>4
      <4>2. s[1] \in ChangeRecords
        BY <3>4, <4>1
      <4> QED BY <2>6, <3>3, <4>1, <4>2 DEF ChangeRecords
    <3>6. change \in {s[1], c}
      <4>1. ToSet(<< s[1] >>) = {s[1]} /\ ToSet(<< s[1], c >>) = {s[1], c}
        BY DEF ToSet
      <4> QED BY <3>3, <3>4, <4>1
    <3>7. change = c
      BY <1>5, <2>6, <3>3, <3>4, <3>6
    <3> QED BY <1>1, <3>2, <3>3, <3>4, <3>5, <3>7
  <2>8. PICK found : found = ClosuresOf(AttributedEvents)
    OBVIOUS
  <2>9. PICK m \in 1..Len(found) :
          /\ found[m].event = n /\ found[m].underlying = i
          /\ found[m].remaining = Magnitude(q) * PerContract
    <3>1. PICK es, first : es = input.events /\ first = event.changes[1]
      OBVIOUS
    <3>2. /\ es \in Seq(EventRecords) /\ n \in 1..Len(es) /\ es[n].kind = "ASSIGNMENT"
          /\ 1 \in 1..Len(es[n].changes) /\ es[n].changes[1].instrument \in Options
          /\ found = ClosuresOf(es) /\ first = es[n].changes[1]
      BY <1>3, <1>5, <2>5, <2>6, <2>7, <2>8, <3>1
    <3>3. Lists(found, n, Underlying[first.instrument], Magnitude(first.quantity) * PerContract)
      BY <3>2, ClosureListed
    <3>4. first.instrument = o /\ first.quantity = q /\ Underlying[o] = i
      BY <2>6, <2>7, <3>1
    <3> QED BY <3>3, <3>4 DEF Lists
  <2>10. pending[m] = found[m] /\ m \in 1..Len(pending)
    BY <1>2, <2>8, <2>9 DEF Kept
  <2>11. m \in open
    <3>1. AttributedEvents[pending[m].event] = event
      BY <1>3, <2>5, <2>9, <2>10
    <3> QED BY <2>1, <2>2, <2>9, <2>10, <3>1 DEF Undelivered
  <2>12. Magnitude(q) * PerContract = -w
    <3>1. PerContract \in Nat \ {0}
      BY TradeAssumption
    <3>2. CASE o \in Calls
      <4>1. w = (-q) * PerContract
        BY <2>7, <3>2
      <4>2. q > 0
        <5>1. \A x \in Int, y \in Nat : x <= 0 => (-x) * y >= 0
          OBVIOUS
        <5> QED BY <1>3, <1>5, <2>7, <3>1, <4>1, <5>1
      <4>3. \A x, y \in Int : (-x) * y = -(x * y)
        OBVIOUS
      <4> QED BY <2>7, <3>1, <4>1, <4>2, <4>3 DEF Magnitude
    <3>3. CASE o \notin Calls
      <4>1. w = q * PerContract
        BY <2>7, <3>3
      <4>2. ~(q > 0)
        <5>1. \A x \in Int, y \in Nat : x > 0 => x * y >= 0
          OBVIOUS
        <5> QED BY <1>3, <1>5, <2>7, <3>1, <4>1, <5>1
      <4>3. \A x, y \in Int : (-x) * y = -(x * y)
        OBVIOUS
      <4> QED BY <2>7, <3>1, <4>1, <4>2, <4>3 DEF Magnitude
    <3> QED BY <3>2, <3>3
  <2>13. f[m] = -w
    BY <2>1, <2>9, <2>10, <2>11, <2>12
  <2>14. PICK left : left = SumFunction(f)
    OBVIOUS
  <2>15. left \in Int /\ -w <= left
    BY <2>3, <2>4, <2>11, <2>13, <2>14, SumCovers
  <2>16. Units(event, change, pending) = -Smaller(-w, left)
    BY <1>1, <1>5, <2>1, <2>11, <2>14 DEF Units
  <2>17. Smaller(-w, left) = -w
    BY <1>3, <2>15 DEF Smaller
  <2>18. -(-w) = w
    BY <1>3
  <2> QED BY <1>1, <2>16, <2>17, <2>18
<1> QED BY <1>4, <1>5

LEMMA CloseNothing ==
  ASSUME NEW ls \in Seq(OpenLots), NEW c \in Owners
  PROVE  CloseRun(ls, 0, c).open = ls /\ CloseRun(ls, 0, c).due = 0
<1>1. PICK f \in [0..Len(ls) -> Runs] :
        /\ f[0] = [open |-> << >>, due |-> 0, taken |-> << >>]
        /\ \A k \in 1..Len(ls) : f[k] = CloseLot(f[k - 1], ls[k], c)
        /\ CloseRun(ls, 0, c) = f[Len(ls)]
  BY CloseRunLoop
<1>2. PICK n : n = Len(ls)
  OBVIOUS
<1>3. n \in Nat /\ \A k \in 1..n : ls[k] \in OpenLots
  BY <1>2
<1> DEFINE S == { k \in 0..n : /\ f[k].due = 0 /\ Len(f[k].open) = k
                               /\ \A j \in 1..k : f[k].open[j] = ls[j] }
<1>4. 0 \in S
  <2>1. f[0].due = 0 /\ f[0].open = << >>
    BY <1>1
  <2>2. Len(<< >>) = 0 /\ 0 \in 0..n
    BY <1>3
  <2> QED BY <2>1, <2>2
<1>5. ASSUME NEW k \in 1..n, k - 1 \in S PROVE k \in S
  <2>1. PICK a, b : a = f[k - 1].open /\ b = f[k].open
    OBVIOUS
  <2>2. k - 1 \in 0..Len(ls) /\ k \in 0..n
    BY <1>2, <1>3
  <2>3. f[k - 1] \in Runs
    BY <1>1, <2>2
  <2>4. a \in Seq(OpenLots) /\ f[k - 1].due = 0 /\ Len(a) = k - 1 /\ \A j \in 1..(k - 1) : a[j] = ls[j]
    BY <1>5, <2>1, <2>3 DEF Runs
  <2>5. f[k] = CloseLot(f[k - 1], ls[k], c)
    BY <1>1, <1>2
  <2>6. b = Append(a, ls[k]) /\ f[k].due = 0
    BY <2>1, <2>4, <2>5 DEF CloseLot
  <2>7. Len(b) = k /\ \A j \in 1..k : b[j] = ls[j]
    BY <1>3, <2>4, <2>6
  <2> QED BY <2>1, <2>2, <2>6, <2>7
<1>6. n \in S
  <2>1. n \in 0..n
    BY <1>3
  <2> HIDE DEF S
  <2> QED BY <1>3, <1>4, <1>5, <2>1, Upward
<1>7. PICK a : a = f[n].open
  OBVIOUS
<1>8. a \in Seq(OpenLots)
  <2>1. n \in 0..Len(ls)
    BY <1>2, <1>3
  <2>2. f[n] \in Runs
    BY <1>1, <2>1
  <2> QED BY <1>7, <2>2 DEF Runs
<1>9. Len(a) = Len(ls) /\ \A j \in 1..Len(ls) : a[j] = ls[j]
  BY <1>2, <1>6, <1>7
<1>10. a = ls
  BY <1>8, <1>9
<1> QED BY <1>1, <1>2, <1>6, <1>7, <1>10

LEMMA ChangeOfSame ==
  ASSUME NEW b \in Books, NEW d \in Books, Same(b, d), NEW change, NEW now, NEW c
  PROVE  Same(ApplyChange(b, change, now, c), ApplyChange(d, change, now, c))
<1>1. PICK x, y, i, run, z : /\ x = b.lots /\ y = b.nextId /\ i = change.instrument
                             /\ run = CloseRun(x[i], change.quantity, NoCampaign)
                             /\ z = [x EXCEPT ![i] = run.open]
  OBVIOUS
<1>2. d.lots = x /\ d.nextId = y /\ d.ok = b.ok
  BY <1>1 DEF Same
<1>3. PICK p, q : /\ p = [lots |-> z, nextId |-> y, ok |-> b.ok, taken |-> b.taken \o run.taken]
                  /\ q = [lots |-> z, nextId |-> y, ok |-> b.ok, taken |-> d.taken \o run.taken]
  OBVIOUS
<1>4. ApplyChange(b, change, now, c) = IF run.due = 0 THEN p ELSE AppendNew(p, i, run.due, now, c)
  BY <1>1, <1>3 DEF ApplyChange
<1>5. ApplyChange(d, change, now, c) = IF run.due = 0 THEN q ELSE AppendNew(q, i, run.due, now, c)
  BY <1>1, <1>2, <1>3 DEF ApplyChange
<1>6. /\ p.lots = z /\ q.lots = z /\ p.nextId = y /\ q.nextId = y /\ p.ok = b.ok /\ q.ok = b.ok
  BY <1>3
<1>7. Same(p, q)
  BY <1>6 DEF Same
<1>8. Same(AppendNew(p, i, run.due, now, c), AppendNew(q, i, run.due, now, c))
  <2>1. NewId(p) = NewId(q)
    BY <1>6 DEF NewId
  <2>2. PICK w, v : /\ w = [z EXCEPT ![i] = Append(z[i], BuildLot(NewId(p), run.due, now, c))]
                    /\ v = y + 1
    OBVIOUS
  <2>3. AppendNew(p, i, run.due, now, c) = [lots |-> w, nextId |-> v, ok |-> b.ok, taken |-> p.taken]
    BY <1>6, <2>2 DEF AppendNew
  <2>4. AppendNew(q, i, run.due, now, c) = [lots |-> w, nextId |-> v, ok |-> b.ok, taken |-> q.taken]
    BY <1>6, <2>1, <2>2 DEF AppendNew
  <2> QED BY <2>3, <2>4 DEF Same
<1> QED BY <1>4, <1>5, <1>7, <1>8

LEMMA ClaimOfSame ==
  ASSUME NEW b \in Books, NEW d \in Books, Same(b, d), NEW i, NEW quantity, NEW c
  PROVE  Same(ClaimUnassigned(b, i, quantity, c), ClaimUnassigned(d, i, quantity, c))
<1>1. PICK x, y, run : /\ x = b.lots /\ y = b.nextId /\ run = ClaimRun(x[i], quantity, y, c)
  OBVIOUS
<1>2. d.lots = x /\ d.nextId = y
  BY <1>1 DEF Same
<1>3. PICK z, w : z = [x EXCEPT ![i] = run.open] /\ w = (run.due = 0)
  OBVIOUS
<1>4. ClaimUnassigned(b, i, quantity, c)
        = IF Unclaimed(x[i]) = {} THEN b
          ELSE [lots |-> z, nextId |-> run.nextId, ok |-> w, taken |-> b.taken]
  BY <1>1, <1>3 DEF ClaimUnassigned
<1>5. ClaimUnassigned(d, i, quantity, c)
        = IF Unclaimed(x[i]) = {} THEN d
          ELSE [lots |-> z, nextId |-> run.nextId, ok |-> w, taken |-> d.taken]
  BY <1>1, <1>2, <1>3 DEF ClaimUnassigned
<1>6. CASE Unclaimed(x[i]) = {}
  BY <1>4, <1>5, <1>6
<1>7. CASE Unclaimed(x[i]) # {}
  <2>1. PICK p, q : /\ p = [lots |-> z, nextId |-> run.nextId, ok |-> w, taken |-> b.taken]
                    /\ q = [lots |-> z, nextId |-> run.nextId, ok |-> w, taken |-> d.taken]
    OBVIOUS
  <2>2. Same(p, q)
    BY <2>1 DEF Same
  <2> QED BY <1>4, <1>5, <1>7, <2>1, <2>2
<1> QED BY <1>6, <1>7

\* A change of nothing.
LEMMA ChangeOfNothing ==
  ASSUME NEW b \in Books, NEW change \in ChangeRecords, change.quantity = 0, NEW now, NEW c
  PROVE  Same(ApplyChange(b, change, now, c), b)
<1>1. PICK x, i, run : x = b.lots /\ i = change.instrument /\ run = CloseRun(x[i], 0, NoCampaign)
  OBVIOUS
<1>2. x \in [Instruments -> Seq(OpenLots)] /\ i \in Instruments /\ NoCampaign \in Owners
  BY <1>1, BookFields DEF ChangeRecords, Owners
<1>3. run.open = x[i] /\ run.due = 0
  BY <1>1, <1>2, CloseNothing
<1>4. ApplyChange(b, change, now, c)
        = [lots |-> [x EXCEPT ![i] = run.open], nextId |-> b.nextId, ok |-> b.ok,
           taken |-> b.taken \o run.taken]
  BY <1>1, <1>3 DEF ApplyChange
<1>5. [x EXCEPT ![i] = run.open] = x
  BY <1>2, <1>3
<1> QED BY <1>1, <1>4, <1>5 DEF Same

\* The two ways to apply an event, after the same changes of it.
Alongside(r, e, event) ==
  /\ Same(r.book, e.book) /\ r.owner = e.owner
  /\ event.kind # "ASSIGNMENT" => r.owner = NoCampaign

\* A run of the attributor with a book, all else but its findings unchanged.
Carries(run, b, r) == run.book = b /\ run.closures = r.closures /\ run.owner = r.owner

LEMMA OtherChangeIs ==
  ASSUME NEW r, NEW event, NEW change, NEW units, NEW claimed, NEW after,
         units = Units(event, change, IF input.variant = "month" THEN planned ELSE r.closures),
         claimed = (IF event.kind = "ASSIGNMENT" /\ r.owner # NoCampaign /\ change.quantity < 0
                    THEN ClaimUnassigned(r.book, change.instrument, -change.quantity, r.owner)
                    ELSE r.book),
         after = ApplyChange([claimed EXCEPT !.taken = << >>],
                             [instrument |-> change.instrument, quantity |-> units],
                             event.time, r.owner)
  PROVE  /\ units = 0 => OtherChange(r, event, change) = r
         /\ units # 0 /\ ~claimed.ok => Carries(OtherChange(r, event, change), claimed, r)
         /\ units # 0 /\ claimed.ok => Carries(OtherChange(r, event, change), after, r)
<1>1. PICK i : i = change.instrument
  OBVIOUS
<1>2. PICK expired, parts : /\ expired = (event.kind = "EXPIRATION" /\ i \in Options)
                            /\ parts = Parts(after.taken, 1)
  OBVIOUS
<1>3. PICK quantity : quantity = IF expired THEN SumQuantities(parts) ELSE Magnitude(units)
  OBVIOUS
<1>4. PICK closing : closing = Activity(Day(event.time), i, quantity, parts, TRUE, NoDay)
  OBVIOUS
<1>5. PICK found : found = IF after.taken = << >> \/ (~expired /\ change.quantity > 0) THEN r.found
                           ELSE Append(r.found, closing)
  OBVIOUS
<1>6. OtherChange(r, event, change) =
         IF units = 0 THEN r
         ELSE IF ~claimed.ok
         THEN [book |-> claimed, closures |-> r.closures, found |-> r.found, owner |-> r.owner]
         ELSE [book |-> after, closures |-> r.closures, found |-> found, owner |-> r.owner]
  BY <1>1, <1>2, <1>3, <1>4, <1>5 DEF OtherChange
<1>7. PICK whole : whole = OtherChange(r, event, change)
  OBVIOUS
<1>8. units = 0 => whole = r
  BY ONLY <1>6, <1>7
<1>9. units # 0 /\ ~claimed.ok => Carries(whole, claimed, r)
  BY ONLY <1>6, <1>7 DEF Carries
<1>10. units # 0 /\ claimed.ok => Carries(whole, after, r)
  BY ONLY <1>6, <1>7 DEF Carries
<1> QED BY ONLY <1>7, <1>8, <1>9, <1>10

LEMMA AttributedChangeSame ==
  ASSUME input \in Inputs, Alike, planned \in Seq(ClosureRecs),
         input.variant = "month" => Kept(planned),
         NEW event \in ToSet(input.events), NEW change \in ToSet(event.changes),
         NEW r \in AttributeRuns, Kept(r.closures), NEW e \in EventRuns, Alongside(r, e, event)
  PROVE  /\ Alongside(AttributedChange(r, event, change), EventChange(e, event, change), event)
         /\ AttributedChange(r, event, change).closures = r.closures
<1>1. PICK i, q, now : i = change.instrument /\ q = change.quantity /\ now = event.time
  OBVIOUS
<1>2. /\ r.book \in Books /\ e.book \in Books /\ Same(r.book, e.book) /\ r.owner = e.owner
      /\ r.closures \in Seq(ClosureRecs) /\ r.owner \in Owners
      /\ (event.kind # "ASSIGNMENT" => r.owner = NoCampaign) /\ r.book.ok = e.book.ok
  BY DEF Alongside, AttributeRuns, EventRuns, Same
<1>3. change \in ChangeRecords /\ i \in Instruments /\ q \in Int /\ change = [instrument |-> i, quantity |-> q]
  <2>1. input.events \in Seq(EventRecords)
    BY InputTypes
  <2>2. event \in EventRecords
    BY <2>1 DEF ToSet
  <2>3. event.changes \in Seq(ChangeRecords)
    BY <2>2 DEF EventRecords
  <2>4. change \in ChangeRecords
    BY <2>3 DEF ToSet
  <2> QED BY <1>1, <2>4 DEF ChangeRecords
<1>4. PICK start : start = [r.book EXCEPT !.taken = << >>]
  OBVIOUS
<1>5. start = [e.book EXCEPT !.taken = << >>] /\ start \in Books /\ Same(start, r.book)
  <2>1. Same(r.book, r.book)
    BY DEF Same
  <2> QED BY <1>2, <1>4, <2>1, SameReset, TakenReset, ResetIsSame
<1>6. PICK closed : closed = ApplyChange(start, change, now, NoCampaign)
  OBVIOUS
<1>7. PICK bound : bound = IF e.owner # NoCampaign /\ q < 0
                           THEN ClaimUnassigned(e.book, i, -q, e.owner) ELSE e.book
  OBVIOUS
<1>8. EventChange(e, event, change) =
        IF ~e.book.ok THEN e
        ELSE IF i \in Options
        THEN [book |-> closed, owner |-> OwnerOf(closed.taken, event.kind, e.owner)]
        ELSE [book |-> IF bound.ok THEN ApplyChange(bound, change, now, e.owner) ELSE bound,
              owner |-> e.owner]
  BY <1>1, <1>5, <1>6, <1>7 DEF EventChange
<1>9. CASE ~r.book.ok
  <2>1. AttributedChange(r, event, change) = r
    BY <1>9 DEF AttributedChange
  <2>2. EventChange(e, event, change) = e
    BY <1>2, <1>8, <1>9
  <2> QED BY <2>1, <2>2
<1>10. CASE r.book.ok /\ event.kind = "ASSIGNMENT" /\ i \in Options
  <2>1. PICK a : a = AttributedChange(r, event, change)
    OBVIOUS
  <2>2. a = AssignedOption(r, event, change)
    BY <1>1, <1>10, <2>1 DEF AttributedChange
  <2>3. a.book = closed /\ a.closures = r.closures /\ a.owner = OwnerOf(closed.taken, event.kind, r.owner)
    BY <1>1, <1>4, <1>6, <2>2 DEF AssignedOption
  <2>4. EventChange(e, event, change) = [book |-> closed, owner |-> OwnerOf(closed.taken, event.kind, e.owner)]
    BY <1>2, <1>8, <1>10
  <2>5. Same(closed, closed)
    BY DEF Same
  <2> QED BY <1>2, <1>10, <2>1, <2>3, <2>4, <2>5 DEF Alongside
<1>11. CASE r.book.ok /\ ~(event.kind = "ASSIGNMENT" /\ i \in Options)
  <2>1. PICK a, pending : /\ a = AttributedChange(r, event, change)
                          /\ pending = IF input.variant = "month" THEN planned ELSE r.closures
    OBVIOUS
  <2>2. a = OtherChange(r, event, change)
    BY <1>1, <1>11, <2>1 DEF AttributedChange
  <2>3. pending \in Seq(ClosureRecs) /\ Kept(pending)
    BY <1>2, <2>1
  <2>4. Units(event, change, pending) = q
    BY <1>1, <1>11, <2>3, UnitsWhole
  <2>5. PICK claimed, after :
          /\ claimed = IF event.kind = "ASSIGNMENT" /\ r.owner # NoCampaign /\ q < 0
                       THEN ClaimUnassigned(r.book, i, -q, r.owner) ELSE r.book
          /\ after = ApplyChange([claimed EXCEPT !.taken = << >>], change, now, r.owner)
    OBVIOUS
  <2>6. /\ q = 0 => a = r
        /\ q # 0 /\ ~claimed.ok => a.book = claimed /\ a.closures = r.closures /\ a.owner = r.owner
        /\ q # 0 /\ claimed.ok => a.book = after /\ a.closures = r.closures /\ a.owner = r.owner
    <3>1. /\ q = Units(event, change, IF input.variant = "month" THEN planned ELSE r.closures)
          /\ claimed = (IF event.kind = "ASSIGNMENT" /\ r.owner # NoCampaign /\ change.quantity < 0
                        THEN ClaimUnassigned(r.book, change.instrument, -change.quantity, r.owner)
                        ELSE r.book)
      BY <1>1, <2>1, <2>4, <2>5
    <3>2. after = ApplyChange([claimed EXCEPT !.taken = << >>],
                              [instrument |-> change.instrument, quantity |-> q], event.time, r.owner)
      BY <1>1, <1>3, <2>5
    <3>3. /\ q = 0 => OtherChange(r, event, change) = r
          /\ q # 0 /\ ~claimed.ok => Carries(OtherChange(r, event, change), claimed, r)
          /\ q # 0 /\ claimed.ok => Carries(OtherChange(r, event, change), after, r)
      BY <3>1, <3>2, OtherChangeIs
    <3> QED BY ONLY <2>2, <3>3 DEF Carries
  <2>7. a.closures = r.closures /\ a.owner = r.owner
    BY <2>6
  <2>8. CASE i \in Options
    <3>1. event.kind # "ASSIGNMENT" /\ r.owner = NoCampaign
      BY <1>2, <1>11, <2>8
    <3>2. claimed = r.book /\ after = closed
      BY <1>4, <1>6, <2>5, <3>1
    <3>3. PICK d : d = EventChange(e, event, change)
      OBVIOUS
    <3>4. d.book = closed /\ d.owner = OwnerOf(closed.taken, event.kind, e.owner)
      <4>1. d = [book |-> closed, owner |-> OwnerOf(closed.taken, event.kind, e.owner)]
        BY <1>2, <1>8, <1>11, <2>8, <3>3
      <4> QED BY <4>1
    <3>5. d.owner = r.owner
      BY <1>2, <3>1, <3>4 DEF OwnerOf
    <3>6. Same(a.book, closed)
      <4>1. CASE q = 0
        <5>1. Same(closed, start)
          BY <1>1, <1>3, <1>5, <1>6, <4>1, ChangeOfNothing
        <5> QED BY <1>5, <2>6, <4>1, <5>1 DEF Same
      <4>2. CASE q # 0
        BY <1>11, <2>6, <3>2, <4>2 DEF Same
      <4> QED BY <4>1, <4>2
    <3> QED BY <2>1, <2>7, <3>1, <3>3, <3>4, <3>5, <3>6 DEF Alongside
  <2>9. CASE i \notin Options
    <3>1. PICK d : d = EventChange(e, event, change)
      OBVIOUS
    <3>2. /\ d.book = IF bound.ok THEN ApplyChange(bound, change, now, e.owner) ELSE bound
          /\ d.owner = e.owner
      <4>1. PICK x : x = IF bound.ok THEN ApplyChange(bound, change, now, e.owner) ELSE bound
        OBVIOUS
      <4>2. d = [book |-> x, owner |-> e.owner]
        BY <1>2, <1>8, <1>11, <2>9, <3>1, <4>1
      <4> QED BY <4>1, <4>2
    <3>3. Same(claimed, bound) /\ claimed \in Books /\ bound \in Books
      <4>1. CASE r.owner # NoCampaign /\ q < 0
        <5>1. event.kind = "ASSIGNMENT" /\ -q \in Nat
          BY <1>2, <1>3, <4>1
        <5>2. claimed = ClaimUnassigned(r.book, i, -q, r.owner) /\ bound = ClaimUnassigned(e.book, i, -q, r.owner)
          BY <1>2, <1>7, <2>5, <4>1, <5>1
        <5> QED BY <1>2, <1>3, <5>1, <5>2, ClaimOfSame, ClaimUnassignedTypes
      <4>2. CASE ~(r.owner # NoCampaign /\ q < 0)
        <5>1. claimed = r.book /\ bound = e.book
          BY <1>2, <1>7, <2>5, <4>2
        <5> QED BY <1>2, <5>1
      <4> QED BY <4>1, <4>2
    <3>4. claimed.ok = bound.ok
      BY <3>3 DEF Same
    <3>5. Same(a.book, d.book)
      <4>1. CASE q = 0
        <5>1. bound = e.book
          BY <1>7, <4>1
        <5>2. d.book = ApplyChange(e.book, change, now, e.owner)
          BY <1>2, <1>11, <3>2, <5>1
        <5>3. Same(ApplyChange(e.book, change, now, e.owner), e.book)
          BY <1>1, <1>2, <1>3, <4>1, ChangeOfNothing
        <5>4. a = r
          BY <2>6, <4>1
        <5> QED BY <1>2, <5>2, <5>3, <5>4 DEF Same
      <4>2. CASE q # 0 /\ ~claimed.ok
        BY <2>6, <3>2, <3>3, <3>4, <4>2
      <4>3. CASE q # 0 /\ claimed.ok
        <5>1. PICK s : s = [claimed EXCEPT !.taken = << >>]
          OBVIOUS
        <5>2. s \in Books /\ Same(s, bound)
          BY <3>3, <5>1, TakenReset, ResetIsSame
        <5>3. Same(ApplyChange(s, change, now, r.owner), ApplyChange(bound, change, now, r.owner))
          BY <3>3, <5>2, ChangeOfSame
        <5> QED BY <1>2, <2>5, <2>6, <3>2, <3>4, <4>3, <5>1, <5>3
      <4> QED BY <4>1, <4>2, <4>3
    <3> QED BY <1>2, <2>1, <2>7, <3>1, <3>2, <3>5 DEF Alongside
  <2> QED BY <2>8, <2>9
<1> QED BY <1>9, <1>10, <1>11

LEMMA AttributedLegSame ==
  ASSUME input \in Inputs, NEW trade \in ToSet(input.trades), CampaignOf(trade) \in Owners,
         NEW k \in 1..Len(trade.legs), NEW r \in AttributeRuns, Kept(r.closures),
         NEW b \in Books, Same(r.book, b)
  PROVE  /\ Same(AttributedLeg(r, trade, trade.legs[k]).book,
                 ApplyLeg(b, trade.legs[k], trade.time, CampaignOf(trade)))
         /\ Kept(AttributedLeg(r, trade, trade.legs[k]).closures)
<1>1. PICK leg, now, day, c : /\ leg = trade.legs[k] /\ now = trade.time /\ day = Day(trade.time)
                              /\ c = CampaignOf(trade)
  OBVIOUS
<1>2. leg \in LegRecords /\ day \in Nat /\ (leg.effect = "CLOSE" => ClosedByTrade(leg.instrument))
  BY <1>1, LegsClose
<1>3. r.book \in Books /\ r.closures \in Seq(ClosureRecs)
  BY DEF AttributeRuns
<1>4. PICK a : a = AttributedLeg(r, trade, leg)
  OBVIOUS
<1>5. PICK s, after : s = [r.book EXCEPT !.taken = << >>] /\ after = ApplyLeg(s, leg, now, c)
  OBVIOUS
<1>6. PICK closing : closing = Activity(ClosedDay(leg, day, r.closures), leg.instrument, leg.quantity,
                                        Parts(after.taken, 1), Settled(leg, day, r.closures) # {}, day)
  OBVIOUS
<1>7. a = IF ~r.book.ok THEN r
          ELSE IF leg.effect # "CLOSE"
          THEN [book |-> after, closures |-> r.closures, found |-> r.found, owner |-> r.owner]
          ELSE [book |-> after, closures |-> AfterLeg(leg, day, r.closures),
                found |-> Append(r.found, closing), owner |-> r.owner]
  BY <1>1, <1>4, <1>5, <1>6 DEF AttributedLeg
<1>8. CASE ~r.book.ok
  <2>1. a = r
    BY <1>7, <1>8
  <2>2. ~b.ok
    BY <1>8 DEF Same
  <2>3. ApplyLeg(b, leg, now, c) = b
    BY <2>2 DEF ApplyLeg
  <2> QED BY <1>1, <1>4, <2>1, <2>3
<1>9. CASE r.book.ok
  <2>1. s \in Books /\ Same(s, b)
    BY <1>3, <1>5, TakenReset, ResetIsSame
  <2>2. Same(after, ApplyLeg(b, leg, now, c))
    BY <1>2, <1>5, <2>1, LegOfSame
  <2>3. a.book = after
    BY <1>7, <1>9
  <2>4. a.closures = IF leg.effect # "CLOSE" THEN r.closures ELSE AfterLeg(leg, day, r.closures)
    BY <1>7, <1>9
  <2>5. Kept(AfterLeg(leg, day, r.closures))
    BY <1>2, <1>3, AfterLegKeeps
  <2> QED BY <1>1, <1>4, <2>2, <2>3, <2>4, <2>5
<1> QED BY <1>8, <1>9

\* One item: the attributor's book goes where the period applier's went.
LEMMA AttributedTradeSame ==
  ASSUME input \in Inputs, NEW trade \in ToSet(input.trades), trade \in TradeRecords,
         CampaignOf(trade) \in Owners,
         NEW start \in AttributeRuns, Kept(start.closures)
  PROVE  /\ Same(AttributedTrade(start, trade).book, ApplyTrade(start.book, trade, CampaignOf(trade)))
         /\ Kept(AttributedTrade(start, trade).closures)
<1>1. PICK n, c : n = Len(trade.legs) /\ c = CampaignOf(trade)
  OBVIOUS
<1>2. n \in Nat /\ start.book \in Books /\ c \in Owners
  BY <1>1 DEF TradeRecords, AttributeRuns
<1>3. PICK f \in [0..n -> AttributeRuns] :
        /\ f[0] = start
        /\ \A k \in 1..n : f[k] = AttributedLeg(f[k - 1], trade, trade.legs[k])
        /\ AttributedTrade(start, trade) = f[n]
  BY <1>1, AttributedTradeLoop
<1>4. PICK g \in [0..n -> Books] :
        /\ g[0] = start.book
        /\ \A k \in 1..n : g[k] = ApplyLeg(g[k - 1], trade.legs[k], trade.time, c)
        /\ ApplyTrade(start.book, trade, c) = g[n]
  BY <1>1, <1>2, ApplyTradeLoop, SMTT(40), ZenonT(60)
<1> DEFINE S == { k \in 0..n : Same(f[k].book, g[k]) /\ Kept(f[k].closures) }
<1>5. 0 \in S
  BY <1>2, <1>3, <1>4 DEF Same
<1>6. ASSUME NEW k \in 1..n, k - 1 \in S PROVE k \in S
  <2>1. k - 1 \in 0..n /\ k \in 0..n /\ k \in 1..Len(trade.legs)
    BY <1>1, <1>2
  <2>2. PICK r, b : r = f[k - 1] /\ b = g[k - 1]
    OBVIOUS
  <2>3. r \in AttributeRuns /\ b \in Books
    BY <2>1, <2>2
  <2>4. Same(r.book, b) /\ Kept(r.closures)
    BY <1>6, <2>2
  <2>5. /\ Same(AttributedLeg(r, trade, trade.legs[k]).book,
                ApplyLeg(b, trade.legs[k], trade.time, CampaignOf(trade)))
        /\ Kept(AttributedLeg(r, trade, trade.legs[k]).closures)
    BY <2>1, <2>3, <2>4, AttributedLegSame
  <2>6. /\ f[k] = AttributedLeg(r, trade, trade.legs[k])
        /\ g[k] = ApplyLeg(b, trade.legs[k], trade.time, CampaignOf(trade))
    BY <1>1, <1>3, <1>4, <2>2
  <2> QED BY <2>1, <2>5, <2>6
<1>7. n \in S
  <2>1. n \in 0..n
    BY <1>2
  <2> HIDE DEF S
  <2> QED BY <1>2, <1>5, <1>6, <2>1, Upward
<1> QED BY <1>1, <1>3, <1>4, <1>7

LEMMA AttributedEventSame ==
  ASSUME input \in Inputs, Alike, planned \in Seq(ClosureRecs),
         input.variant = "month" => Kept(planned),
         NEW event \in ToSet(input.events), event \in EventRecords,
         NEW start \in AttributeRuns, Kept(start.closures), start.owner = NoCampaign
  PROVE  /\ Same(AttributedEvent(start, event).book, ApplyEvent(start.book, event))
         /\ Kept(AttributedEvent(start, event).closures)
<1>1. PICK n : n = Len(event.changes)
  OBVIOUS
<1>2. /\ n \in Nat /\ start.book \in Books /\ DOMAIN event.changes = 1..n
  BY <1>1 DEF EventRecords, AttributeRuns
<1>3. PICK f \in [0..n -> AttributeRuns] :
        /\ f[0] = start
        /\ \A k \in 1..n : f[k] = AttributedChange(f[k - 1], event, event.changes[k])
        /\ AttributedEvent(start, event) = f[n]
  BY <1>1, AttributedEventLoop
<1>4. PICK g \in [0..n -> EventRuns] :
        /\ g[0] = [book |-> start.book, owner |-> NoCampaign]
        /\ \A k \in 1..n : g[k] = EventChange(g[k - 1], event, event.changes[k])
        /\ ApplyEvent(start.book, event) = g[n].book
  BY <1>1, <1>2, ApplyEventLoop
<1> DEFINE S == { k \in 0..n : Alongside(f[k], g[k], event) /\ Kept(f[k].closures) }
<1>5. 0 \in S
  <2>1. Same(start.book, start.book) /\ g[0].book = start.book /\ g[0].owner = NoCampaign
    BY <1>4 DEF Same
  <2> QED BY <1>2, <1>3, <2>1 DEF Alongside
<1>6. ASSUME NEW k \in 1..n, k - 1 \in S PROVE k \in S
  <2>1. k - 1 \in 0..n /\ k \in 0..n
    BY <1>2
  <2>2. PICK r, e, change : r = f[k - 1] /\ e = g[k - 1] /\ change = event.changes[k]
    OBVIOUS
  <2>3. r \in AttributeRuns /\ e \in EventRuns
    BY <2>1, <2>2
  <2>4. Alongside(r, e, event) /\ Kept(r.closures)
    BY <1>6, <2>2
  <2>5. change \in ToSet(event.changes)
    BY <1>2, <2>2 DEF ToSet
  <2>6. /\ Alongside(AttributedChange(r, event, change), EventChange(e, event, change), event)
        /\ AttributedChange(r, event, change).closures = r.closures
    BY <2>3, <2>4, <2>5, AttributedChangeSame
  <2>7. f[k] = AttributedChange(r, event, change) /\ g[k] = EventChange(e, event, change)
    BY <1>3, <1>4, <2>2
  <2> QED BY <2>1, <2>4, <2>6, <2>7
<1>7. n \in S
  <2>1. n \in 0..n
    BY <1>2
  <2> HIDE DEF S
  <2> QED BY <1>2, <1>5, <1>6, <2>1, Upward
<1> QED BY <1>3, <1>4, <1>7 DEF Alongside

LEMMA AttributedIsReplayed ==
  ASSUME input \in Inputs, Alike, book \in Books, closures \in Seq(ClosureRecs),
         activities \in Seq(Closings), planned \in Seq(ClosureRecs),
         Kept(closures), input.variant = "month" => Kept(planned),
         NEW n \in 1..Len(PositionItems), NEW item, item = PositionItems[n]
  PROVE  /\ [Attributed(item).book EXCEPT !.taken = << >>] = Replayed(book, item)
         /\ Attributed(item).book.ok = AppliedItem(book, item).ok
         /\ Kept(Attributed(item).closures)
<1>1. PICK start, a, d : /\ start = [book |-> book, closures |-> closures, found |-> activities,
                                     owner |-> NoCampaign]
                         /\ a = Attributed(item) /\ d = AppliedItem(book, item)
  OBVIOUS
<1>2. /\ start \in AttributeRuns /\ start.book = book /\ Kept(start.closures)
      /\ start.owner = NoCampaign
  BY <1>1 DEF AttributeRuns, Owners
<1>3. IF IsTrade(item)
      THEN item \in ToSet(input.trades) /\ item \in TradeRecords /\ CampaignOf(item) \in Campaigns
      ELSE item \in ToSet(input.events) /\ item \in EventRecords
  BY PositionItemSources
<1>4. a \in AttributeRuns /\ d \in Books
  <2>1. IF IsTrade(item) THEN item \in TradeRecords /\ CampaignOf(item) \in Owners
        ELSE item \in EventRecords
    BY <1>3 DEF Owners
  <2>2. IsItem(item)
    BY <2>1 DEF IsItem
  <2> QED BY <1>1, <2>1, <2>2, AttributedTypes, ReplayedTypes
<1>5. Same(a.book, d) /\ Kept(a.closures)
  <2>1. CASE IsTrade(item)
    <3>1. a = AttributedTrade(start, item) /\ d = ApplyTrade(book, item, CampaignOf(item))
      BY <1>1, <2>1 DEF Attributed, AppliedItem
    <3>2. item \in ToSet(input.trades) /\ item \in TradeRecords /\ CampaignOf(item) \in Owners
      BY <1>3, <2>1 DEF Owners
    <3> QED BY <1>2, <3>1, <3>2, AttributedTradeSame
  <2>2. CASE ~IsTrade(item)
    <3>1. a = AttributedEvent(start, item) /\ d = ApplyEvent(book, item)
      BY <1>1, <2>2 DEF Attributed, AppliedItem
    <3>2. item \in ToSet(input.events) /\ item \in EventRecords
      BY <1>3, <2>2
    <3> QED BY <1>2, <3>1, <3>2, AttributedEventSame
  <2> QED BY <2>1, <2>2
<1>6. a.book \in Books
  BY <1>4 DEF AttributeRuns
<1>7. [a.book EXCEPT !.taken = << >>] = [d EXCEPT !.taken = << >>]
  BY <1>4, <1>5, <1>6, SameReset
<1> QED BY <1>1, <1>5, <1>7 DEF Same, Replayed

-----------------------------------------------------------------------------
\* While the attributor replays the history of a month on which the two are
\* alike, it is somewhere in the import's replay.
Following ==
  Alike =>
    /\ stage = "attribute" =>
         Journaling /\ Kept(closures) /\ (input.variant = "month" => Kept(planned))
    /\ stage = "match" => book = ending

LEMMA AlikeOfInput ==
  ASSUME input' = input
  PROVE  /\ Alike' <=> Alike
         /\ Kept(closures') => Kept(closures)'
         /\ Kept(planned') => Kept(planned)'
<1>1. MonthCampaigns' = MonthCampaigns /\ AttributedEvents' = AttributedEvents
  BY DEF MonthCampaigns, AttributedEvents
<1>2. \A trade : CampaignOf(trade)' = CampaignOf(trade)
  BY <1>1 DEF CampaignOf
<1>3. \A i : ClosedByTrade(i)' <=> ClosedByTrade(i)
  BY DEF ClosedByTrade
<1>4. Alike' <=> Alike
  BY <1>2, <1>3 DEF Alike
<1>5. Kept(closures') => Kept(closures)'
  BY <1>1, <1>3 DEF Kept
<1>6. Kept(planned') => Kept(planned)'
  BY <1>1, <1>3 DEF Kept
<1> QED BY <1>4, <1>5, <1>6

LEMMA InitFollowing == Init => Following
BY DEF Init, Following

LEMMA NextFollowing == Typed /\ Retraced /\ Following /\ [Next]_vars => Following'
<1> SUFFICES ASSUME Typed, Retraced, Following, [Next]_vars, Alike' PROVE
               /\ stage' = "attribute" =>
                    /\ Journaling' /\ Kept(closures)'
                    /\ input'.variant = "month" => Kept(planned)'
               /\ stage' = "match" => book' = ending'
  BY DEF Following
<1>1. /\ input \in Inputs /\ at \in Nat \ {0} /\ book \in Books
      /\ closures \in Seq(ClosureRecs) /\ planned \in Seq(ClosureRecs)
      /\ activities \in Seq(Closings)
  BY DEF Typed
<1>2. Len(PositionItems) \in Nat
  BY <1>1, PositionItemTypes
<1>3. input' = input
  BY DEF Next, ApplyItem, StartAttribution, AttributeItem, StartMatching, MatchRecord, StartJournal,
         JournalItem, CheckJournal, Finished, vars
<1>4. /\ PositionItems' = PositionItems /\ Len(PositionItems)' = Len(PositionItems)
      /\ \A f, n : IsReplay(f, n)' <=> IsReplay(f, n)
  BY <1>3, ReplayOfInput
<1>5. /\ Alike
      /\ Kept(closures') => Kept(closures)'
      /\ Kept(planned') => Kept(planned)'
  BY <1>3, AlikeOfInput
<1>6. AttributedItems = PositionItems
  BY <1>1, <1>5, ItemsAgree
<1>7. ASSUME StartAttribution
      PROVE  /\ stage' \in {"attribute", "refused"}
             /\ Journaling' /\ Kept(closures)' /\ (input'.variant = "month" => Kept(planned)')
  <2>1. /\ stage = "apply" /\ at > Len(PositionItems) /\ ending' = book /\ book' = Fresh /\ at' = 1
        /\ closures' = ClosuresOf(AttributedEvents)
        /\ planned' = IF input.variant = "month" THEN Planned ELSE << >>
        /\ \E mixed \in { m \in BOOLEAN : m => DOMAIN input.alias # {} } :
             Continue(~AliasAmbiguous /\ ~mixed, "attribute", "alias")
    BY <1>7 DEF StartAttribution
  <2>2. stage' \in {"attribute", "refused"}
    BY <2>1 DEF Continue, Refuse
  <2>3. PICK f, n : /\ n \in 0..Len(PositionItems) /\ n = at - 1
                    /\ IsReplay(f, n) /\ f[n] = book
    BY <2>1 DEF Retraced, Importing
  <2>4. n = Len(PositionItems)
    BY <1>1, <1>2, <2>1, <2>3
  <2>5. 0 \in 0..n /\ f[0] = Fresh
    BY <1>2, <2>3, <2>4 DEF IsReplay
  <2>6. /\ n = Len(PositionItems)' /\ 0 = at' - 1 /\ IsReplay(f, n)'
        /\ f[n] = ending' /\ f[0] = book'
    BY <1>4, <2>1, <2>3, <2>4, <2>5
  <2>7. Journaling'
    BY <2>5, <2>6 DEF Journaling
  <2>8. Kept(closures)'
    BY <1>5, <2>1, FoundAreKept
  <2>9. input'.variant = "month" => Kept(planned)'
    BY <1>1, <1>3, <1>5, <2>1, PlannedKeeps
  <2> QED BY <2>2, <2>7, <2>8, <2>9
<1>8. ASSUME AttributeItem
      PROVE  /\ stage' \in {"attribute", "refused"}
             /\ Journaling' /\ Kept(closures)' /\ (input'.variant = "month" => Kept(planned)')
  <2>1. /\ stage = "attribute" /\ at <= Len(PositionItems) /\ at' = at + 1
        /\ ending' = ending /\ planned' = planned
    BY <1>6, <1>8 DEF AttributeItem
  <2>2. PICK item, r : item = PositionItems[at] /\ r = Attributed(item)
    OBVIOUS
  <2>3. /\ book' = [r.book EXCEPT !.taken = << >>] /\ closures' = r.closures
        /\ Continue(r.book.ok, "attribute", "attribution")
    BY <1>6, <1>8, <2>2 DEF AttributeItem
  <2>4. Journaling /\ Kept(closures) /\ (input.variant = "month" => Kept(planned))
    BY <1>5, <2>1 DEF Following
  <2>5. PICK f, m, n : /\ m = Len(PositionItems) /\ n \in 0..m /\ n = at - 1
                       /\ IsReplay(f, m) /\ f[m] = ending /\ f[n] = book
    BY <2>4 DEF Journaling
  <2>6. at \in 1..Len(PositionItems) /\ at \in 0..Len(PositionItems) /\ at' - 1 = at
    BY <1>1, <1>2, <2>1
  <2>7. book' = Replayed(book, item) /\ Kept(r.closures)
    BY <1>1, <1>5, <2>2, <2>3, <2>4, <2>6, AttributedIsReplayed
  <2>8. f[at] = Replayed(f[at - 1], PositionItems[at])
    BY <2>5, <2>6 DEF IsReplay
  <2>9. f[at] = book'
    BY <2>2, <2>5, <2>7, <2>8
  <2>10. stage' \in {"attribute", "refused"}
    BY <2>1, <2>3 DEF Continue, Refuse
  <2>11. PICK k : k = at
    OBVIOUS
  <2>12. /\ m = Len(PositionItems)' /\ k \in 0..m /\ k = at' - 1 /\ IsReplay(f, m)'
         /\ f[m] = ending' /\ f[k] = book'
    BY <1>4, <2>1, <2>5, <2>6, <2>9, <2>11
  <2>13. Journaling'
    BY <2>12 DEF Journaling
  <2>14. Kept(closures)' /\ (input'.variant = "month" => Kept(planned)')
    BY <1>3, <1>5, <2>1, <2>3, <2>4, <2>7
  <2> QED BY <2>10, <2>13, <2>14
<1>9. ASSUME StartMatching PROVE stage' = "match" /\ book' = ending'
  <2>1. /\ stage = "attribute" /\ at > Len(PositionItems) /\ stage' = "match"
        /\ book' = book /\ ending' = ending
    BY <1>6, <1>9 DEF StartMatching
  <2>2. PICK f, m, n : /\ m = Len(PositionItems) /\ n \in 0..m /\ n = at - 1
                       /\ f[m] = ending /\ f[n] = book
    BY <1>5, <2>1 DEF Following, Journaling
  <2>3. n = m
    BY <1>1, <1>2, <2>1, <2>2
  <2> QED BY <2>1, <2>2, <2>3
<1>10. ASSUME MatchRecord PROVE stage' \in {"match", "refused"} /\ book' = ending'
  <2>1. stage = "match" /\ book' = book /\ ending' = ending
    BY <1>10 DEF MatchRecord
  <2>2. stage' \in {"match", "refused"}
    BY <1>10, <2>1 DEF MatchRecord, Continue, Refuse
  <2> QED BY <1>5, <2>1, <2>2 DEF Following
<1>11. ASSUME ApplyItem \/ StartJournal \/ JournalItem \/ CheckJournal
       PROVE  stage' \notin {"attribute", "match"}
  BY <1>11 DEF ApplyItem, StartJournal, JournalItem, CheckJournal, Continue, Refuse
<1>12. CASE UNCHANGED vars
  <2>1. /\ stage' = stage /\ at' = at /\ book' = book /\ ending' = ending
        /\ closures' = closures /\ planned' = planned
    BY <1>12 DEF vars, attribution
  <2>2. Journaling => Journaling'
    BY <1>4, <2>1 DEF Journaling
  <2> QED BY <1>3, <1>5, <2>1, <2>2 DEF Following
<1> QED BY <1>7, <1>8, <1>9, <1>10, <1>11, <1>12 DEF Next, Finished

\* attribute_period_realized_pnl and the period applier: on a month that gives
\* both the same trades and events, the attributor's replay ends with the lots
\* of the ending book.
THEOREM AttributionFollowsTheImport == Spec => []ReplaysAgree
<1>1. Following => ReplaysAgree
  BY DEF Following, ReplaysAgree
<1>2. Spec => []Following
  BY InitFollowing, NextFollowing, AlwaysTyped, AlwaysRetraced, PTL DEF Spec
<1> QED BY <1>1, <1>2, PTL
=============================================================================
