--------------------------- MODULE CampaignContinuity --------------------------
(***************************************************************************)
(* A month imported on the lots carried from the month before, without     *)
(* history (import_pipeline.py, preserve_carried_state;                    *)
(* domain/campaign_continuity.py).  The month is replayed on a clone with  *)
(* a campaign of its own for every trade; the lots a trade closes link it  *)
(* to the trades and carried campaigns they come from, and each connected  *)
(* part takes one identity.  Then the month is replayed with those.        *)
(*                                                                         *)
(* Splits and fractions of a contract are left out.                        *)
(***************************************************************************)
EXTENDS OpeningReconstruction

CONSTANTS
  CarriedInputs,   \* as Inputs, with "origins": the lots of unknown campaign
                   \* that documents account for, or NoOrigins
  NoOrigins

\* Events are option assignments and option expirations of the month.
ASSUME ContinuityAssumption ==
  \A in \in CarriedInputs :
    /\ in.source.carried /\ in.archive = {} /\ in.pending = {} /\ in.expired = {}
    /\ \A x \in in.period \cup in.assigned : x.time >= PeriodStart

VARIABLE
  plan   \* what the replay on the clone has found

continuityVars == << vars, plan >>

NoPlan == [todo |-> << >>]

Token(k) == CampaignId("TRADE", k)
EventNode(k) == CampaignId("EVENT", k)

Tokens == { Token(k) : k \in DOMAIN Period }

\* The items of the position history: trade k of the month, or an event.
TradeItem(k) == [time |-> Period[k].time, trade |-> k, event |-> 0]
EventsInOrder == InOrder(input.assigned)
EventItem(k) == [time |-> EventsInOrder[k].time, trade |-> 0, event |-> k]

Items ==
  SetToSortSeq({ TradeItem(k) : k \in DOMAIN Period } \cup { EventItem(k) : k \in DOMAIN EventsInOrder },
               LAMBDA a, b : a.time < b.time \/ (a.time = b.time /\ a.event < b.event))

LotsOf(b) == UNION { ToSet(b.lots[i]) : i \in Instruments }

CampaignsOf(b) == { lot.campaign : lot \in LotsOf(b) } \ {NoCampaign}

Unknown(b) == { lot \in LotsOf(b) : lot.campaign = NoCampaign }

Carried == CampaignsOf(Opening(input.source))

Start ==
  [todo |-> Items, book |-> Opening(input.source), edges |-> {}, tainted |-> {}, findings |-> {},
   documented |-> {}, delivered |-> << >>, covering |-> << >>]

ContinuityInit ==
  \/ Init /\ plan = NoPlan
  \/ /\ input \in CarriedInputs /\ parsed = Parsed(input)
     /\ pass = 2 /\ stage = "continuity" /\ report = Nothing
     /\ book = Opening(input.source) /\ plan = Start

-----------------------------------------------------------------------------
LinksCalls == input.origins # NoOrigins

Documented == IF LinksCalls THEN input.origins ELSE {}

\* The unknown lots of a book that a later one holds less of.
Left(b, id) ==
  LET now == { lot \in LotsOf(b) : lot.id = id }
  IN IF now = {} THEN 0 ELSE Magnitude((CHOOSE lot \in now : TRUE).quantity)

Spent(before, after) ==
  { lot.id : lot \in { x \in Unknown(before) : Left(after, x.id) < Magnitude(x.quantity) } }

CallsOn(b, s) == FlattenSeq(SetToSeq({ b.lots[o] : o \in { c \in Calls : Underlying[c] = s } }))

OwnersOf(ls) == { lot.campaign : lot \in ToSet(ls) }

\* Mutation of Covered: calls sold before do not use up the shares.
CoveredAlone(leg, now) ==
  LET shares == plan.book.lots[Underlying[leg.instrument]]
      calls == CallsOn(plan.book, Underlying[leg.instrument])
  IN /\ shares # << >> /\ Cardinality(OwnersOf(shares)) = 1 /\ NoCampaign \notin OwnersOf(shares)
     /\ \A lot \in ToSet(shares) :
          lot.quantity > 0 /\ lot.id \in DOMAIN plan.delivered /\ plan.delivered[lot.id] < now
     /\ \A lot \in ToSet(calls) :
          /\ lot.quantity < 0 /\ lot.campaign \in DOMAIN plan.covering
          /\ {plan.covering[lot.campaign]} = OwnersOf(shares)
     /\ leg.quantity * PerContract <= SumQuantities(shares)

\* A short call sold over shares that an assignment of this month delivered to
\* one campaign, as many as are left beside the calls sold so before.
Covered(leg, now) ==
  LET shares == plan.book.lots[Underlying[leg.instrument]]
      calls == CallsOn(plan.book, Underlying[leg.instrument])
  IN /\ shares # << >> /\ Cardinality(OwnersOf(shares)) = 1 /\ NoCampaign \notin OwnersOf(shares)
     /\ \A lot \in ToSet(shares) :
          lot.quantity > 0 /\ lot.id \in DOMAIN plan.delivered /\ plan.delivered[lot.id] < now
     /\ \A lot \in ToSet(calls) :
          /\ lot.quantity < 0 /\ lot.campaign \in DOMAIN plan.covering
          /\ {plan.covering[lot.campaign]} = OwnersOf(shares)
     /\ (leg.quantity + TotalSize(calls)) * PerContract <= SumQuantities(shares)

Anchors(trade) ==
  IF LinksCalls /\ Len(trade.legs) = 1
  THEN LET leg == trade.legs[1]
       IN IF leg.instrument \in Calls /\ leg.side = "SELL" /\ leg.effect = "OPEN"
             /\ Covered(leg, trade.time)
          THEN OwnersOf(plan.book.lots[Underlying[leg.instrument]]) ELSE {}
  ELSE {}

\* The clone's replay ends with the history or where it raises.
Planning == stage = "continuity" /\ plan.todo # << >> /\ "replay" \notin plan.findings

\* One trade on the clone: its allocations become links.
PlanTrade ==
  /\ Planning /\ Head(plan.todo).trade # 0
  /\ LET k == Head(plan.todo).trade
         trade == Period[k]
         anchors == Anchors(trade)
         after == ApplyTrade([plan.book EXCEPT !.taken = << >>], trade, Token(k))
         unknown == { lot.id : lot \in Unknown(plan.book) }
         closed == { a \in ToSet(after.taken) : a.id \notin unknown }
         spent == Spent(plan.book, after) \ Documented
         covering == IF anchors = {} THEN plan.covering
                     ELSE plan.covering @@ (Token(k) :> CHOOSE c \in anchors : TRUE)
         anchored == [plan EXCEPT !.covering = covering,
                                  !.edges = @ \cup { {Token(k), c} : c \in anchors }]
     IN plan' =
          IF ~after.ok
          THEN [anchored EXCEPT !.findings = @ \cup {"replay"}, !.tainted = @ \cup {Token(k)}]
          ELSE [anchored EXCEPT
                  !.todo = Tail(@), !.book = after,
                  !.edges = @ \cup { {Token(k), a.campaign} : a \in closed },
                  !.findings = @ \cup (IF spent = {} THEN {} ELSE {"unknown"}),
                  !.tainted = IF spent # {} \/ \E a \in closed : a.campaign \in @
                              THEN @ \cup {Token(k)} ELSE @,
                  !.documented = IF \E a \in ToSet(after.taken) : a.id \in unknown \cap Documented
                                 THEN @ \cup {Token(k)} ELSE @]
  /\ UNCHANGED << input, parsed, pass, stage, book, report >>

\* The options an event closes are there; what it delivers is theirs.
Deliverable(e) ==
  \A change \in ToSet(e.changes) :
    change.instrument \in Options =>
      change.quantity # 0 /\ Available(plan.book, change.instrument, change.quantity) >= Magnitude(change.quantity)

ClosedByEvent(e) ==
  LET probe == FoldLeft(LAMBDA b, change : ApplyChange(b, change, e.time, NoCampaign),
                        [plan.book EXCEPT !.taken = << >>],
                        SelectSeq(e.changes, LAMBDA change : change.instrument \in Options))
  IN { a.campaign : a \in ToSet(probe.taken) } \ {NoCampaign}

\* One event on the clone: an assignment joins the campaigns of its options.
PlanEvent ==
  /\ Planning /\ Head(plan.todo).event # 0
  /\ LET k == Head(plan.todo).event
         e == EventsInOrder[k]
         after == ApplyEvent(plan.book, e)
         old == { lot.id : lot \in LotsOf(plan.book) }
         new == { lot \in UNION { ToSet(after.lots[i]) : i \in Instruments \ Options } :
                    lot.id \notin old /\ lot.quantity > 0 /\ lot.campaign # NoCampaign }
         assigned == e.kind = "ASSIGNMENT"
         links == IF assigned THEN { {EventNode(k), c} : c \in ClosedByEvent(e) } ELSE {}
         stopped == [plan EXCEPT !.findings = @ \cup {"replay"}]
     IN plan' =
          IF ~Deliverable(e) THEN stopped
          ELSE IF ~after.ok THEN [stopped EXCEPT !.edges = @ \cup links]
          ELSE [plan EXCEPT
                  !.todo = Tail(@), !.book = after, !.edges = @ \cup links,
                  !.findings = @ \cup (IF Spent(plan.book, after) = {} THEN {} ELSE {"unknown"}),
                  !.delivered = IF LinksCalls /\ assigned
                                THEN @ @@ [id \in { lot.id : lot \in new } |-> e.time] ELSE @]
  /\ UNCHANGED << input, parsed, pass, stage, book, report >>

-----------------------------------------------------------------------------
(***************************************************************************)
(* The identity of a connected part.                                       *)
(***************************************************************************)
Part(n) ==
  LET Grow(S) == S \cup UNION { pair \in plan.edges : pair \cap S # {} }
  IN FoldLeft(LAMBDA S, i : Grow(S), {n}, [i \in 1..Cardinality(plan.edges) |-> i])

TradeOf(n) == Period[n.number]

SourceIds(part) == { OwnCampaign(TradeOf(n)) : n \in part \cap Tokens }

Symbols(part) ==
  UNION { { SymbolOf(leg.instrument) : leg \in ToSet(TradeOf(n).legs) } : n \in part \cap Tokens }
  \cup { SymbolOf(i) : i \in { x \in Instruments :
           \E lot \in ToSet(input.source.lots[x]) : lot.campaign \in part } }

\* Also the mutation of PartFindings that joins campaigns of the month.
PartFindingsOfCarried(part) ==
  LET old == part \cap Carried
  IN (IF Cardinality(Symbols(part)) # 1 THEN {"symbols"} ELSE {})
     \cup (IF part \cap plan.documented # {} /\ Cardinality(old) # 1 THEN {"documented"} ELSE {})
     \cup (IF Cardinality(old) > 1 THEN {"merge"} ELSE {})

PartFindings(part) ==
  LET old == part \cap Carried
  IN PartFindingsOfCarried(part)
     \cup (IF old = {} /\ Cardinality(SourceIds(part)) > 1 THEN {"merge new"} ELSE {})

Target(k) ==
  LET old == Part(Token(k)) \cap Carried
  IN IF Cardinality(old) = 1 THEN CHOOSE c \in old : TRUE ELSE OwnCampaign(Period[k])

Visited(k) == \A item \in ToSet(plan.todo) : item.trade # k

\* supported_by_fifo of a trade's binding.
Supported(k) ==
  Visited(k) /\ Token(k) \notin plan.tainted /\ PartFindings(Part(Token(k))) = {}

Findings ==
  plan.findings \cup UNION { PartFindings(Part(n)) : n \in Carried \cup Tokens }

\* A plan with findings raises CampaignContinuityError; its bindings are kept.
FinishPlan ==
  /\ stage = "continuity" /\ ~Planning
  /\ stage' = IF Findings = {} THEN "carried" ELSE "blocked"
  /\ UNCHANGED << input, parsed, pass, book, report, plan >>

\* apply_with_lifecycle with the campaigns of the plan; "closes" keeps what
\* every trade closed.
Replayed ==
  LET Step(r, item) ==
        IF ~r.book.ok THEN r
        ELSE IF item.event # 0
        THEN [r EXCEPT !.book = ApplyEvent(r.book, EventsInOrder[item.event])]
        ELSE LET after == ApplyTrade([r.book EXCEPT !.taken = << >>], Period[item.trade], Target(item.trade))
             IN [book |-> after,
                 closes |-> r.closes \cup { << item.trade, a >> : a \in ToSet(after.taken) }]
  IN FoldLeft(Step, [book |-> Opening(input.source), closes |-> {}], Items)

ReplayCarried ==
  /\ stage = "carried"
  /\ stage' = IF Replayed.book.ok THEN "replayed" ELSE "raised"
  /\ UNCHANGED << input, parsed, pass, book, report, plan >>

Ended == stage \in {"blocked", "replayed", "raised"} /\ UNCHANGED continuityVars

ContinuityNext ==
  \/ Next /\ UNCHANGED plan
  \/ PlanTrade \/ PlanEvent \/ FinishPlan \/ ReplayCarried \/ Ended

ContinuitySpec == ContinuityInit /\ [][ContinuityNext]_continuityVars

-----------------------------------------------------------------------------
\* "An atomic connected component still cannot merge carried IDs or invent
\* unknown ancestry" (campaign_continuity.py:59).  The plan is made in one replay
\* and used in another, under other campaigns: a plan without findings supports
\* every trade, and in the second replay too a trade closes only lots of its own
\* campaign.
ContinuityFollowsTheLots ==
  stage = "carried" =>
    /\ \A k \in DOMAIN Period : Supported(k)
    /\ \A << k, a >> \in Replayed.closes : a.campaign = Target(k)

DeliveredShares(s) ==
  FoldSet(LAMBDA e, sum :
            FoldSeq(LAMBDA change, n : IF change.instrument = s /\ change.quantity > 0
                                       THEN n + change.quantity ELSE n, sum, e.changes),
          0, input.assigned)

\* Calls that are linked because assigned shares cover them never need more
\* shares than were delivered, however many fills they were sold in
\* (link_assignment_calls, campaign_continuity.py:194).
CoverIsNotUsedTwice ==
  stage = "continuity" =>
    \A s \in Equities :
      LET linked == SelectSeq(CallsOn(plan.book, s), LAMBDA lot : lot.campaign \in DOMAIN plan.covering)
      IN TotalSize(linked) * PerContract <= DeliveredShares(s)
=============================================================================
