------------------------------ MODULE MCBackfill ------------------------------
(* A small instance of LocalBackfill. *)
EXTENDS LocalBackfill, TLC

CONSTANTS january, february, s1, s2

MCMonthOf == (s1 :> january) @@ (s2 :> february)

Activity(by, from, takes, opens) ==
  [by |-> by, from |-> from, takes |-> takes, opens |-> opens,
   into |-> IF by = "assignment" THEN "shares" ELSE from]

\* Nothing; an option opened, closed, rolled, two rolled into one; a delivery;
\* shares sold.
MCActivities ==
  { Activity("trade", "option", n, m) : n \in 0..1, m \in 0..1 }
  \cup { Activity("trade", "option", 2, 1), Activity("assignment", "option", 1, 1),
          Activity("trade", "shares", 1, 0) }

MCInventories == { c \in [Kinds -> 0..2] : c["option"] + c["shares"] <= 2 }

\* What the restored copy's drafts are makes no difference to its commands.
MCInit ==
  BackfillInit /\ (server = "campaigniq_restore" => \A d \in AllDrafts : drafts[d] = Missing)

MCSpec == MCInit /\ [][BackfillNext]_backfillVars
=============================================================================
