------------------------------ MODULE MCReplay ------------------------------
(* Small instances of PeriodReplay. *)
EXTENDS PeriodReplay, TLC

CONSTANTS call, put, adjusted, stock, plain, pair, c1, c2

MCUnderlying == [o \in Options |-> stock]
MCNamesake == [p \in ForexPairs |-> plain]
MCSplits == { s \in { [old |-> call, new |-> adjusted, ratio |-> 2] } : s.new \in Options }

\* Shares bought before the data, or none.
MCSnapshotRows == { [instrument |-> stock, quantity |-> 2] }

CampaignSymmetry == Permutations(Campaigns)
=============================================================================
