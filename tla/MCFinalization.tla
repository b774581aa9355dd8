--------------------------- MODULE MCFinalization ---------------------------
\* TLC instances of MonthlyImportExecution.
EXTENDS MonthlyImportExecution, FiniteSets, TLC

\* Accepted exceptionally, so that the next month verifies its deliveries.
MCExceptional == { [exceptional |-> TRUE, crypto |-> FALSE, audit |-> TRUE] }

\* Two runs of one month that differ in every optional artifact.
MCOutcomes ==
  { [exceptional |-> FALSE, crypto |-> TRUE,  audit |-> TRUE],
    [exceptional |-> TRUE,  crypto |-> FALSE, audit |-> FALSE] }

\* The tabs of the wizard are interchangeable.
MCSymmetry == Permutations(Wizards)
=============================================================================
