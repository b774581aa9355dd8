----------------------------- MODULE MCAnalytics ----------------------------
\* TLC instances of AnalyticsReader.
EXTENDS AnalyticsReader

MCPlain == { [exceptional |-> FALSE, crypto |-> FALSE, audit |-> FALSE] }
=============================================================================
