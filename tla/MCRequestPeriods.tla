-------------------------- MODULE MCRequestPeriods --------------------------
\* Periods around zero, the limit of the record and the width of the hours.
EXTENDS RequestPeriods

MCAsked == -2..30 \cup 2720..2740 \cup 3640..3660
=============================================================================
