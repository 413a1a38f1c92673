------------------------------- MODULE MCEventsBus -------------------------------
\* EventsBus for TLC: the browsers are interchangeable.
EXTENDS EventsBus, TLC

CONSTANTS v1, v2

Browsers == Permutations({v1, v2})
=============================================================================
