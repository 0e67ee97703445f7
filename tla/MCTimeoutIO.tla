---------------------------- MODULE MCTimeoutIO ----------------------------
\* TimeoutIO with an interval of a few ticks, given in the configurations.
EXTENDS TimeoutIO
=============================================================================
