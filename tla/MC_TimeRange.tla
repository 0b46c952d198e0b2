----------------------------- MODULE MC_TimeRange -----------------------------
EXTENDS TimeRange
CONSTANTS c1, c2, o1, o2, day, year, default
=============================================================================
