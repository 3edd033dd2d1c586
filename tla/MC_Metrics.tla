---------------------------- MODULE MC_Metrics ----------------------------
EXTENDS CasperMetrics, TLC
CONSTANTS r1, r2
MCRegions == {r1, r2}
=============================================================================
