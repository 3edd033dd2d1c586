----------------------------- MODULE MC_Setup -----------------------------
EXTENDS CasperSetup, TLC
CONSTANTS r1, r2
MCRegionList == <<r1, r2>>
=============================================================================
