---------------------------- MODULE MC_Provision ----------------------------
(* Two regions.  r1 -> r2 sits exactly on MAX_LATENCY, r2 -> r1 is NaN in  *)
(* latency.csv.  One server of capacity 2 per region, so hours with a      *)
(* demand of 3 in a region need cross-region routing or are infeasible.    *)
EXTENDS CasperProvision

CONSTANTS r1, r2

MCRegions == {r1, r2}

MCLatencyTable ==
  [i \in MCRegions |-> [j \in MCRegions |->
     IF i = j THEN 0 ELSE IF i = r1 THEN 2 ELSE NaN]]
=============================================================================
