----------------------------- MODULE MC_Deploy -----------------------------
(* Two regions; an hour either sends everything to r1 or splits it, with   *)
(* the servers the weights need.                                           *)
EXTENDS CasperDeploy, TLC

CONSTANTS r1, r2

MCRegions == {r1, r2}

MCInitWeights == [r \in MCRegions |-> 50]

MCDecisions ==
  { [servers |-> (r1 :> 1 @@ r2 :> 0), weights |-> (r1 :> 100 @@ r2 :> 0)],
    [servers |-> (r1 :> 1 @@ r2 :> 1), weights |-> (r1 :> 66 @@ r2 :> 33)] }
=============================================================================
