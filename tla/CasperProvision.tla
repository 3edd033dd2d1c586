-------------------------- MODULE CasperProvision --------------------------
(***************************************************************************)
(* The hourly control loop of src/simulation.py (_run) driving             *)
(* CAP.provision (src/CAP/CAP.py), MilpScheduler.schedule_servers          *)
(* (src/CAP/milp_scheduler.py), the deployment patch and the load-balancer *)
(* weights.  Each hour: provision, patch the deployments, compute and      *)
(* pickle the weights, write them to the load balancer, run the workload.  *)
(* An exception (an infeasible schedule) ends the run.  Config.SCHEDULER  *)
(* is read once at startup: the run's scheduler is chosen in Init.         *)
(***************************************************************************)
EXTENDS CasperOptimizer

CONSTANTS
  Schedulers,     \* the values Config.SCHEDULER may be given
  Hours,          \* _hours
  MaxDemand,      \* largest hourly request count of a region in the data
  CarbonLevels,   \* the carbon intensities the data holds
  LatencyTable,   \* latency.csv: LatencyTable[i][j], origin i, target j
  RequestRate,    \* Config.REQUEST_RATE (0: use the data)
  SolverSlack     \* whether CBC may report v - eps for an integer v

ASSUME Schedulers \subseteq {"carbon", "latency", "replay"}
ASSUME Hours \in Nat /\ MaxDemand \in Nat /\ RequestRate \in Nat
ASSUME MaxRate >= MaxDemand /\ MaxRate >= RequestRate
ASSUME SolverSlack \in BOOLEAN

VARIABLES
  scheduler,  \* Config.SCHEDULER
  hour,       \* the loop index of _run
  pc,         \* where _run is in the hour
  demand,     \* this hour's row of requests.csv
  carbon,     \* this hour's carbon intensities
  decision,   \* servers_per_region and requests returned by provision
  deployed,   \* the servers each deployment was last patched to
  weights,    \* the weights pickled to config_file
  lbWeights,  \* the weights in the traefik dynamic configuration
  sent        \* the request batches the workload sent this hour

vars == <<scheduler, hour, pc, demand, carbon, decision, deployed, weights, lbWeights, sent>>

Phases == {"provision", "patch", "weights", "traefik", "workload", "done", "failed"}

DemandVectors == [Regions -> 0..MaxDemand]
CarbonVectors == [Regions -> CarbonLevels]

(* CAP.build_batches: one batch per region with the region's own demand,  *)
(* replaced by REQUEST_RATE when that is set.                              *)
BuildBatches(d) == IF RequestRate # 0 THEN [r \in Regions |-> RequestRate] ELSE d

(* The rates a decision must route: the batch loads on the optimized       *)
(* path, the data row on the replay path.                                  *)
RatesOf(d) == IF scheduler = "replay" THEN d ELSE BuildBatches(d)

(* Carbon.schedule_servers or Latency.schedule_servers, by Config.SCHEDULER *)
StrategySchedule(ci, lat, cap, rates) ==
  IF scheduler = "carbon" THEN CarbonSchedule(ci, lat, cap, rates)
  ELSE LatencySchedule(ci, lat, cap, rates)

Init ==
  /\ scheduler \in Schedulers
  /\ hour = 0
  /\ pc = "provision"
  /\ demand = [r \in Regions |-> 0]
  /\ carbon = [r \in Regions |-> Min(CarbonLevels)]
  /\ decision = FailedSolve
  /\ deployed = [r \in Regions |-> 1]     \* create_kubernetes_setup: 1 each
  /\ weights = [r \in Regions |-> 0]
  /\ lbWeights = [r \in Regions |-> 0]
  /\ sent = [r \in Regions |-> 0]

(***************************************************************************)
(* CAP.provision(hour): build the batches, then either the replay         *)
(* decision or MilpScheduler.schedule_servers: compute the inputs, solve,  *)
(* read the variables with int(), validate_objective_value (raise on a     *)
(* failed solve), mask.                                                     *)
(***************************************************************************)
Provision ==
  /\ pc = "provision"
  /\ hour < Hours
  /\ \E d \in DemandVectors, c \in CarbonVectors :
       /\ demand' = d
       /\ carbon' = c
       /\ IF scheduler = "replay"
            THEN /\ decision' = ReplayDecision(d)
                 /\ pc' = "patch"
            ELSE \E sol \in StrategySchedule(c, ComputeLatencies(LatencyTable),
                                             ComputeCapacities, BuildBatches(d)) :
                 \E read \in ToInt(sol, SolverSlack) :
                   IF sol.status = "failed"
                     THEN /\ pc' = "failed"
                          /\ UNCHANGED decision
                     ELSE /\ decision' = Mask(read)
                          /\ pc' = "patch"
  /\ UNCHANGED <<scheduler, hour, deployed, weights, lbWeights, sent>>

(* server_deployments[region] = servers; deploy_obj.patch_setup.           *)
PatchSetup ==
  /\ pc = "patch"
  /\ deployed' = decision.servers
  /\ pc' = "weights"
  /\ UNCHANGED <<scheduler, hour, demand, carbon, decision, weights, lbWeights, sent>>

(* weights = calculate_weights(requests), pickled to config_file.          *)
Weights ==
  /\ pc = "weights"
  /\ weights' = CalculateWeights(decision.route)
  /\ pc' = "traefik"
  /\ UNCHANGED <<scheduler, hour, demand, carbon, decision, deployed, lbWeights, sent>>

(* deploy_obj.update_traefik_weights(regionwise_weights).                  *)
UpdateTraefikWeights ==
  /\ pc = "traefik"
  /\ lbWeights' = weights
  /\ pc' = "workload"
  /\ UNCHANGED <<scheduler, hour, demand, carbon, decision, deployed, weights, sent>>

(* The request-scheduling timesteps of the hour: build_batches(hour) and  *)
(* workload_obj.simulate_workload(batches); then the next hour.            *)
RunWorkload ==
  /\ pc = "workload"
  /\ sent' = BuildBatches(demand)
  /\ hour' = hour + 1
  /\ pc' = "provision"
  /\ UNCHANGED <<scheduler, demand, carbon, decision, deployed, weights, lbWeights>>

(* After the loop: stop_traefik, stop_prometheus.                          *)
Finish ==
  /\ pc = "provision"
  /\ hour = Hours
  /\ pc' = "done"
  /\ UNCHANGED <<scheduler, hour, demand, carbon, decision, deployed, weights, lbWeights, sent>>

(* The program has exited, normally or by an exception.                    *)
Exited ==
  /\ pc \in {"done", "failed"}
  /\ UNCHANGED vars

Next ==
  \/ Provision
  \/ PatchSetup
  \/ Weights
  \/ UpdateTraefikWeights
  \/ RunWorkload
  \/ Finish
  \/ Exited

Spec == Init /\ [][Next]_vars /\ WF_vars(Next)

-----------------------------------------------------------------------------
(* A decision has been made for the current hour and not yet superseded.   *)
Decided == pc \in {"patch", "weights", "traefik", "workload"}

(***************************************************************************)
(* The refinement mapping onto CasperHourly: the abstract hour advances    *)
(* when provision returns a decision, the abstract run aborts when it     *)
(* raises; patching, weights and the workload are abstract stutters.       *)
(***************************************************************************)
H == INSTANCE CasperHourly WITH
       ascheduler <- scheduler,
       ahour <- IF Decided THEN hour + 1 ELSE hour,
       astatus <- CASE pc = "failed" -> "aborted"
                    [] pc = "done" -> "done"
                    [] OTHER -> "running",
       ademand <- RatesOf(demand),
       adecision <- [servers |-> decision.servers, route |-> decision.route]

TypeOK ==
  /\ scheduler \in Schedulers
  /\ hour \in 0..Hours
  /\ pc \in Phases
  /\ demand \in DemandVectors
  /\ carbon \in CarbonVectors
  /\ decision.status \in {"optimal", "failed"}
  /\ decision.servers \in [Regions -> Nat]
  /\ decision.route \in [Regions -> [Regions -> Nat]]
  /\ deployed \in [Regions -> Nat]
  /\ weights \in [Regions -> {Int64Min} \cup 0..100]
  /\ lbWeights \in [Regions -> {Int64Min} \cup 0..100]
  /\ sent \in [Regions -> Nat]

(***************************************************************************)
(* Properties.                                                             *)
(***************************************************************************)

(* Flow conservation (spec section 8): every request of every origin is   *)
(* routed somewhere by the decision the loop deploys, on both the MILP     *)
(* path (sched_all_reqs constraint read back through int()) and replay.    *)
FlowConservation ==
  Decided => \A i \in Regions : RowSum(decision.route, i) = RatesOf(demand)[i]

(* Capacity respected (spec section 8): no region is routed more requests *)
(* than its servers, after the post-solve mask, can serve.                 *)
CapacityRespected ==
  Decided => \A j \in Regions :
               ColSum(decision.route, j) <= decision.servers[j] * ServerCapacity

(* Latency ceiling (carbon strategy): no request crosses a link whose     *)
(* latency in latency.csv is NaN or above MAX_LATENCY; it relies on        *)
(* compute_latencies replacing NaN by the penalty before the constraint.   *)
LatencyCeiling ==
  (Decided /\ scheduler = "carbon") =>
    \A i, j \in Regions :
      decision.route[i][j] > 0 =>
        LatencyTable[i][j] # NaN /\ LatencyTable[i][j] <= MaxLatency

(* When the workload runs, every region the load balancer gives a weight  *)
(* has servers deployed: the weights (column sums of the routing, via the  *)
(* pickle and the traefik file) and the patched deployments agree.         *)
WeightedRegionsHaveServers ==
  pc = "workload" => \A j \in Regions : lbWeights[j] > 0 => deployed[j] > 0

(* For an hour with traffic the weights handed to the load balancer are   *)
(* percentages whose sum the astype(int) truncation lowers by less than    *)
(* one per region and never raises above 100.                              *)
WeightSumDrift ==
  (pc = "workload" /\ SumFunction(RatesOf(demand)) > 0) =>
    SumFunction(lbWeights) \in (100 - Cardinality(Regions) + 1)..100

(* The run aborts with "Infeasible problem" (validate_objective_value)    *)
(* only for an hour the spec calls infeasible, or a degenerate hour with   *)
(* no requests at all; and an hour it does schedule is one the spec calls  *)
(* feasible.                                                               *)
InfeasibleIffNoSchedule ==
  scheduler # "replay" =>
    /\ pc = "failed" =>
         ~H!Feasible(RatesOf(demand)) \/ H!Degenerate(RatesOf(demand))
    /\ Decided => H!Feasible(RatesOf(demand))

(* The docstring of calculate_weights: weights[i] "is the proportion of   *)
(* requests region i should receive", a percentage in 0..100, which is     *)
(* what update_traefik_weights writes to the load balancer.                *)
WeightsAreProportions ==
  pc = "workload" => \A j \in Regions : lbWeights[j] \in 0..100

(* The loop implements the hourly promise of CasperHourly: each hour one  *)
(* admissible decision for that hour's demand (in the code: provision,     *)
(* schedule_servers with its int() reading and mask, or replay), hours in  *)
(* order, an abort only on an hour with no admissible decision, and the    *)
(* run eventually ends.                                                     *)
HourlySpec == H!ASpec

=============================================================================
