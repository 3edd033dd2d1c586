-------------------------- MODULE CasperOptimizer --------------------------
(***************************************************************************)
(* The placement/routing optimizer of src/CAP/milp_scheduler.py, the       *)
(* replay path of src/CAP/CAP.py and the weight derivation of              *)
(* src/simulation.py, as pure operators.                                   *)
(*                                                                         *)
(* A decision is a record [status, servers, route]: route[i][j] is the    *)
(* number of requests from region i served by region j, servers[j] the    *)
(* servers started in j.  The MILP solved by PuLP/CBC is modelled by its   *)
(* constraints, written as in the code, and its objective, scaled by a     *)
(* positive constant so that it is an integer: the solver returns one of   *)
(* the optimal points of the bounded variable space, or fails.             *)
(***************************************************************************)
EXTENDS Integers, FiniteSets, Functions, FiniteSetsExt

CONSTANTS
  Regions,              \* Util.region_names()
  MaxServersPerRegion,  \* Config.MAX_SERVERS_PER_REGION
  ServerCapacity,       \* Config.SERVER_CAPACITY
  MaxLatency,           \* Config.MAX_LATENCY
  MaxRate,              \* bound on a request rate, hence on every x_i_j
  NaN                   \* a latency cell that is NaN in latency.csv

ASSUME MaxServersPerRegion \in Nat \ {0}
ASSUME ServerCapacity \in Nat \ {0}
ASSUME MaxLatency \in Nat /\ MaxRate \in Nat

(* The penalty that compute_latencies substitutes for a NaN latency.       *)
Penalty == 10^6

(* numpy's int64 cast of NaN on x86-64 is -2^63; TLC's integers are 32    *)
(* bits, so the most negative of them stands for it (only its sign is      *)
(* observed).                                                              *)
Int64Min == -2147483647 - 1

RowSum(x, i) == SumFunction(x[i])
ColSum(x, j) == SumFunction([i \in Regions |-> x[i][j]])
PairSum(f) == SumFunction([p \in Regions \X Regions |-> f[p[1], p[2]]])

(***************************************************************************)
(* MilpScheduler.compute_latencies / compute_capacities.                   *)
(***************************************************************************)
(* Variant: NaN cells filled with 0 instead of the penalty.               *)
ComputeLatenciesNaNAsZero(table) ==
  [i \in Regions |-> [j \in Regions |->
      IF table[i][j] = NaN THEN 0 ELSE table[i][j]]]

ComputeLatencies(table) ==
  [i \in Regions |-> [j \in Regions |->
      IF table[i][j] = NaN THEN Penalty ELSE table[i][j]]]

ComputeCapacities == [r \in Regions |-> ServerCapacity]

(***************************************************************************)
(* The MILP variables: x_i_j integer >= 0, s_i integer in                  *)
(* 0..MAX_SERVERS_PER_REGION.  x is bounded by MaxRate, which the          *)
(* sched_all_reqs constraint implies.                                      *)
(***************************************************************************)
MaxServers == MaxServersPerRegion * Cardinality(Regions)
XVars == [Regions -> [Regions -> 0..MaxRate]]
SVars == [Regions -> 0..MaxServersPerRegion]

MaxServerConst(s) == SumFunction(s) <= MaxServers
(* Variant: a strict capacity bound.                                     *)
CapacityConstStrict(x, s, cap) == \A j \in Regions : ColSum(x, j) - s[j] * cap[j] < 0
CapacityConst(x, s, cap) == \A j \in Regions : ColSum(x, j) - s[j] * cap[j] <= 0
(* Variant: the per-origin constraint with sense LE instead of EQ.        *)
SchedAllReqsConstAtMost(x, rates) == \A i \in Regions : RowSum(x, i) <= rates[i]
SchedAllReqsConst(x, rates) == \A i \in Regions : RowSum(x, i) = rates[i]
(* Variant: a strict latency bound.                                       *)
LatencyConstStrict(x, lat) ==
  \A i, j \in Regions : x[i][j] = 0 \/ lat[i][j] - MaxLatency < 0
LatencyConst(x, lat) ==
  \A i, j \in Regions : x[i][j] * (lat[i][j] - MaxLatency) <= 0

(* The failed outcome: sol_status != 1 makes schedule_servers return       *)
(* np.zeros servers and objective -10000.                                  *)
FailedSolve ==
  [status |-> "failed", servers |-> [r \in Regions |-> 0],
   route |-> [i \in Regions |-> [j \in Regions |-> 0]]]

(* What CBC returns for a problem: an optimal point, or a failure when the *)
(* problem is infeasible.  When a normalizer is 1/0 numpy yields inf and   *)
(* the objective has inf coefficients: CBC may fail or return an optimum   *)
(* of the constraints alone, so both outcomes are possible.                *)
Solve(feasible, obj, normDefined) ==
  LET best == IF feasible = {} THEN {}
              ELSE LET m == Min({obj[c] : c \in feasible})
                   IN {c \in feasible : obj[c] = m}
      sols == {[status |-> "optimal", servers |-> c[2], route |-> c[1]] : c \in best}
  IN IF ~normDefined THEN sols \cup {FailedSolve}
     ELSE IF feasible = {} THEN {FailedSolve} ELSE sols

(***************************************************************************)
(* Carbon.schedule_servers: alpha = 0.9,                                   *)
(*   obj = a/(maxC*sum(rates)) * sum x_i_j*c_j + (1-a)/maxServers * sum s. *)
(* Multiplied by 10*maxC*sum(rates)*maxServers it is the integer below.    *)
(***************************************************************************)
CarbonSchedule(ci, lat, cap, rates) ==
  LET maxC == Max(Range(ci))
      norm == maxC * SumFunction(rates)
      Obj(x, s) == 9 * MaxServers * PairSum([i, j \in Regions |-> x[i][j] * ci[j]])
                     + norm * SumFunction(s)
      feasible == {c \in XVars \X SVars :
                     /\ MaxServerConst(c[2])
                     /\ CapacityConst(c[1], c[2], cap)
                     /\ SchedAllReqsConst(c[1], rates)
                     /\ LatencyConst(c[1], lat)}
  IN Solve(feasible, [c \in feasible |-> Obj(c[1], c[2])], norm # 0)

(***************************************************************************)
(* Latency.schedule_servers: alpha = 0.5, no latency constraint,           *)
(*   obj = a/W * sum lat_i_j*x_i_j + (1-a)/maxServers * sum s              *)
(* with W = sum_i rates_i * max(lat_i); times 2*W*maxServers.              *)
(***************************************************************************)
LatencySchedule(ci, lat, cap, rates) ==
  LET norm == SumFunction([i \in Regions |-> rates[i] * Max(Range(lat[i]))])
      Obj(x, s) == MaxServers * PairSum([i, j \in Regions |-> lat[i][j] * x[i][j]])
                     + norm * SumFunction(s)
      feasible == {c \in XVars \X SVars :
                     /\ MaxServerConst(c[2])
                     /\ CapacityConst(c[1], c[2], cap)
                     /\ SchedAllReqsConst(c[1], rates)}
  IN Solve(feasible, [c \in feasible |-> Obj(c[1], c[2])], norm # 0)

(***************************************************************************)
(* int(var.varValue): CBC reports an integer variable within its           *)
(* integrality tolerance, and int() truncates, so a value v >= 1 reported  *)
(* as v - eps becomes v - 1.  With slack FALSE the values are exact.       *)
(***************************************************************************)
(* Variant: math.floor in place of int(), with CBC reporting every value  *)
(* just below the integer: 0 becomes -1.                                  *)
TruncAlwaysDown(v, slack) == {v - 1}
TruncOutcomes(v, slack) == IF slack /\ v > 0 THEN {v, v - 1} ELSE {v}

ToInt(sol, slack) ==
  {[sol EXCEPT !.servers = s, !.route = x] :
     x \in {y \in [Regions -> [Regions -> -1..MaxRate]] :
              \A i, j \in Regions : y[i][j] \in TruncOutcomes(sol.route[i][j], slack)},
     s \in {t \in [Regions -> -1..MaxServersPerRegion] :
              \A j \in Regions : t[j] \in TruncOutcomes(sol.servers[j], slack)}}

(* MilpScheduler.schedule_servers post-processing: a region that no       *)
(* request is routed to gets 0 servers (mask over axis 0).                 *)
(* Variant: the mask taken over axis 1 (origins) instead of axis 0.       *)
MaskByOrigin(sol) ==
  [sol EXCEPT !.servers =
     [j \in Regions |-> IF RowSum(sol.route, j) = 0 THEN 0 ELSE sol.servers[j]]]
Mask(sol) ==
  [sol EXCEPT !.servers =
     [j \in Regions |-> IF ColSum(sol.route, j) = 0 THEN 0 ELSE sol.servers[j]]]

(***************************************************************************)
(* CAP.servers_per_region_predetermined (replay): the loop breaks after    *)
(* the first region, so rates is one row of the request table, i.e. every *)
(* region's own demand; servers = ceil(rates / SERVER_CAPACITY) and the    *)
(* routing is diag(rates).                                                 *)
(***************************************************************************)
CeilDiv(a, b) == (a + b - 1) \div b

(* Variant: floor instead of ceil.                                        *)
ReplayDecisionFloor(rates) ==
  [status |-> "optimal",
   servers |-> [r \in Regions |-> rates[r] \div ServerCapacity],
   route |-> [i \in Regions |-> [j \in Regions |-> IF i = j THEN rates[i] ELSE 0]]]
ReplayDecision(rates) ==
  [status |-> "optimal",
   servers |-> [r \in Regions |-> CeilDiv(rates[r], ServerCapacity)],
   route |-> [i \in Regions |-> [j \in Regions |-> IF i = j THEN rates[i] ELSE 0]]]

(***************************************************************************)
(* simulation.calculate_weights: column sums of the routing matrix as a    *)
(* percentage of the total, cast with astype(int), which truncates.  A     *)
(* zero total gives NaN, which the cast turns into int64's minimum.        *)
(***************************************************************************)
(* Variants: weights from the row sums (axis=1); the division done before *)
(* the multiplication by 100.                                              *)
CalculateWeightsByOrigin(route) ==
  LET total == SumFunction([i \in Regions |-> RowSum(route, i)])
  IN [j \in Regions |->
        IF total = 0 THEN Int64Min ELSE (RowSum(route, j) * 100) \div total]
CalculateWeightsDivFirst(route) ==
  LET total == SumFunction([j \in Regions |-> ColSum(route, j)])
  IN [j \in Regions |->
        IF total = 0 THEN Int64Min ELSE (ColSum(route, j) \div total) * 100]
CalculateWeights(route) ==
  LET total == SumFunction([j \in Regions |-> ColSum(route, j)])
  IN [j \in Regions |->
        IF total = 0 THEN Int64Min ELSE (ColSum(route, j) * 100) \div total]

=============================================================================
