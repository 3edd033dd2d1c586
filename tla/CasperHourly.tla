---------------------------- MODULE CasperHourly ----------------------------
(***************************************************************************)
(* What the provisioning loop promises, from spec sections 3, 4.3, 4.4,    *)
(* 7 and 8: hour after hour it hands one ScheduleDecision for the hour's   *)
(* demand to the collaborators, a decision that routes every request,      *)
(* fits the capacity it provisions, provisions no region without traffic   *)
(* and (carbon) keeps off links above the latency ceiling; or it aborts    *)
(* with InfeasibleSchedule on an hour no such decision exists for.  Replay *)
(* decides ceil(demand / capacity) servers and the diagonal routing, and   *)
(* never aborts.                                                           *)
(***************************************************************************)
EXTENDS Integers, FiniteSetsExt

CONSTANTS Regions, MaxServersPerRegion, ServerCapacity, MaxLatency, MaxRate,
          NaN, LatencyTable, Hours

VARIABLES
  ascheduler,   \* the configured scheduler, fixed for the run
  ahour, astatus, ademand, adecision

avars == <<ascheduler, ahour, astatus, ademand, adecision>>

RateVectors == [Regions -> 0..MaxRate]
Routes == [Regions -> [Regions -> 0..MaxRate]]
Served(route, j) == SumFunction([i \in Regions |-> route[i][j]])
Divide(a, b) == (a + b - 1) \div b

ServerVectors ==
  IF ascheduler = "replay"
    THEN [Regions -> 0..Divide(MaxRate, ServerCapacity)]
    ELSE {s \in [Regions -> 0..MaxServersPerRegion] :
            SumFunction(s) <= MaxServersPerRegion * Cardinality(Regions)}

Admissible(rates, c) ==
  /\ \A i \in Regions : SumFunction(c.route[i]) = rates[i]
  /\ \A j \in Regions : Served(c.route, j) <= c.servers[j] * ServerCapacity
  /\ \A j \in Regions : Served(c.route, j) = 0 => c.servers[j] = 0
  /\ ascheduler = "carbon" =>
       \A i, j \in Regions :
         c.route[i][j] > 0 => LatencyTable[i][j] # NaN /\ LatencyTable[i][j] <= MaxLatency
  /\ ascheduler = "replay" =>
       /\ \A i, j \in Regions : i # j => c.route[i][j] = 0
       /\ \A j \in Regions : c.servers[j] = Divide(rates[j], ServerCapacity)

DecisionSpace == [servers : ServerVectors, route : Routes]

(* Some admissible decision exists for the hour.                           *)
Feasible(rates) == \E c \in DecisionSpace : Admissible(rates, c)

(* An hour with no requests at all leaves the optimizers' objective        *)
(* normalizers undefined (1/0); the loop may abort on it.                  *)
Degenerate(rates) == SumFunction(rates) = 0

AInit ==
  /\ ascheduler \in {"carbon", "latency", "replay"}
  /\ ahour = 0
  /\ astatus = "running"
  /\ ademand = [r \in Regions |-> 0]
  /\ adecision = [servers |-> [r \in Regions |-> 0],
                  route |-> [i \in Regions |-> [j \in Regions |-> 0]]]

Decide ==
  /\ astatus = "running"
  /\ ahour < Hours
  /\ ahour' = ahour + 1
  /\ UNCHANGED <<ascheduler, astatus>>
  /\ ademand' \in RateVectors
  /\ adecision' \in DecisionSpace
  /\ Admissible(ademand', adecision')

Abort ==
  /\ astatus = "running"
  /\ ahour < Hours
  /\ ascheduler # "replay"
  /\ astatus' = "aborted"
  /\ UNCHANGED <<ascheduler, ahour, adecision>>
  /\ ademand' \in RateVectors
  /\ ~Feasible(ademand') \/ Degenerate(ademand')

Complete ==
  /\ astatus = "running"
  /\ ahour = Hours
  /\ astatus' = "done"
  /\ UNCHANGED <<ascheduler, ahour, ademand, adecision>>

ANext == Decide \/ Abort \/ Complete

(* Safety only: that the loop ends is checked on CasperWorkloadLoop and   *)
(* CasperDeploy, where fairness does not require re-running the solver.    *)
ASpec == AInit /\ [][ANext]_avars

=============================================================================
