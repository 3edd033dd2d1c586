------------------------- MODULE CasperWorkloadLoop -------------------------
(***************************************************************************)
(* The request-scheduling part of each hour of _run in src/simulation.py:  *)
(* with the exponential workload the hour's frame is generated by          *)
(* CAP.generate_request_workload(requests, timestep, ...), then every      *)
(* timestep reads row timestep of it (build_workload_batches); otherwise   *)
(* build_batches(hour) is used.  timestep is the local variable of the     *)
(* for loop that follows the call, so before the first iteration of the   *)
(* first hour it is unbound.                                               *)
(***************************************************************************)
EXTENDS Naturals

CONSTANTS
  Hours,            \* _hours
  Timesteps,        \* int(size_of_hour / request_update_interval)
  ExponentialPath,  \* exponential_workload and _scheduler != 'replay'
  Unbound           \* the value of a local not yet assigned

ASSUME Hours \in Nat /\ Timesteps \in Nat \ {0} /\ ExponentialPath \in BOOLEAN

VARIABLES
  hour,       \* the hour loop index
  pc,         \* "hour", "timestep", "done" or "crashed"
  timestep,   \* the Python local timestep
  k,          \* the position of the timestep loop
  rows        \* the rows of request_workload (0: none generated)

vars == <<hour, pc, timestep, k, rows>>

Init ==
  /\ hour = 0
  /\ pc = "hour"
  /\ timestep = Unbound
  /\ k = 0
  /\ rows = 0

(* timesteps = ...; the generate call when the exponential path is on: a   *)
(* read of the unbound local raises UnboundLocalError, otherwise the frame *)
(* gets as many rows as the value of timestep.                             *)
StartHour ==
  /\ pc = "hour"
  /\ hour < Hours
  /\ IF ExponentialPath
       THEN IF timestep = Unbound
              THEN /\ pc' = "crashed"
                   /\ UNCHANGED <<k, rows>>
              ELSE /\ rows' = timestep
                   /\ k' = 0
                   /\ pc' = "timestep"
       ELSE /\ k' = 0
            /\ pc' = "timestep"
            /\ UNCHANGED rows
  /\ UNCHANGED <<hour, timestep>>

(* One iteration: timestep = k; build_workload_batches(timestep) reads     *)
(* request_workload.iloc[timestep] (IndexError past the last row), or      *)
(* build_batches(hour); then the workload is sent and metrics collected.   *)
Timestep ==
  /\ pc = "timestep"
  /\ k < Timesteps
  /\ timestep' = k
  /\ IF ExponentialPath /\ k >= rows
       THEN /\ pc' = "crashed"
            /\ UNCHANGED k
       ELSE /\ k' = k + 1
            /\ UNCHANGED pc
  /\ UNCHANGED <<hour, rows>>

EndHour ==
  /\ pc = "timestep"
  /\ k = Timesteps
  /\ hour' = hour + 1
  /\ pc' = "hour"
  /\ UNCHANGED <<timestep, k, rows>>

Finish ==
  /\ pc = "hour"
  /\ hour = Hours
  /\ pc' = "done"
  /\ UNCHANGED <<hour, timestep, k, rows>>

Exited ==
  /\ pc \in {"done", "crashed"}
  /\ UNCHANGED vars

Next == StartHour \/ Timestep \/ EndHour \/ Finish \/ Exited

Spec == Init /\ [][Next]_vars /\ WF_vars(Next)

-----------------------------------------------------------------------------
(* The run sends the workload of every timestep of every hour and reaches  *)
(* the end of _run (spec section 4.4: the synthetic source feeds the      *)
(* batches of every hour).                                                  *)
Termination == <>(pc = "done")

=============================================================================
