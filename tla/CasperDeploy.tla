---------------------------- MODULE CasperDeploy ----------------------------
(***************************************************************************)
(* The hourly loop of src/simulation.py (_run) composed with what it       *)
(* drives: the Deployer of src/CAP/deploy.py (patch_setup,                 *)
(* update_traefik_weights, start/stop_traefik), update_deployment of       *)
(* src/CAP/deploy_utils.py, the Kubernetes deployment controller that      *)
(* rolls a patched deployment out, and one traefik process per region      *)
(* that reloads the dynamic configuration file when it changes.            *)
(*                                                                         *)
(* The decision of an hour is taken from Decisions: CasperProvision checks *)
(* what a decision satisfies; here only its servers and weights matter.    *)
(* A deployment's CPU allotment (calculate_resources) is determined by its *)
(* server count, so a deployment is described by that count.               *)
(***************************************************************************)
EXTENDS Naturals, FiniteSets

CONSTANTS
  Regions,      \* Deployer.region_list
  Hours,        \* _hours
  Timesteps,    \* request-scheduling timesteps per hour
  Decisions,    \* the [servers, weights] an hour may decide
  InitWeights,  \* the weights in traefik_dynamic.yaml before the run
  Empty,        \* the file between open(..., 'w') and yaml.dump
  NoRoutes,     \* a traefik that loaded an empty configuration
  None

ASSUME Hours \in Nat /\ Timesteps \in Nat \ {0}

VARIABLES
  hour, pc,
  dec,          \* servers_per_region and weights of the current hour
  todo,         \* deployments of the patch_setup loop not yet patched
  held,         \* the deployment object update_deployment has read
  heldCurrent,  \* whether held still has the server's resourceVersion
  spec,         \* spec[r]: the servers deployment r is patched to
  running,      \* running[r]: the servers its pods run with
  file,         \* the content of traefik_dynamic.yaml
  lb,           \* lb[t]: the weights traefik process t routes with
  pending,      \* pending[t]: a file change t has not yet loaded
  alive,        \* whether the traefik processes run
  ts            \* the timestep of the hour

loop == <<hour, pc, dec, todo, held, ts>>
vars == <<hour, pc, dec, todo, held, heldCurrent, spec, running, file, lb, pending, alive, ts>>

Weights == {d.weights : d \in Decisions} \cup {InitWeights}

(* create_kubernetes_setup, build_setup, start_traefik: one server per    *)
(* region, the traefik processes loaded with the file.                     *)
Init ==
  /\ hour = 0
  /\ pc = "provision"
  /\ dec = [servers |-> [r \in Regions |-> 1], weights |-> InitWeights]
  /\ todo = {}
  /\ held = None
  /\ heldCurrent = FALSE
  /\ spec = [r \in Regions |-> 1]
  /\ running = [r \in Regions |-> 1]
  /\ file = InitWeights
  /\ lb = [t \in Regions |-> InitWeights]
  /\ pending = [t \in Regions |-> FALSE]
  /\ alive = TRUE
  /\ ts = 0

(* cap_obj.provision(hour), then patch_setup lists the deployments.        *)
Provision ==
  /\ pc = "provision"
  /\ hour < Hours
  /\ \E d \in Decisions : dec' = d
  /\ todo' = Regions
  /\ pc' = "patch"
  /\ UNCHANGED <<hour, held, heldCurrent, spec, running, file, lb, pending, alive, ts>>

(* update_deployment: get_deployment_by_name lists the deployments and     *)
(* keeps the object, resourceVersion included.                             *)
GetDeployment ==
  /\ pc = "patch"
  /\ held = None
  /\ \E r \in todo : held' = r
  /\ heldCurrent' = TRUE
  /\ UNCHANGED <<hour, pc, dec, todo, spec, running, file, lb, pending, alive, ts>>

(* Variant: a conflict caught and ignored, as build_setup does.            *)
PatchDeploymentSwallow ==
  /\ pc = "patch"
  /\ held # None
  /\ spec' = IF heldCurrent THEN [spec EXCEPT ![held] = dec.servers[held]] ELSE spec
  /\ todo' = todo \ {held}
  /\ held' = None
  /\ UNCHANGED <<hour, pc, dec, heldCurrent, running, file, lb, pending, alive, ts>>

(* patch_namespaced_deployment with the object read: the resourceVersion  *)
(* in it is a precondition; a stale one is answered 409 Conflict, an       *)
(* ApiException nothing catches, which ends _run.                          *)
PatchDeployment ==
  /\ pc = "patch"
  /\ held # None
  /\ IF heldCurrent
       THEN /\ spec' = [spec EXCEPT ![held] = dec.servers[held]]
            /\ todo' = todo \ {held}
            /\ held' = None
            /\ UNCHANGED pc
       ELSE /\ pc' = "failed"
            /\ UNCHANGED <<spec, todo, held>>
  /\ UNCHANGED <<hour, dec, heldCurrent, running, file, lb, pending, alive, ts>>

(* calculate_weights, then update_traefik_weights: the file is read, and   *)
(* reopened with 'w', which truncates it ...                               *)
OpenTraefikConfig ==
  /\ pc = "patch"
  /\ todo = {} /\ held = None
  /\ file' = Empty
  /\ pending' = [t \in Regions |-> TRUE]
  /\ pc' = "traefik"
  /\ UNCHANGED <<hour, dec, todo, held, heldCurrent, spec, running, lb, alive, ts>>

(* ... and yaml.dump writes the new weights; then sleep(0.5) and return.   *)
DumpTraefikConfig ==
  /\ pc = "traefik"
  /\ file' = dec.weights
  /\ pending' = [t \in Regions |-> TRUE]
  /\ pc' = "workload"
  /\ UNCHANGED <<hour, dec, todo, held, heldCurrent, spec, running, lb, alive, ts>>

(* One request-scheduling timestep: the batches are sent through traefik.  *)
SendBatches ==
  /\ pc = "workload"
  /\ ts < Timesteps
  /\ ts' = ts + 1
  /\ UNCHANGED <<hour, pc, dec, todo, held, heldCurrent, spec, running, file, lb, pending, alive>>

EndHour ==
  /\ pc = "workload"
  /\ ts = Timesteps
  /\ ts' = 0
  /\ hour' = hour + 1
  /\ pc' = "provision"
  /\ UNCHANGED <<dec, todo, held, heldCurrent, spec, running, file, lb, pending, alive>>

(* stop_traefik kills the processes; an exception skips it.                *)
Finish ==
  /\ pc = "provision"
  /\ hour = Hours
  /\ alive' = FALSE
  /\ pc' = "done"
  /\ UNCHANGED <<hour, dec, todo, held, heldCurrent, spec, running, file, lb, pending, ts>>

Exited ==
  /\ pc \in {"done", "failed"}
  /\ UNCHANGED loop
  /\ UNCHANGED <<heldCurrent, spec, running, file, lb, pending, alive>>

-----------------------------------------------------------------------------
(* The environment.  The deployment controller rolls a patched deployment *)
(* out and writes its status, which changes its resourceVersion.           *)
RolloutStatus(r) ==
  /\ spec[r] # running[r]
  /\ held = r
  /\ heldCurrent' = FALSE
  /\ UNCHANGED <<hour, pc, dec, todo, held, spec, running, file, lb, pending, alive, ts>>

RolloutComplete(r) ==
  /\ spec[r] # running[r]
  /\ running' = [running EXCEPT ![r] = spec[r]]
  /\ heldCurrent' = IF held = r THEN FALSE ELSE heldCurrent
  /\ UNCHANGED <<hour, pc, dec, todo, held, spec, file, lb, pending, alive, ts>>

(* Environment: a traefik file provider loads the file after a change    *)
(* event; an empty file may be taken as an empty configuration or        *)
(* rejected.                                                              *)
Reload(t) ==
  /\ alive
  /\ pending[t]
  /\ \E v \in IF file = Empty THEN {lb[t], NoRoutes} ELSE {file} :
       lb' = [lb EXCEPT ![t] = v]
  /\ pending' = [pending EXCEPT ![t] = FALSE]
  /\ UNCHANGED <<hour, pc, dec, todo, held, heldCurrent, spec, running, file, alive, ts>>

(* patch_setup: for each deployment of the listing, update_deployment.     *)
PatchSetup == GetDeployment \/ PatchDeployment

Loop ==
  \/ Provision \/ PatchSetup
  \/ OpenTraefikConfig \/ DumpTraefikConfig
  \/ SendBatches \/ EndHour \/ Finish \/ Exited

Environment ==
  \E r \in Regions : RolloutStatus(r) \/ RolloutComplete(r) \/ Reload(r)

Next == Loop \/ Environment

Spec == Init /\ [][Next]_vars

-----------------------------------------------------------------------------
TypeOK ==
  /\ pc \in {"provision", "patch", "traefik", "workload", "done", "failed"}
  /\ todo \subseteq Regions
  /\ held \in Regions \cup {None}
  /\ spec \in [Regions -> Nat] /\ running \in [Regions -> Nat]
  /\ file \in Weights \cup {Empty}
  /\ lb \in [Regions -> Weights \cup {NoRoutes}]
  /\ ts \in 0..Timesteps

(* Once patch_setup has returned, every deployment is patched to this     *)
(* hour's servers: the loop over list_namespaced_deployment with one       *)
(* update_deployment each, read then patch, skips none.                    *)
PatchCoversAllDeployments ==
  pc \in {"traefik", "workload"} => spec = dec.servers

(* Spec section 5: the server counts and routing weights of hour N         *)
(* determine the traffic measured in hour N.  Whenever the loop sends a   *)
(* batch, every traefik routes with this hour's weights and every          *)
(* deployment runs this hour's servers.                                    *)
MeasuredUnderCurrentDecision ==
  pc = "workload" =>
    /\ \A t \in Regions : lb[t] = dec.weights
    /\ \A r \in Regions : running[r] = dec.servers[r]

(* Spec section 7: the run ends only normally or with one of the listed   *)
(* fatal errors; handing the servers to the deployment collaborator        *)
(* (patch_setup) is not among them.                                        *)
PatchNeverAborts == pc # "failed"

=============================================================================
