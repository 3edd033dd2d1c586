----------------------------- MODULE CasperSetup -----------------------------
(***************************************************************************)
(* The cluster objects the Deployer creates and deletes, across program    *)
(* runs of the Deployer of src/CAP/deploy.py: build_setup, as             *)
(* create_kubernetes_setup in src/simulation.py calls it, and              *)
(* teardown_setup, which main runs.  The constructor fills locations from  *)
(* `kubectl get svc` (get_location_info), so a build works only against   *)
(* a cluster that already has the services.                                *)
(*                                                                         *)
(* Per region there is a deployment and a service named kiwix-serve-<r>.   *)
(* Deleting one (propagation Foreground, grace period 5 s) marks it        *)
(* terminating; the API server removes it later, and until then a create   *)
(* of the same name is refused with 409 and a delete of a removed one      *)
(* with 404.  The operator starts program runs in any order: no fairness.  *)
(***************************************************************************)
EXTENDS Naturals, Sequences

CONSTANTS
  RegionList    \* Deployer.region_list, in its order

Regions == {RegionList[i] : i \in DOMAIN RegionList}
N == Len(RegionList)
Objects == {"absent", "present", "terminating"}

VARIABLES
  pc,        \* the running program's step, or "idle" between runs
  located,   \* located[r]: Deployer.locations[r] is not None
  i,         \* the position of the loop over region_list
  listed,    \* the listed objects teardown_setup has still to delete
  dep,       \* dep[r]: the deployment kiwix-serve-<r>
  svc,       \* svc[r]: the service kiwix-serve-<r>
  secret,    \* whether the image-pull secret regcred exists
  built      \* the last program run was a build_setup that returned

vars == <<pc, located, i, listed, dep, svc, secret, built>>

(* No program runs; the cluster is in whatever state earlier runs and     *)
(* manual kubectl commands left it.                                        *)
Init ==
  /\ pc = "idle"
  /\ located = [r \in Regions |-> FALSE]
  /\ i = 1
  /\ listed = <<>>
  /\ dep \in [Regions -> Objects]
  /\ svc \in [Regions -> Objects]
  /\ secret \in BOOLEAN
  /\ built = FALSE

(* get_location_info: a location per service `kubectl get svc` lists,     *)
(* terminating ones included.                                              *)
LocationsListed == [r \in Regions |-> svc[r] # "absent"]

(* create_namespaced_*: a name that exists, or is still being deleted,    *)
(* gets 409, which build_setup catches and logs.                           *)
Create(obj) == IF obj = "absent" THEN "present" ELSE obj

(* Deployer(), whose constructor calls get_location_info, then            *)
(* build_setup: create_kube_secret (an existing secret is an exception,    *)
(* caught by the bare except).                                             *)
StartBuild ==
  /\ pc = "idle"
  /\ located' = LocationsListed
  /\ secret' = TRUE
  /\ i' = 1
  /\ pc' = "build"
  /\ built' = FALSE
  /\ UNCHANGED <<listed, dep, svc>>

(* One iteration of the loop over region_list: self.locations[location]   *)
(* is dereferenced first (TypeError on None, nothing catches it), then the *)
(* deployment and the service are created, each failure caught.            *)
BuildRegion ==
  /\ pc = "build"
  /\ i <= N
  /\ LET r == RegionList[i] IN
       IF located[r]
         THEN /\ dep' = [dep EXCEPT ![r] = Create(@)]
              /\ svc' = [svc EXCEPT ![r] = Create(@)]
              /\ i' = i + 1
              /\ UNCHANGED pc
         ELSE /\ pc' = "crashed"
              /\ UNCHANGED <<dep, svc, i>>
  /\ UNCHANGED <<located, listed, secret, built>>

(* "Setup Completed", then get_location_info.                             *)
EndBuild ==
  /\ pc = "build"
  /\ i > N
  /\ located' = LocationsListed
  /\ built' = TRUE
  /\ pc' = "idle"
  /\ UNCHANGED <<i, listed, dep, svc, secret>>

(* list_namespaced_deployment / list_namespaced_service: the objects of  *)
(* the app, terminating ones included, in name order.                      *)
Listing(objs) == SelectSeq(RegionList, LAMBDA r : objs[r] # "absent")

(* Deployer() then teardown_setup: the deployments are listed.             *)
StartTeardown ==
  /\ pc = "idle"
  /\ listed' = Listing(dep)
  /\ pc' = "deleteDeployments"
  /\ built' = FALSE
  /\ UNCHANGED <<located, i, dep, svc, secret>>

(* delete_deployment / delete_service of the next listed object: a name   *)
(* the API server has removed since the listing gives 404, an ApiException *)
(* nothing catches.                                                        *)
Delete(objs, r) ==
  IF objs[r] = "absent" THEN objs ELSE [objs EXCEPT ![r] = "terminating"]
Refused(objs, r) == objs[r] = "absent"

DeleteDeployment ==
  /\ pc = "deleteDeployments"
  /\ listed # <<>>
  /\ dep' = Delete(dep, Head(listed))
  /\ listed' = Tail(listed)
  /\ pc' = IF Refused(dep, Head(listed)) THEN "crashed" ELSE pc
  /\ UNCHANGED <<located, i, svc, secret, built>>

(* The services are listed once the deployments are done.                  *)
ListServices ==
  /\ pc = "deleteDeployments"
  /\ listed = <<>>
  /\ listed' = Listing(svc)
  /\ pc' = "deleteServices"
  /\ UNCHANGED <<located, i, dep, svc, secret, built>>

DeleteService ==
  /\ pc = "deleteServices"
  /\ listed # <<>>
  /\ svc' = Delete(svc, Head(listed))
  /\ listed' = Tail(listed)
  /\ pc' = IF Refused(svc, Head(listed)) THEN "crashed" ELSE pc
  /\ UNCHANGED <<located, i, dep, secret, built>>

(* delete_namespaced_secret(secret_name, ...): secret_name is no local or  *)
(* global name, the NameError is caught by the bare except, and the secret *)
(* stays.                                                                  *)
EndTeardown ==
  /\ pc = "deleteServices"
  /\ listed = <<>>
  /\ pc' = "idle"
  /\ UNCHANGED <<located, i, listed, dep, svc, secret, built>>

(* The program ended with an exception; the operator may start another.    *)
Restart ==
  /\ pc = "crashed"
  /\ pc' = "idle"
  /\ UNCHANGED <<located, i, listed, dep, svc, secret, built>>

(* The API server removes a terminating object once its pods are gone.     *)
RemoveDeployment(r) ==
  /\ dep[r] = "terminating"
  /\ dep' = [dep EXCEPT ![r] = "absent"]
  /\ UNCHANGED <<pc, located, i, listed, svc, secret, built>>

RemoveService(r) ==
  /\ svc[r] = "terminating"
  /\ svc' = [svc EXCEPT ![r] = "absent"]
  /\ UNCHANGED <<pc, located, i, listed, dep, secret, built>>

Next ==
  \/ StartBuild \/ BuildRegion \/ EndBuild
  \/ StartTeardown \/ DeleteDeployment \/ ListServices \/ DeleteService \/ EndTeardown
  \/ Restart
  \/ \E r \in Regions : RemoveDeployment(r) \/ RemoveService(r)

Spec == Init /\ [][Next]_vars

-----------------------------------------------------------------------------
TypeOK ==
  /\ pc \in {"idle", "build", "deleteDeployments", "deleteServices", "crashed"}
  /\ dep \in [Regions -> Objects] /\ svc \in [Regions -> Objects]
  /\ listed \in Seq(Regions) /\ i \in 1..N + 1

(* Spec section 6: the deployment collaborator makes the servers exist in  *)
(* each region.  build_setup logs "Created deployment" and "Setup          *)
(* Completed" for every region; while the last program run is a            *)
(* build_setup that returned, every region has its deployment and its      *)
(* service, neither of them being deleted.                                 *)
SetupComplete ==
  built => \A r \in Regions : dep[r] = "present" /\ svc[r] = "present"


(* teardown_setup, which main runs to clean the cluster, logs            *)
(* "Teardown completed" after deleting every listed deployment and        *)
(* service; delete_deployment and delete_service catch                     *)
(* nothing.  No step of a teardown ends the program with an exception.     *)
TeardownCompletes ==
  [][(pc \in {"deleteDeployments", "deleteServices"}) => pc' # "crashed"]_vars

=============================================================================
