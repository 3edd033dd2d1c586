# TLA+ models of CASPER

This directory holds TLA+ models of the carbon-aware scheduler under `src/`. The models are checked with TLC.

## The system

`src/simulation.py` (`_run`) runs an hourly control loop for `_hours` hours. Each hour it does the following, in order:

1. **Provision.** `CAP.provision(hour)` (`src/CAP/CAP.py`) builds one request batch per region with `build_batches`. It then does one of two things:
   - in replay mode, it takes the servers and routing from the data with `servers_per_region_predetermined`;
   - otherwise, it calls `MilpScheduler.schedule_servers` (`src/CAP/milp_scheduler.py`). That function solves the carbon or the latency MILP with PuLP/CBC, reads the variables with `int()`, raises `Infeasible problem` on a failed solve, and zeroes the servers of regions that receive no requests (the mask).
2. **Patch.** `deploy_obj.patch_setup` patches the Kubernetes deployments to the new server counts.
3. **Weights.** `calculate_weights` turns the routing matrix into percentage weights by column and pickles them. The separate gobetween script reads that pickle.
4. **Traefik.** `update_traefik_weights` writes the weights into traefik's dynamic configuration file and sleeps 0.5 s.
5. **Request scheduling.** The loop runs `timesteps = size_of_hour / request_update_interval` (3) iterations, each building batches and sending them through httpmon. The batches come from one of two sources:
   - `build_batches(hour)`;
   - with `exponential_workload`, the frame made by `generate_request_workload`.
6. **Metrics.** Prometheus metrics are accumulated.

The data comes from `Region.load_regions` (`src/CAP/region.py`), which uses `Util.validate_date_and_load_file` (`src/CAP/util.py`). That function finds the start date in `requests.csv` and `carbon_intensities.csv` and slices `TIMESTEPS + 24` rows.

The code is single-threaded. The concurrency lies outside it: Kubernetes rolls deployments out asynchronously, and traefik and gobetween re-read the files the loop rewrites.

## Modules

| Module | Models | State / actions |
|---|---|---|
| `CasperOptimizer` | `milp_scheduler.py`, `CAP.servers_per_region_predetermined`, `simulation.calculate_weights` | Pure operators (see below). |
| `CasperProvision` | one run of `_run`, hour by hour | Variables `scheduler` (`Config.SCHEDULER`, chosen in `Init` from `Schedulers` and fixed for the run), `hour`, `pc`, `demand`, `carbon`, `decision`, `deployed`, `weights`, `lbWeights`, `sent`. Actions `Provision`, `PatchSetup`, `Weights`, `UpdateTraefikWeights`, `RunWorkload`, `Finish`. |
| `MC_Provision` | two regions and their `latency.csv` | The link r1→r2 is exactly `MAX_LATENCY`; the link r2→r1 is NaN. |
| `CasperWorkloadLoop` | the request-scheduling part of each hour of `_run` | The Python local `timestep` is a variable, `Unbound` until the `for` assigns it. |
| `CasperData` | `load_regions`, `validate_date_and_load_file` | Each validated file is `[len, pos]`: its row count, and the first row holding the start date or `NotFound`. |
| `CasperHourly` | what the loop promises (spec §3, §4.3, §4.4, §7, §8) | Abstract: `ahour`, `astatus`, `ademand`, `adecision`. Actions `Decide` (an admissible decision for the hour's demand), `Abort` (only when no admissible decision exists, or on a zero-demand hour), `Complete`. |
| `CasperDeploy` (`MC_Deploy`) | `_run` composed with `patch_setup`, `update_deployment`, `update_traefik_weights`, `start/stop_traefik`, the Kubernetes controller and the traefik processes | Loop: `Provision`, `PatchSetup` (`GetDeployment` then `PatchDeployment` per deployment), `OpenTraefikConfig` (open with `'w'` truncates), `DumpTraefikConfig`, `SendBatches`, `EndHour`, `Finish`. Environment: `RolloutStatus` (a status write changes the resourceVersion), `RolloutComplete`, `Reload(t)` (traefik t loads the file; an empty file may load as no routes). |
| `CasperSetup` (`MC_Setup`) | `build_setup` and `teardown_setup` of the `Deployer` of `src/CAP/deploy.py` across program runs, with the API server's asynchronous deletion | `dep[r]`, `svc[r]` are `absent`, `present` or `terminating`, and `Init` allows any cluster state; `located` is `Deployer.locations`, filled by `get_location_info` from the services. Program: `StartBuild` (the constructor's `get_location_info`, then the secret), `BuildRegion` (a create of an existing or terminating name gets 409 and is caught), `EndBuild`, `StartTeardown`, `DeleteDeployment`, `ListServices`, `DeleteService` (a delete of a removed name gets 404, uncaught), `EndTeardown`, `Restart`. Environment: `RemoveDeployment(r)`, `RemoveService(r)`. |
| `CasperMetrics` (`MC_Metrics`) | the timesteps of `_run` with `reset_promestheus_stats`, `simulate_workload` (its httpmon sessions), `get_relevant_metrics` with `fill_served_requests` and `fill_request_service_time` | `counter` and `durSum` are each traefik's per-pair request counter and duration sum; `series` and `dSeries` are what Prometheus holds of them (or `Absent`); `served`, `timeSum`, `timeCount` are the `Metrics` member frames; `running` the sessions not yet ended. Actions `ResetPromestheusStats` (deletes `series` only, as its `match[]` says), `StartSessions`, `SessionDone(i)` (httpmon i sends its requests; each takes a duration from `Durations`), `EndSessions`, `GetRelevantMetrics`; `Scrape(i)` is Prometheus's asynchronous scrape. `AvgServiceTime` is `sum * 1000 / count` with `fillna(eps)`. |

The operators of `CasperOptimizer`:

- The MILP is modelled by its constraints, written as in the code (`MaxServerConst`, `CapacityConst`, `SchedAllReqsConst`, `LatencyConst`), over the bounded variable space.
- Each objective is multiplied by a positive constant so that it becomes an integer. This preserves the set of optimal points.
- `Solve` returns every optimal point, or the failed outcome when the problem is infeasible.
- A normalizer of `1/0` makes numpy produce `inf`. What CBC then does is outside the code, so `Solve` returns both outcomes, failure or an optimum.
- `ToInt` models `int(varValue)`. When `SolverSlack` is set, a value v ≥ 1 may come back as v - 1. The checked runs set it to FALSE; `TruncAlwaysDown`, a `math.floor` reading, is the variant that `TypeOK` detects.
- `Mask` is the mask over axis 0.
- `ReplayDecision` is `ceil(rates/cap)` servers with `diag(rates)` routing.
- `CalculateWeights` is the column sums × 100 / total, truncated. A zero total gives NaN, which the cast turns into int64 min (`Int64Min`).

Operators named `...Strict`, `...AtMost`, `...ByOrigin`, `...Floor`, `...Swallow` and `TruncAlwaysDown` are bug variants: plausible mistakes in the code, each of which some checked property detects. The main specification uses none of them.

## Runs

| Run | Checks | Result |
|---|---|---|
| `provision` (all three schedulers) | `TypeOK`, `FlowConservation`, `CapacityRespected`, `LatencyCeiling`, `WeightedRegionsHaveServers`, `WeightSumDrift`, `InfeasibleIffNoSchedule`, `HourlySpec` | pass |
| `zero_demand_weights` | `WeightsAreProportions` (replay) | violation |
| `workload_timestep_unbound` | `Termination`, exponential workload | violation |
| `data_window` | `LoadFailsOnlyAsSpecified` | violation |
| `deploy_patch` | `PatchCoversAllDeployments` | pass |
| `deploy_stale_measurement` | `MeasuredUnderCurrentDecision` | violation |
| `deploy_patch_conflict` | `PatchNeverAborts` | violation |
| `metrics_cumulative` | `MeasuredIsLastWindow`, a scrape always falls in the 5 s sleep | violation |
| `metrics_service_time` | `ServiceTimeIsLastWindow`, a scrape always falls in the 5 s sleep | violation |
| `setup_rebuild` | `SetupComplete` | violation |
| `setup_teardown` | `TeardownCompletes` | violation |

What the passing runs show:

- **Decisions.** Every decision the loop deploys conserves flow and respects capacity after the mask. Under the carbon strategy, a decision never routes over a NaN link or a link above the ceiling; NaN is caught only because `compute_latencies` replaces it with the penalty. The run aborts exactly on the hours the spec's constraints (§4.3) make infeasible, plus the zero-demand hours whose `1/0` normalizer makes the objective undefined.
- **Weights.** The load balancer never weights a region that has no servers. Truncation lowers the sum of the weights by less than one per region.
- **Refinement.** Under the mapping `ahour` = hours decided, `astatus` from `pc`, `ademand` = `RatesOf(demand)` and `adecision` = the deployed decision, every step of `CasperProvision` is a step of `CasperHourly`. So each deployed decision is admissible for its hour's demand, hours go in order, and an abort happens only on an hour the spec's constraints make infeasible (or a zero-demand hour). `CasperHourly` is stated without fairness: checking fairness through the mapping would make TLC re-run the solver for every `ENABLED` test. Termination is checked on `CasperWorkloadLoop` instead.
- **Deployer.** With the controller and traefik running concurrently, a `patch_setup` that meets no conflict leaves every deployment at the hour's servers.

What the violations show (each is a finding in `PROJECT.json`):

1. **Zero demand.** An hour with zero demand sends the weight int64-min to traefik (`simulation.py:106`).
2. **Unbound `timestep`.** The exponential-workload path reads `timestep` before the `for` loop binds it (`simulation.py:202`), so the first hour crashes.
3. **Stale measurement.** Only `sleep(0.5)` separates the traefik file rewrite from the workload, and nothing waits for the rollout. An hour's batches can therefore be routed with the previous weights, or with an empty configuration loaded between truncation and dump, to pods of the previous size (`deploy.py:133`; spec §5).
4. **Patch conflict.** `update_deployment` sends back the object it read, `resourceVersion` included. A controller status write in between gives 409 Conflict, which nothing catches, and the run ends (`deploy_utils.py:219`).
5. **Metrics window.** `delete_series` removes Prometheus's copy, not traefik's counter, so the counts read are totals since traefik started (`metrics.py:118`). The run lets a scrape fall in every `sleep(5)`. With `ScrapeInSleep = FALSE` a second cause shows first: a read before the next scrape finds no series, and `fill_served_requests` keeps the previous value (`metrics.py:69`).
6. **Rebuild while terminating.** Deletion is asynchronous: `teardown_setup` returns while the deployments and services are still terminating. A `build_setup` started then gets 409 AlreadyExists for each of them, catches it, and logs "Setup Completed"; the objects then disappear and the cluster has no servers (`CAP/deploy.py:244`; spec §6). The trace starts from a cluster whose service r2 is still terminating from an earlier teardown.
7. **Service time over all requests.** `reset_promestheus_stats` deletes only the `traefik_service_requests_total` series (`metrics.py:118`). The duration sum and count series are never deleted, and `fill_request_service_time` copies them into member frames. So the average service time returned for a window is the average over every request since traefik started (spec §6 asks for the statistics of a completed window). The trace: a pair serves a request of duration 1 in the first window and one of duration 2 in the second, and the second window reports 1.5.
8. **Teardown after teardown.** `teardown_setup` deletes what one listing returned, including objects that are still terminating. If the API server removes one between the listing and its delete, `delete_deployment` gets 404. Nothing catches it, so the teardown ends before the services are deleted (`CAP/deploy.py:284`). The trace starts from a deployment still terminating from an earlier teardown.
9. **Load window edges.** `validate_date_and_load_file` asserts `start > 0` and `end < len(df)` (`util.py:105`, `util.py:108`). A start date on the first row, or a window of `TIMESTEPS + 24` rows that ends exactly at the last row, raises AssertionError, although spec §4.1 asks only that the date exists and the window fits. The trace: two 26-row files with the start date on row 0.

Some disagreements between code and spec are single calls that a unit test reaches directly, so no run is spent on them:
- `generate_request_workload` does not rescale its draws, so it does not preserve the hour's volume (`CAP.py:180`; spec §4.2);
- `teardown_setup` deletes the secret by the undefined name `secret_name`; the NameError is caught by the bare `except`, so the secret `regcred` is never deleted (`CAP/deploy.py:297`);
- on a cluster with no services, the CAP `Deployer`'s `locations` are all `None` and `build_setup` raises TypeError at `self.locations[location]['replicas']` (`CAP/deploy.py:235`). `CasperSetup` has this step, but no property is spent on it.

## Bounds

| Model | Bounds | Why they are enough |
|---|---|---|
| Provision | 2 regions, `MAX_SERVERS_PER_REGION = 1`, capacity 2, demand 0..3 per region, carbon intensity in {1, 3}, 2 hours | A demand of 3 exceeds one region's capacity, so hours occur that need cross-region routing, hours that are infeasible, zero-demand hours, and hours where either region is cleaner. One link sits exactly on the latency ceiling and one is NaN. |
| Workload loop | the code's values: 24 hours, 3 timesteps | — |
| Setup | 2 regions; program runs unbounded | The object states are finite, so TLC explores every order of builds, teardowns, crashes and removals. Two regions let a removal fall between two deletes of one teardown; `Init` ranges over the 162 cluster states of two regions. |
| Data | `TIMESTEPS = 2`; files of 25 to 28 rows; every start position | The window `T + 24` (26 rows) fits a 26-row file only from its first row and only up to its last: both edges the code's asserts refuse. |
| Deploy | 2 regions, 2 hours, 3 timesteps, two decisions (one moves all traffic to r1 and scales r2 to 0, the other keeps both) | Every hour changes some deployment, so rollouts and status writes race the next GET; consecutive hours change the weights, so a late reload is observable. |
| Metrics | 2 regions, 3 timesteps, 0..1 requests per pair and window, durations in {1, 2} | A window with fewer requests than an earlier one exists, so a cumulative count is told apart from a window count; two durations make a cumulative average differ from a window's. |

## Fairness

`CasperProvision` and `CasperWorkloadLoop` assume weak fairness of `Next`. The loop is a single sequential thread that never waits, so it always takes its next step. The solver call blocks but always returns. `CasperDeploy` states only safety properties and has no fairness: its runs ask what the loop may observe, not whether it progresses. `CasperSetup` has no fairness: the operator starts program runs when they like, and may stop. The other modules state only safety properties.

## Not modelled

- `verify_requests_to`, `calculate_server_stats` and `reset_request_counts` in `workload.py`: reporting the loop never calls. The httpmon command line (URL, think time, concurrency) is process I/O; only its request count and its termination are modelled.
- Cluster content that has no control state: the pod templates and service specs of `build_setup`; `label_nodes`; `update_traefik_backends`; `start/stop_prometheus`. `get_location_info` is modelled only as which locations are `None`.
- `self.deployments` bookkeeping: `build_setup` keys it by location, `teardown_setup` deletes by object name, so the delete does nothing; nothing reads it afterwards.
- The standalone scripts `autoscaler.py` (it calls `update_deployment` with two of its three arguments, and its location keys never match the pods' labels, so it cannot run), `lb_verify.py`, `plot_test.py`; `src/deploy.py`, which does `import utils` although the repository has no such module, so it stops at import; the gobetween weight script, and plotting.
- The workload generators of `CAP.py`: `generate_exponential_batches` has no caller (its call is commented out), and `generate_request_workload` is reached only after the UnboundLocalError of finding 2.
- `REQUEST_RATE` other than 0. With it set, replay's decision and `build_batches`' loads disagree. This is a data mismatch, and no control property tells it apart.
- What a later run finds when an exception skipped `stop_traefik`: it is outside the code.
