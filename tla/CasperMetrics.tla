---------------------------- MODULE CasperMetrics ----------------------------
(***************************************************************************)
(* The request-scheduling timesteps of an hour of _run (src/simulation.py) *)
(* as the metrics see them: Metrics.reset_promestheus_stats, then          *)
(* Workload.simulate_workload sends the batches through the traefik        *)
(* instances, then Metrics.get_relevant_metrics (src/CAP/metrics.py) reads *)
(* the per-pair request counters and the loop adds them up.                *)
(*                                                                         *)
(* traefik_service_requests_total is a counter kept by each traefik        *)
(* process; Prometheus scrapes it asynchronously; delete_series removes    *)
(* the stored series, not the counter.  Each traefik also keeps, per      *)
(* pair, the sum of the service durations of the requests it served        *)
(* (traefik_service_request_duration_seconds_sum; its _count is the        *)
(* request count), which delete_series leaves alone.  simulate_workload    *)
(* runs one httpmon session per region concurrently and waits for all.     *)
(***************************************************************************)
EXTENDS Naturals, FiniteSetsExt

CONSTANTS
  Regions,      \* the traefik instances (origins) and services (targets)
  Timesteps,    \* request-scheduling timesteps of the hour
  MaxPerStep,   \* bound on the requests of one pair in one timestep
  Absent,       \* no series: the query returns []
  Durations,    \* the service durations a request may take
  ScrapeInSleep \* a scrape always falls in simulate_workload's sleep(5)

ASSUME Timesteps \in Nat \ {0} /\ MaxPerStep \in Nat /\ ScrapeInSleep \in BOOLEAN
ASSUME Durations \subseteq Nat \ {0}

VARIABLES
  ts, pc,
  counter,   \* counter[i][j]: traefik i's requests served by j so far
  series,    \* series[i][j]: the value Prometheus holds, or Absent
  served,    \* Metrics.served_requests
  window,    \* window[i][j]: the requests of the last simulate_workload
  totalTo,   \* total_requests_to of _run
  running,   \* the regions whose httpmon session has not yet ended
  durSum,    \* durSum[i][j]: traefik i's duration sum for service j
  dSeries,   \* dSeries[i][j]: Prometheus's [sum, count] of it, or Absent
  winDur,    \* winDur[i][j]: the duration sum of the last window
  timeSum,   \* Metrics.request_service_time_sum
  timeCount  \* Metrics.request_service_time_count

vars == <<ts, pc, counter, series, served, window, totalTo,
          running, durSum, dSeries, winDur, timeSum, timeCount>>
dvars == <<running, durSum, dSeries, winDur, timeSum, timeCount>>

Pairs == [Regions -> [Regions -> Nat]]
Zero == [i \in Regions |-> [j \in Regions |-> 0]]
Plus(a, b) == [i \in Regions |-> [j \in Regions |-> a[i][j] + b[i][j]]]
ColumnTotals(m) == [j \in Regions |-> SumFunction([i \in Regions |-> m[i][j]])]

(* Metrics.__init__ zeroes served_requests; traefik starts at 0 and      *)
(* Prometheus has scraped it.  traefik exposes a pair's duration series   *)
(* from its first request on, so none exists yet.                          *)
Init ==
  /\ ts = 0
  /\ pc = "reset"
  /\ counter = Zero
  /\ series = Zero
  /\ served = Zero
  /\ window = Zero
  /\ totalTo = [j \in Regions |-> 0]
  /\ running = {}
  /\ durSum = Zero
  /\ dSeries = [i \in Regions |-> [j \in Regions |-> Absent]]
  /\ winDur = Zero
  /\ timeSum = Zero
  /\ timeCount = Zero

(* metrics_obj.reset_promestheus_stats(): POST delete_series for          *)
(* traefik_service_requests_total.                                         *)
ResetPromestheusStats ==
  /\ pc = "reset"
  /\ ts < Timesteps
  /\ series' = [i \in Regions |-> [j \in Regions |-> Absent]]
  /\ pc' = "send"
  /\ UNCHANGED <<ts, counter, served, window, totalTo>>
  /\ UNCHANGED dvars

(* workload_obj.simulate_workload(batches): load_batch, then             *)
(* start_session(region) for every region: one httpmon process each.       *)
StartSessions ==
  /\ pc = "send"
  /\ running' = Regions
  /\ pc' = "sessions"
  /\ UNCHANGED <<ts, counter, series, served, window, totalTo>>
  /\ UNCHANGED <<durSum, dSeries, winDur, timeSum, timeCount>>

(* httpmon of region i sends its --count requests through traefik i and   *)
(* terminates; traefik counts each one, and its duration, for the service *)
(* j that served it.                                                        *)
SessionDone(i) ==
  /\ i \in running
  /\ \E sent \in [Regions -> 0..MaxPerStep], d \in [Regions -> Durations] :
       /\ window' = [window EXCEPT ![i] = sent]
       /\ winDur' = [winDur EXCEPT ![i] = [j \in Regions |-> sent[j] * d[j]]]
       /\ counter' = [counter EXCEPT ![i] = [j \in Regions |-> @[j] + sent[j]]]
       /\ durSum' = [durSum EXCEPT ![i] = [j \in Regions |-> @[j] + sent[j] * d[j]]]
  /\ running' = running \ {i}
  /\ UNCHANGED <<ts, pc, series, served, totalTo, dSeries, timeSum, timeCount>>

(* end_session(region) waits for each process in turn; then sleep(5).     *)
EndSessions ==
  /\ pc = "sessions"
  /\ running = {}
  /\ pc' = "metrics"
  /\ UNCHANGED <<ts, counter, series, served, window, totalTo>>
  /\ UNCHANGED <<running, durSum, dSeries, winDur, timeSum, timeCount>>

(* What a scrape of traefik i stores of its duration metrics.             *)
DurSnapshot(i) ==
  [j \in Regions |-> IF counter[i][j] = 0 THEN Absent
                     ELSE [sum |-> durSum[i][j], count |-> counter[i][j]]]

(* Prometheus scrapes traefik instance i, whenever its interval elapses.   *)
Scrape(i) ==
  /\ series[i] # counter[i] \/ dSeries[i] # DurSnapshot(i)
  /\ series' = [series EXCEPT ![i] = counter[i]]
  /\ dSeries' = [dSeries EXCEPT ![i] = DurSnapshot(i)]
  /\ UNCHANGED <<ts, pc, counter, served, window, totalTo>>
  /\ UNCHANGED <<running, durSum, winDur, timeSum, timeCount>>

(* fill_served_requests: the current value of each pair's series, the     *)
(* entry left as it was when the query returns nothing.                    *)
FillServedRequests(s, old) ==
  [i \in Regions |-> [j \in Regions |->
     IF s[i][j] = Absent THEN old[i][j] ELSE s[i][j]]]

(* fill_request_service_time: the sum and count series of each pair into  *)
(* the member frames; a pair with no series keeps its previous entries     *)
(* (the zeroed local frames are never used).                               *)
FillRequestServiceTime(ds, old, field) ==
  [i \in Regions |-> [j \in Regions |->
     IF ds[i][j] = Absent THEN old[i][j] ELSE ds[i][j][field]]]

(* weighted_avg = sum * 1000 / count, then fillna(eps): a pair without    *)
(* requests (0/0) gets eps, kept here as a zero denominator.               *)
AvgServiceTime(sum, count) ==
  IF count = 0 THEN [num |-> 0, den |-> 0] ELSE [num |-> sum * 1000, den |-> count]

(* get_relevant_metrics, then total_requests_to += requests_to.            *)
GetRelevantMetrics ==
  /\ pc = "metrics"
  /\ ScrapeInSleep => series = counter /\ dSeries = [i \in Regions |-> DurSnapshot(i)]
  /\ LET now == FillServedRequests(series, served)
     IN /\ served' = now
        /\ totalTo' = [j \in Regions |-> totalTo[j] + ColumnTotals(now)[j]]
  /\ timeSum' = FillRequestServiceTime(dSeries, timeSum, "sum")
  /\ timeCount' = FillRequestServiceTime(dSeries, timeCount, "count")
  /\ ts' = ts + 1
  /\ pc' = IF ts + 1 = Timesteps THEN "done" ELSE "reset"
  /\ UNCHANGED <<counter, series, window, running, durSum, dSeries, winDur>>

Done ==
  /\ pc = "done"
  /\ UNCHANGED vars

Next ==
  \/ ResetPromestheusStats \/ StartSessions \/ EndSessions \/ GetRelevantMetrics \/ Done
  \/ \E i \in Regions : SessionDone(i) \/ Scrape(i)

Spec == Init /\ [][Next]_vars

-----------------------------------------------------------------------------
TypeOK ==
  /\ pc \in {"reset", "send", "sessions", "metrics", "done"}
  /\ running \subseteq Regions /\ timeSum \in Pairs /\ timeCount \in Pairs
  /\ counter \in Pairs /\ served \in Pairs /\ window \in Pairs
  /\ series \in [Regions -> [Regions -> Nat \cup {Absent}]]

(* Spec section 6: the metrics collaborator supplies the request counts   *)
(* of a completed measurement window; the Metrics docstring: served_requests *)
(* counts the requests arriving at i and served by j.  After each          *)
(* reset-send-read round, what get_relevant_metrics returned is the        *)
(* window just sent.                                                       *)
MeasuredIsLastWindow ==
  (pc \in {"reset", "done"} /\ ts > 0) => served = window

(* Spec section 6: the metrics collaborator supplies service-time          *)
(* statistics of a completed measurement window.  After each round, the    *)
(* average service time get_relevant_metrics returns for a pair that       *)
(* served requests in the window is the average of those requests'         *)
(* durations.                                                              *)
ServiceTimeIsLastWindow ==
  (pc \in {"reset", "done"} /\ ts > 0) =>
    \A i, j \in Regions : window[i][j] > 0 =>
      LET a == AvgServiceTime(timeSum[i][j], timeCount[i][j])
      IN a.den > 0 /\ a.num * window[i][j] = winDur[i][j] * 1000 * a.den

=============================================================================
