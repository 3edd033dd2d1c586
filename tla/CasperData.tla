----------------------------- MODULE CasperData -----------------------------
(***************************************************************************)
(* Region.load_regions (src/CAP/region.py) and the loaders of              *)
(* src/CAP/util.py.  Only the position of the start timestamp in a file    *)
(* and the file's length matter to the checks, so a timestamped file is    *)
(* modelled as [len, pos]: pos is the first row whose timestamp equals     *)
(* START_DATE, or NotFound.  offset.csv and latency.csv are read without   *)
(* validation; requests.csv and carbon_intensities.csv are validated and   *)
(* sliced, in that order.                                                  *)
(***************************************************************************)
EXTENDS Integers

CONSTANTS
  Timesteps,   \* Config.TIMESTEPS (the hours of the run)
  Lengths,     \* the row counts a data file may have
  NotFound     \* no row matches the start timestamp

ASSUME Timesteps \in Nat /\ Lengths \subseteq Nat

(* validate_date_and_load_file slices 24 hours beyond the run.             *)
Lookahead == 24

Files == {"request", "carbon"}
FileStates ==
  UNION {{[len |-> n, pos |-> p] : p \in {NotFound} \cup 0..(n - 1)} : n \in Lengths}

VARIABLES
  files,    \* the data files as found on disk
  status,   \* "idle", "loaded" or the error raised
  slices    \* slices[f] = [first, last + 1) of the rows kept of file f

vars == <<files, status, slices>>

(* Util.validate_date_and_load_file: the three assertions in order, then  *)
(* the window [start, end).                                                *)
Validate(f) ==
  IF f.pos = NotFound THEN "DateNotFound"
  ELSE IF ~(f.pos > 0) THEN "StartAtFirstRow"
  ELSE IF ~(f.pos + Timesteps + Lookahead < f.len) THEN "WindowOverflow"
  ELSE "ok"

(* df.iloc[start:end], end = start + TIMESTEPS + 24, clipped by pandas.    *)
WindowOf(f) ==
  [first |-> f.pos,
   end |-> IF f.pos + Timesteps + Lookahead <= f.len
             THEN f.pos + Timesteps + Lookahead ELSE f.len]

Init ==
  /\ files \in [Files -> FileStates]
  /\ status = "idle"
  /\ slices = [f \in Files |-> [first |-> 0, end |-> 0]]

(* load_regions: load_request_from_file, then load_carbon_intensity_from_file; *)
(* the first failed assertion propagates.                                  *)
LoadRegions ==
  /\ status = "idle"
  /\ LET r == Validate(files["request"])
         c == Validate(files["carbon"])
     IN IF r # "ok" THEN /\ status' = r
                         /\ UNCHANGED slices
        ELSE IF c # "ok" THEN /\ status' = c
                              /\ UNCHANGED slices
        ELSE /\ status' = "loaded"
             /\ slices' = [f \in Files |-> WindowOf(files[f])]
  /\ UNCHANGED files

Returned ==
  /\ status # "idle"
  /\ UNCHANGED vars

Next == LoadRegions \/ Returned

Spec == Init /\ [][Next]_vars

-----------------------------------------------------------------------------
TypeOK ==
  /\ files \in [Files -> FileStates]
  /\ status \in {"idle", "loaded", "DateNotFound", "StartAtFirstRow", "WindowOverflow"}
  /\ slices \in [Files -> [first : Nat, end : Nat]]

(* Spec section 4.1: loading fails with DateNotFound when no row matches   *)
(* the start timestamp, or WindowOverflow when the horizon plus the        *)
(* 24-hour lookahead runs past the end of the data.  load_regions returns  *)
(* the windows exactly when every validated file holds the start date and  *)
(* the rows [start, start + TIMESTEPS + 24).                               *)
LoadFailsOnlyAsSpecified ==
  status # "idle" =>
    ((status = "loaded") <=>
       \A f \in Files : /\ files[f].pos # NotFound
                        /\ files[f].pos + Timesteps + Lookahead <= files[f].len)

=============================================================================
