------------------------------- MODULE Drift --------------------------------
(***************************************************************************)
(* The drift reducer of drift.rs: what one closed window of telemetry does *)
(* to the drift state of a run.  No variables.  A window is its start, a   *)
(* multiple of Window; what came with it is a record of its total count    *)
(* and of its distance from the baseline (detect.rs, tvd_bp), or Missing.  *)
(***************************************************************************)
EXTENDS Naturals

CONSTANTS
    Window,         \* WINDOW_MS
    MinSamples,     \* policy: min_window_samples
    DriftHigh,      \* policy: drift_high_bp
    DriftLow,       \* policy: drift_low_bp
    HighWindows,    \* policy: high_windows
    LowWindows,     \* policy: low_windows
    Missing         \* nothing was supplied for the window

ASSUME DriftAssumption ==
    /\ Window \in Nat \ {0} /\ MinSamples \in Nat
    /\ DriftHigh \in Nat /\ DriftLow \in Nat /\ DriftLow < DriftHigh
    /\ HighWindows \in Nat \ {0} /\ LowWindows \in Nat \ {0}

DriftStates == {"WARMUP", "STABLE", "SUSPECT", "DRIFT"}

(* last = 0 before the first window; no window starts at 0. *)
DriftRecord ==
    [state : DriftStates, high : Nat, low : Nat, last : Nat]

NoDrift == [state |-> "WARMUP", high |-> 0, low |-> 0, last |-> 0]

High(k) == k # Missing /\ k.total >= MinSamples /\ k.score >= DriftHigh
Low(k) == k # Missing /\ k.total >= MinSamples /\ k.score < DriftLow
Middle(k) ==
    /\ k # Missing /\ k.total >= MinSamples
    /\ DriftLow <= k.score /\ k.score < DriftHigh

To(d, start, state, high, low) ==
    [state |-> state, high |-> high, low |-> low, last |-> start]

(* Mutant: windows in between are not noticed. *)
NeverFollows(d, start) == TRUE

(* No window was skipped since the last one. *)
Follows(d, start) == d.last = 0 \/ start <= d.last + Window

(* A missing, skipped or thin window: DRIFT is latched, all else warms up. *)
Reset(d, start) ==
    To(d, start, IF d.state = "DRIFT" THEN "DRIFT" ELSE "WARMUP", 0, 0)

AfterHigh(d, start) ==
    CASE d.state = "DRIFT" -> To(d, start, "DRIFT", 0, 0)
      [] d.state = "SUSPECT" ->
           IF d.high + 1 >= HighWindows
           THEN To(d, start, "DRIFT", HighWindows, 0)
           ELSE To(d, start, "SUSPECT", d.high + 1, 0)
      [] OTHER -> To(d, start, "SUSPECT", 1, 0)

AfterMiddle(d, start) ==
    To(d, start, IF d.state = "DRIFT" THEN "DRIFT" ELSE "STABLE", 0, 0)

AfterLow(d, start) ==
    IF d.state = "DRIFT" /\ d.low + 1 < LowWindows
    THEN To(d, start, "DRIFT", 0, d.low + 1)
    ELSE To(d, start, "STABLE", 0, 0)

Step(d, start, k) ==
    IF d.last # 0 /\ start <= d.last THEN d
    ELSE IF ~Follows(d, start) THEN Reset(d, start)
    ELSE IF High(k) THEN AfterHigh(d, start)
    ELSE IF Low(k) THEN AfterLow(d, start)
    ELSE IF Middle(k) THEN AfterMiddle(d, start)
    ELSE Reset(d, start)

=============================================================================
