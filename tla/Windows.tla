------------------------------ MODULE Windows -------------------------------
(***************************************************************************)
(* Trailing telemetry: windows of counts come with observations, tick()    *)
(* evaluates the windows that are due with the rate and the distribution   *)
(* monitor, moves the drift state of the run (Drift) and opens, counts and *)
(* resolves alert episodes with their trailing review cards; operators     *)
(* acknowledge and resolve alerts.                                         *)
(*                                                                         *)
(* OPEN and PAUSED runs are the LIVE ones: their windows are evaluated     *)
(* alike.  A window stands for its start, and the window an observation    *)
(* carries for the observation: alerts refer to it.  The card of an alert  *)
(* is here as it was opened; its further life is that of ReviewQueue, and  *)
(* what only moves cards (policies, restarts) is left to it.               *)
(***************************************************************************)
EXTENDS Reviews, Daemon, Drift, Sequences, FiniteSets

CONSTANTS
    Counts,         \* what a window may carry: [total, score]
    DueDelay,       \* WINDOW_DUE_MS
    RateLimit,      \* policy: rate_per_window
    ReviewTtl,      \* policy: review_ttl_ms
    Batch,          \* the most windows of a run that one tick evaluates
    MaxStart,       \* bound: the last start of a window
    NoRow,          \* no windows row
    Unlinked        \* TRUE: an observation may be stored without its window

Trailing == {"rate", "distribution"}

ASSUME WindowsStepAssumption == FirstStep = "windows"
ASSUME WindowsAssumption ==
    /\ Counts \subseteq [total : Nat, score : Nat] /\ Missing \notin Counts
    /\ NoRow \notin Counts /\ NoRow # Missing
    /\ DueDelay \in Nat /\ RateLimit \in Nat /\ ReviewTtl \in Nat
    /\ Batch \in Nat \ {0} /\ MaxStart \in Nat
    /\ Unlinked \in BOOLEAN

VARIABLES
    runs,       \* run -> [state, opened]
    supplied,   \* run -> start -> the counts the last observation of it had
    rows,       \* run -> start -> its windows row: NoRow, Missing (NULL) or counts
    drift,      \* run -> drift record
    trail,      \* run -> its TrailingEvaluated events
    alerts,     \* run -> monitor -> its alerts, oldest first
    batch       \* run -> the windows that the running tick took up

store == <<runs, supplied, rows, drift, trail, alerts>>
vars == <<now, phase, after, batch, store>>

Start == {s \in 1 .. MaxStart : s % Window = 0}

Alert ==
    [state : {"OPEN", "ACKNOWLEDGED", "RESOLVED"}, revision : Nat,
     first : Start, last : Start, occurrences : Nat, card : Review]

TypeOK ==
    /\ CycleTypeOK({"windows", "evaluating"})
    /\ runs \in [Run -> [state : {"ABSENT", "LIVE", "ENDED"}, opened : Nat]]
    /\ supplied \in [Run -> [Start -> Counts \cup {Missing}]]
    /\ rows \in [Run -> [Start -> Counts \cup {NoRow, Missing}]]
    /\ drift \in [Run -> DriftRecord]
    /\ trail \in [Run -> Seq([start : Start, counts : Counts \cup {Missing},
                              flags : SUBSET Trailing])]
    /\ alerts \in [Run -> [Trailing -> Seq(Alert)]]
    /\ batch \in [Run -> SUBSET Start]

Init ==
    /\ CycleInit
    /\ runs = [r \in Run |-> [state |-> "ABSENT", opened |-> 0]]
    /\ supplied = [r \in Run |-> [s \in Start |-> Missing]]
    /\ rows = [r \in Run |-> [s \in Start |-> NoRow]]
    /\ drift = [r \in Run |-> NoDrift]
    /\ trail = [r \in Run |-> << >>]
    /\ alerts = [r \in Run |-> [m \in Trailing |-> << >>]]
    /\ batch = [r \in Run |-> {}]

Live(r) == runs[r].state = "LIVE"

-----------------------------------------------------------------------------
(* tick() *)

(* Windows from the first boundary at or after the opening of the run on,  *)
(* that are over by time t for as long as an observation may take.         *)
Expected(r, t) ==
    {s \in Start : runs[r].opened <= s /\ s + Window + DueDelay <= t}

(* Mutant: what store.rs:681 calls a marker row does not count. *)
AttemptedWithCounts(r, s) == rows[r][s] \in Counts

(* window_attempted: any row counts, one with counts as well. *)
Attempted(r, s) == rows[r][s] # NoRow

(* Mutant: only the window that closed last is looked at. *)
LatestDue(r) ==
    {s \in Expected(r, now) :
        /\ Live(r) /\ ~Attempted(r, s)
        /\ \A other \in Expected(r, now) : other <= s}

DueWindows(r) == {s \in Expected(r, now) : Live(r) /\ ~Attempted(r, s)}

(* Mutant: a tick takes up any of the windows that are due. *)
TakesUpAny(r, b) == b \subseteq DueWindows(r) /\ Cardinality(b) <= Batch

(***************************************************************************)
(* process_windows takes up the windows that are due from the earliest on, *)
(* and stops when it has a full batch of them.                             *)
(***************************************************************************)
TakesUp(r, b) ==
    /\ b \subseteq DueWindows(r)
    /\ Cardinality(b) <= Batch
    /\ \A s \in DueWindows(r) \ b :
          Cardinality(b) = Batch /\ \A taken \in b : taken < s

(* detect.rs: the monitors that flag counts k of window s. *)
Flags(r, s, k) ==
    {m \in Trailing :
        /\ k # Missing
        /\ m = "rate" => k.total > RateLimit
        /\ m = "distribution" => /\ k.total >= MinSamples
                                 /\ Step(drift[r], s, k).state = "DRIFT"}

(* An episode ends by itself: the rate is fine again, or drift is left. *)
Clears(r, s, k, m) ==
    CASE m = "rate" -> k # Missing /\ k.total <= RateLimit
      [] m = "distribution" ->
           drift[r].state = "DRIFT" /\ Step(drift[r], s, k).state # "DRIFT"

(* Mutant: an acknowledged alert is not found again. *)
OnlyOpen(a) == a.state = "OPEN"

ActiveAlert(a) == a.state \in {"OPEN", "ACKNOWLEDGED"}

HasEpisode(r, m) == \E i \in DOMAIN alerts[r][m] : ActiveAlert(alerts[r][m][i])

(* Mutant: a repetition is not counted. *)
RepeatedSilently(a, s) == [a EXCEPT !.last = s, !.revision = @ + 1]

Repeated(a, s) ==
    [a EXCEPT !.occurrences = @ + 1, !.last = s, !.revision = @ + 1]

(* Mutant: an alert is closed the way a card is. *)
ClosedAlert(a) == [a EXCEPT !.state = "CLOSED", !.revision = @ + 1]

Resolved(a) == [a EXCEPT !.state = "RESOLVED", !.revision = @ + 1]

Level(m) == IF m = "distribution" THEN "critical" ELSE "warning"

(* AlertOpened, ReviewOpened, then AlertUpdated with the card. *)
NewAlert(r, m, s) ==
    [state |-> "OPEN", revision |-> 2, first |-> s, last |-> s,
     occurrences |-> 1,
     card |-> Opened(r, "trailing", Level(m), now + ReviewTtl)]

(* The active alert becomes what is said of it, the others stay. *)
ChangeActive(r, m, changed) ==
    [i \in DOMAIN alerts[r][m] |->
        IF ActiveAlert(alerts[r][m][i]) THEN changed[i] ELSE alerts[r][m][i]]

AlertsAfter(r, s, k, m) ==
    LET as == alerts[r][m] IN
    IF m \in Flags(r, s, k)
    THEN IF HasEpisode(r, m)
         THEN ChangeActive(r, m, [i \in DOMAIN as |-> Repeated(as[i], s)])
         ELSE Append(as, NewAlert(r, m, s))
    ELSE IF Clears(r, s, k, m)
         THEN ChangeActive(r, m, [i \in DOMAIN as |-> Resolved(as[i])])
         ELSE as

(* The runs share nothing here, so that all batches are taken up at once. *)
TakeUp ==
    /\ NextStep("windows", "evaluating")
    /\ batch' \in [Run -> SUBSET Start]
    /\ \A r \in Run : TakesUp(r, batch'[r])
    /\ UNCHANGED store

(***************************************************************************)
(* process_one_window for the earliest window of the batch of run r that   *)
(* is left.  The batch of a run is one transaction; a crash inside it is a *)
(* crash before it.                                                        *)
(***************************************************************************)
Evaluate(r, s) ==
    LET k == supplied[r][s] IN
    /\ phase = "evaluating"
    /\ s \in batch[r] /\ ~Attempted(r, s)
    /\ \A other \in batch[r] : Attempted(r, other) \/ s <= other
    /\ rows' = [rows EXCEPT ![r][s] = k]
    /\ drift' = [drift EXCEPT ![r] = Step(drift[r], s, k)]
    /\ trail' = [trail EXCEPT ![r] =
          Append(@, [start |-> s, counts |-> k, flags |-> Flags(r, s, k)])]
    /\ alerts' = [alerts EXCEPT ![r] =
          [m \in Trailing |-> AlertsAfter(r, s, k, m)]]
    /\ UNCHANGED <<now, phase, after, runs, supplied, batch>>

TickReturns ==
    /\ \A r \in Run : \A s \in batch[r] : Attempted(r, s)
    /\ TickDone("evaluating")
    /\ batch' = [r \in Run |-> {}]
    /\ UNCHANGED store

-----------------------------------------------------------------------------
(* dispatch(), one request. *)

Handled == HandlerDone /\ UNCHANGED batch

Rejection == Handled /\ UNCHANGED store

OpenRun(r) ==
    /\ Handled
    /\ runs[r].state = "ABSENT"
    /\ runs' = [runs EXCEPT ![r] = [state |-> "LIVE", opened |-> now]]
    /\ UNCHANGED <<supplied, rows, drift, trail, alerts>>

(* The run is closed, or quarantined for another reason than its windows. *)
EndRun(r) ==
    /\ Handled
    /\ Live(r)
    /\ runs' = [runs EXCEPT ![r].state = "ENDED"]
    /\ UNCHANGED <<supplied, rows, drift, trail, alerts>>

(* A window must be over before the observation that carries it is cut. *)
Carries(r, s) == Live(r) /\ s + Window <= now

(***************************************************************************)
(* observations.append: the first to carry a window stores its row.  One   *)
(* that comes after the row changes nothing here if its counts agree, or   *)
(* if the row says that they were missing.                                 *)
(***************************************************************************)
Observe(r, s, k) ==
    /\ Handled
    /\ Carries(r, s)
    /\ ~Attempted(r, s)
    /\ supplied' = [supplied EXCEPT ![r][s] = k]
    /\ rows' = [rows EXCEPT ![r][s] = k]
    /\ UNCHANGED <<runs, drift, trail, alerts>>

(* Counts that changed quarantine the run. *)
ObserveChanged(r, s, k) ==
    /\ Handled
    /\ Carries(r, s)
    /\ rows[r][s] \in Counts \ {k}
    /\ runs' = [runs EXCEPT ![r].state = "ENDED"]
    /\ UNCHANGED <<supplied, rows, drift, trail, alerts>>

(***************************************************************************)
(* "the observation arrived but wasn't linked yet" (daemon.rs:1966): a row *)
(* of observations without one of windows.  The handler above never leaves *)
(* one behind; Store::tx_insert_observation alone does.                    *)
(***************************************************************************)
ArriveUnlinked(r, s, k) ==
    /\ Unlinked
    /\ phase = "idle"
    /\ Carries(r, s)
    /\ ~Attempted(r, s)
    /\ supplied' = [supplied EXCEPT ![r][s] = k]
    /\ UNCHANGED <<now, phase, after, batch, runs, rows, drift, trail, alerts>>

(* alerts.resolve, by an operator with the current revision. *)
Operate(r, m, i, a) ==
    /\ Handled
    /\ alerts' = [alerts EXCEPT ![r][m][i] = a]
    /\ UNCHANGED <<runs, supplied, rows, drift, trail>>

Acknowledge(r, m, i) ==
    /\ alerts[r][m][i].state = "OPEN"
    /\ Operate(r, m, i, [alerts[r][m][i] EXCEPT !.state = "ACKNOWLEDGED",
                                               !.revision = @ + 1])

ResolveAlert(r, m, i) ==
    /\ ActiveAlert(alerts[r][m][i])
    /\ Operate(r, m, i, Resolved(alerts[r][m][i]))

Take == Acquire /\ UNCHANGED <<batch, store>>

Signal == Signalled /\ UNCHANGED <<batch, store>>

Tick ==
    \/ TakeUp \/ TickReturns
    \/ \E r \in Run, s \in Start : Evaluate(r, s)

Next ==
    \/ Take \/ Signal \/ Tick \/ Rejection
    \/ \E r \in Run :
          \/ OpenRun(r) \/ EndRun(r)
          \/ \E s \in Start, k \in Counts :
                Observe(r, s, k) \/ ObserveChanged(r, s, k)
                    \/ ArriveUnlinked(r, s, k)
          \/ \E m \in Trailing : \E i \in DOMAIN alerts[r][m] :
                Acknowledge(r, m, i) \/ ResolveAlert(r, m, i)

Spec == Init /\ [][Next]_vars

(***************************************************************************)
(* A cycle always ends, and requests keep coming as time passes, and at    *)
(* the last reading, where time does not pass any more.                    *)
(***************************************************************************)
Fairness ==
    /\ WF_vars(Tick \/ Rejection)
    /\ SF_vars(Take /\ (now' > now \/ now = MaxNow))

FairSpec == Spec /\ Fairness

-----------------------------------------------------------------------------
(* Properties *)

(***************************************************************************)
(* Each window is evaluated at most once and none after a later one, with  *)
(* windows attempted in between, late observations, pauses and restarts:   *)
(* the drift reducer takes a window that comes late for a repetition.      *)
(***************************************************************************)
WindowsInOrder ==
    \A r \in Run : \A i, j \in DOMAIN trail[r] :
        i < j => trail[r][i].start < trail[r][j].start

(***************************************************************************)
(* At most one alert of a run and monitor is active, and no two have the   *)
(* same first observation: their ids would be the same, and the second     *)
(* would overwrite the first and its card.                                 *)
(***************************************************************************)
OneEpisode ==
    \A r \in Run, m \in Trailing : \A i, j \in DOMAIN alerts[r][m] :
        LET a == alerts[r][m][i]
            b == alerts[r][m][j]
        IN  \/ a.state # "RESOLVED" /\ b.state # "RESOLVED"
            \/ a.first = b.first
            => i = j

(***************************************************************************)
(* The distribution alert and the drift state of the run agree: while the  *)
(* alert is active the run is in DRIFT, whoever acknowledged it, and       *)
(* whatever was missing since.                                             *)
(***************************************************************************)
EpisodeIsDrift ==
    \A r \in Run : \A i \in DOMAIN alerts[r]["distribution"] :
        alerts[r]["distribution"][i].state # "RESOLVED" =>
            drift[r].state = "DRIFT"

(* The windows that monitor m flagged from the first to the last of a. *)
FlaggedDuring(r, m, a) ==
    {j \in DOMAIN trail[r] :
        /\ m \in trail[r][j].flags
        /\ a.first <= trail[r][j].start /\ trail[r][j].start <= a.last}

(***************************************************************************)
(* Every flag is accounted for, once: the episodes of a monitor follow     *)
(* each other, an alert has as many occurrences as windows were flagged    *)
(* from its first to its last observation, and no flagged window lies      *)
(* outside of all of them, however the alerts were resolved in between.    *)
(***************************************************************************)
FlagsCounted ==
    \A r \in Run, m \in Trailing : LET as == alerts[r][m] IN
        /\ \A i, j \in DOMAIN as : i < j => as[i].last < as[j].first
        /\ \A i \in DOMAIN as :
              as[i].occurrences = Cardinality(FlaggedDuring(r, m, as[i]))
        /\ \A j \in DOMAIN trail[r] : m \in trail[r][j].flags =>
              \E i \in DOMAIN as : j \in FlaggedDuring(r, m, as[i])

(* The k latest evaluated windows follow each other and all satisfy P. *)
LastAll(t, k, P(_)) ==
    /\ Len(t) >= k
    /\ \A i \in 1 .. k : P(t[Len(t) - i + 1].counts)
    /\ \A i \in 1 .. k - 1 :
          t[Len(t) - i + 1].start = t[Len(t) - i].start + Window

(***************************************************************************)
(* Drift is earned and left by evidence only: a run enters DRIFT with the  *)
(* last HighWindows windows supplied, next to each other and all high, and *)
(* leaves it with the last LowWindows all low, never by a gap.             *)
(***************************************************************************)
DriftIsEarned ==
    [][\A r \in Run :
          /\ drift[r].state # "DRIFT" /\ drift'[r].state = "DRIFT" =>
                LastAll(trail'[r], HighWindows, High)
          /\ drift[r].state = "DRIFT" /\ drift'[r].state # "DRIFT" =>
                LastAll(trail'[r], LowWindows, Low)]_vars

(* Window s of run r was evaluated, and with counts k. *)
Evaluated(r, s) == \E i \in DOMAIN trail[r] : trail[r][i].start = s
EvaluatedAs(r, s, k) ==
    \E i \in DOMAIN trail[r] : trail[r][i].start = s /\ trail[r][i].counts = k

(***************************************************************************)
(* A window without counts is not passed over: when a tick is done, each   *)
(* window of a live run that is over and has no counts on record was       *)
(* evaluated as missing, those before later ones included.  Only if the    *)
(* tick evaluated a full batch may some be left, and then nothing after    *)
(* them has been evaluated: the next ticks come to them.                   *)
(***************************************************************************)
MissingIsReviewed ==
    [][Ticking /\ ~Ticking' =>
        \A r \in Run : \A s \in Expected(r, now) :
            Live(r) /\ rows[r][s] \notin Counts =>
                \/ EvaluatedAs(r, s, Missing)
                \/ /\ Cardinality(batch[r]) = Batch
                   /\ \A taken \in batch[r] : Evaluated(r, taken)
                   /\ \A i \in DOMAIN trail[r] : trail[r][i].start < s]_vars

(***************************************************************************)
(* Every expected window of a run that goes on is attempted in the end.    *)
(***************************************************************************)
EventuallyAttempted ==
    \A r \in Run :
        <>[](Live(r) => \A s \in Expected(r, MaxNow) : Attempted(r, s))

(***************************************************************************)
(* README.md: "Trailing monitors review closed windows after durable       *)
(* ingestion."  A window that was supplied before it was due is evaluated  *)
(* with its counts once it is due.                                         *)
(***************************************************************************)
SuppliedIsReviewed ==
    phase = "idle" =>
        \A r \in Run : \A s \in Expected(r, now) :
            Live(r) /\ rows[r][s] \in Counts =>
                EvaluatedAs(r, s, rows[r][s])

=============================================================================
