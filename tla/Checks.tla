------------------------------- MODULE Checks -------------------------------
(***************************************************************************)
(* The blocking path of watchd: a runtime asks for a check of an intent    *)
(* against one of its signed observations, three monitor workers reply or  *)
(* do not, and the daemon finalizes the check as CLEAR, DENY, HELD (a card *)
(* for the human queue), EXPIRED, STALE or CANCELLED.  Meanwhile           *)
(* observations arrive, runs are paused, resumed, quarantined and closed,  *)
(* policies are replaced, reviewers resolve cards, the host is drained by  *)
(* a request or a signal, faults or restarts, and the clock moves.         *)
(*                                                                         *)
(* A policy is its generation, an index into Policies.  An observation is  *)
(* its sequence number in its run's chain; the run's cursor is the length  *)
(* of the chain.  A review id is derived from the check it was opened for  *)
(* (aggregate.rs, review_id), so a review is known by its origin check.    *)
(***************************************************************************)
EXTENDS Reviews, Daemon, Sequences, FiniteSets

CONSTANTS
    CheckId,        \* bound: the checks a runtime may ask for
    Intent,         \* [action, scopes, cost, target]
    Snapshot,       \* [committed, reserved, scopes, replicas, target]
    Policies,       \* the policies that are activated, in order
    None,           \* a null id or intent
    Unknown,        \* replicas an observation could not count
    MaxObs,         \* bound: observations per run
    MaxRevision,    \* bound: client requests on a review beyond it are cut
    CheckTotal,     \* CHECK_TOTAL
    CheckPerRun,    \* CHECK_PER_RUN
    Events          \* bound: the requests and failures that happen

Monitor == {"scope", "spend", "replicas"}
Generation == 1 .. Len(Policies)

ASSUME CheckStepAssumption == FirstStep = "timers"
ASSUME NoneAssumption == None \notin CheckId /\ None \notin Intent
ASSUME BoundsAssumption ==
    MaxObs \in Nat /\ MaxRevision \in Nat /\ CheckTotal \in Nat
        /\ CheckPerRun \in Nat /\ Len(Policies) \in Nat
ASSUME PoliciesAssumption == \A g \in Generation :
    LET p == Policies[g] IN
    /\ p.freshness \in Nat /\ p.evaluation \in Nat /\ p.clearance \in Nat
    /\ p.ttl \in Nat /\ p.accept \in Nat /\ p.lease \in Nat
    /\ p.queueCapacity \in Nat /\ p.perRunOpen \in Nat
    /\ \A m \in Monitor : p.deadline[m] \in Nat

VARIABLES
    host,       \* READY, DRAINING or FAULTED
    active,     \* generation of the active policy, 0 before the first
    runs,       \* run -> [state, policy, received]
    chain,      \* run -> its accepted observations, [cut, snapshot]
    checks,     \* check id -> record
    slots,      \* check id -> monitor -> state of its monitor slot
    reviews,    \* origin check -> review record
    bound,      \* run -> action -> the intent recorded under it, or None
    rejected    \* <<run, action>> pairs with the rejection latch set

store == <<active, runs, chain, checks, slots, reviews, bound, rejected>>
vars == <<now, phase, after, host, store>>

Action == {i.action : i \in Intent}
RunStates == {"ABSENT", "OPEN", "PAUSED", "CLOSED", "QUARANTINED"}
CheckStates == {"ABSENT", "EVALUATING", "CLEAR", "DENY", "HELD", "EXPIRED",
                "STALE", "CANCELLED"}

Check ==
    [state : CheckStates,
     run : Run \cup {None},
     intent : Intent \cup {None},
     observation : Nat,
     policy : Nat,
     created : Nat,
     review : CheckId \cup {None},
     expires : Nat]

NoCheck ==
    [state |-> "ABSENT", run |-> None, intent |-> None, observation |-> 0,
     policy |-> 0, created |-> 0, review |-> None, expires |-> 0]

TypeOK ==
    /\ CycleTypeOK({"timers", "settle"})
    /\ host \in {"READY", "DRAINING", "FAULTED"}
    /\ active \in 0 .. Len(Policies)
    /\ runs \in [Run -> [state : {"ABSENT"}, policy : {0}, received : {0}]
                    \cup [state : RunStates \ {"ABSENT"}, policy : Generation,
                          received : Nat]]
    /\ chain \in [Run -> Seq([cut : Nat, snapshot : Snapshot])]
    /\ checks \in [CheckId -> Check]
    /\ slots \in [CheckId -> [Monitor -> {"none", "pending", "done", "timeout"}]]
    /\ reviews \in [CheckId -> Review]
    /\ bound \in [Run -> [Action -> Intent \cup {None}]]
    /\ rejected \subseteq Run \X Action

Init ==
    /\ CycleInit
    /\ host = "READY"
    /\ active = 0
    /\ runs = [r \in Run |-> [state |-> "ABSENT", policy |-> 0, received |-> 0]]
    /\ chain = [r \in Run |-> << >>]
    /\ checks = [c \in CheckId |-> NoCheck]
    /\ slots = [c \in CheckId |-> [m \in Monitor |-> "none"]]
    /\ reviews = [c \in CheckId |-> NoReview]
    /\ bound = [r \in Run |-> [a \in Action |-> None]]
    /\ rejected = {}

-----------------------------------------------------------------------------
(* What a check is evaluated from. *)

PolicyOf(c) == Policies[checks[c].policy]
ObservationOf(c) == chain[checks[c].run][checks[c].observation]
FactsOf(c) == ObservationOf(c).snapshot
IntentOf(c) == checks[c].intent
Total(c) == FactsOf(c).committed + FactsOf(c).reserved + IntentOf(c).cost

Deadline(c) == checks[c].created + PolicyOf(c).evaluation
SlotDeadline(c, m) == checks[c].created + PolicyOf(c).deadline[m]
Fresh(cut, g) == now < cut + Policies[g].freshness

(***************************************************************************)
(* detect.rs: what monitor m says of the intent of check c when the        *)
(* workload is as in snapshot s.                                           *)
(***************************************************************************)
VerdictOn(s, c, m) ==
    LET p == PolicyOf(c)
        i == IntentOf(c)
    IN  CASE m = "scope" ->
               IF s.scopes \cup i.scopes \subseteq p.allowed THEN "CLEAR"
                                                             ELSE "FLAG"
          [] m = "spend" ->
               IF s.committed + s.reserved + i.cost > p.cap THEN "FLAG"
               ELSE IF i.cost >= p.reviewAt THEN "UNCERTAIN" ELSE "CLEAR"
          [] m = "replicas" ->
               IF s.replicas = Unknown THEN "UNAVAILABLE"
               ELSE IF s.replicas > p.maxReplicas THEN "FLAG" ELSE "CLEAR"

Verdict(c, m) == VerdictOn(FactsOf(c), c, m)

Findings(c) == {m \in Monitor : Verdict(c, m) = "UNCERTAIN"}

(* The basis a review of check c is bound to: its deduplication key. *)
Basis(c) ==
    [run |-> checks[c].run, intent |-> IntentOf(c),
     policy |-> checks[c].policy, total |-> Total(c), findings |-> Findings(c)]

(* The basis of review r covers a check with this much total spend. *)
Covers(r, run, intent, policy, total) ==
    LET b == Basis(r) IN
    /\ b.run = run /\ b.intent = intent /\ b.policy = policy
    /\ total <= b.total

ActiveReviews == {r \in CheckId : IsActive(reviews[r])}
ActiveOf(run) == {r \in ActiveReviews : reviews[r].run = run}
Evaluating == {c \in CheckId : checks[c].state = "EVALUATING"}
EvaluatingOf(run) == {c \in Evaluating : checks[c].run = run}

-----------------------------------------------------------------------------
(* Bulk effects several handlers share. *)

EndChecks(ended, state) ==
    checks' = [c \in CheckId |-> IF c \in ended
                                 THEN [checks[c] EXCEPT !.state = state]
                                 ELSE checks[c]]

ExpireReviews(expired) ==
    reviews' = [r \in CheckId |-> IF r \in expired THEN Expired(reviews[r])
                                                   ELSE reviews[r]]

SetRuns(changed, state) ==
    runs' = [r \in Run |-> IF r \in changed
                           THEN [runs[r] EXCEPT !.state = state] ELSE runs[r]]

-----------------------------------------------------------------------------
(***************************************************************************)
(* tick(): silent runs and review timers ("timers"), then the pass over    *)
(* the checks and the monitor replies ("settle").  Each of its             *)
(* transactions ends before the next one starts, and all under the lock.   *)
(***************************************************************************)

Silent(r) ==
    /\ runs[r].state = "OPEN"
    /\ runs[r].received # 0
    /\ ~Fresh(runs[r].received, runs[r].policy)

(* Silent runs pause, then the review timers fire. *)
TickTimers ==
    LET silent == {r \in Run : Silent(r)} IN
    /\ NextStep("timers", "settle")
    /\ SetRuns(silent, "PAUSED")
    /\ EndChecks(UNION {EvaluatingOf(r) : r \in silent}, "STALE")
    /\ reviews' = [r \in CheckId |-> Ticked(reviews[r], now)]
    /\ UNCHANGED <<host, active, chain, slots, bound, rejected>>

(* Mutant: a check waits for its monitors as long as it takes. *)
DueWhenAllIn(c) ==
    /\ checks[c].state = "EVALUATING"
    /\ \A m \in Monitor : slots[c][m] \in {"done", "timeout"}

(* A check is due: every slot settled or late, or its own deadline passed. *)
Due(c) ==
    /\ checks[c].state = "EVALUATING"
    /\ \/ now >= Deadline(c)
       \/ \A m \in Monitor : \/ slots[c][m] \in {"done", "timeout"}
                             \/ now >= SlotDeadline(c, m)

(* A result counts only when it came in and its slot is not late even now. *)
Result(c, m) ==
    IF slots[c][m] = "done" /\ now < SlotDeadline(c, m) THEN Verdict(c, m)
                                                        ELSE "MISSING"
(* Mutant: only the results that came in are aggregated. *)
ResultsIn(c) == {Verdict(c, m) : m \in {n \in Monitor : slots[c][n] = "done"}}

Results(c) == {Result(c, m) : m \in Monitor}

(* The rechecks of the final transaction. *)
(* Mutant: reservations are not compared. *)
SameFactsSpent(s, t) ==
    /\ s.scopes = t.scopes /\ s.replicas = t.replicas /\ s.target = t.target
    /\ s.committed = t.committed

SameFacts(s, t) ==
    /\ s.scopes = t.scopes /\ s.replicas = t.replicas /\ s.target = t.target
    /\ s.committed = t.committed /\ s.reserved = t.reserved

Overtaken(c) ==
    LET run == checks[c].run
        n == Len(chain[run])
    IN  n > checks[c].observation /\ ~SameFacts(chain[run][n].snapshot, FactsOf(c))

StaleNow(c) ==
    \/ runs[checks[c].run].state # "OPEN"
    \/ runs[checks[c].run].policy # checks[c].policy
    \/ ~Fresh(ObservationOf(c).cut, checks[c].policy)
    \/ Overtaken(c)

(* Mutant: a card somebody has claimed is not found again. *)
SameBasisOpen(c) ==
    {r \in ActiveReviews : /\ reviews[r].state = "OPEN"
                           /\ reviews[r].run = checks[c].run
                           /\ Basis(r) = Basis(c)}

(* The active review with the check's own basis. *)
SameBasis(c) ==
    {r \in ActiveReviews : reviews[r].run = checks[c].run /\ Basis(r) = Basis(c)}

(* Mutant: only the cap of the run counts. *)
QueueFullOfRun(c) ==
    Cardinality(ActiveOf(checks[c].run)) >= PolicyOf(c).perRunOpen

QueueFull(c) ==
    \/ Cardinality(ActiveReviews) >= PolicyOf(c).queueCapacity
    \/ Cardinality(ActiveOf(checks[c].run)) >= PolicyOf(c).perRunOpen

(* The review supplied with the check still covers it. *)
Consumes(c) ==
    LET r == checks[c].review IN
    /\ r # None
    /\ Spendable(reviews[r], now)
    /\ Covers(r, checks[c].run, IntentOf(c), checks[c].policy, Total(c))
    /\ Findings(r) = {m \in Monitor : Result(c, m) = "UNCERTAIN"}

(***************************************************************************)
(* The rechecks, then the deadline, then aggregate.rs over the slots.      *)
(* "OPENS" is HELD with a new review, "HELD" with the one that is there.   *)
(***************************************************************************)
Outcome(c) ==
    IF StaleNow(c) THEN "STALE"
    ELSE IF now >= Deadline(c) /\ "MISSING" \in Results(c) THEN "EXPIRED"
    ELSE IF "FLAG" \in Results(c) THEN "DENY"
    ELSE IF {"MISSING", "UNAVAILABLE"} \cap Results(c) # {} THEN "EXPIRED"
    ELSE IF "UNCERTAIN" \notin Results(c) THEN "CLEAR"
    ELSE IF SameBasis(c) = {} /\ QueueFull(c) THEN "DENY"
    ELSE IF Consumes(c) THEN "CLEAR"
    ELSE IF SameBasis(c) = {} THEN "OPENS" ELSE "HELD"

Finalized(c) ==
    LET p == PolicyOf(c)
        s == Outcome(c)
    IN  CASE s = "OPENS" -> [checks[c] EXCEPT !.state = "HELD", !.review = c]
          [] s = "HELD" ->
               [checks[c] EXCEPT !.state = "HELD",
                                 !.review = CHOOSE r \in SameBasis(c) : TRUE]
          [] s = "CLEAR" ->
               [checks[c] EXCEPT
                  !.state = "CLEAR",
                  !.expires = Least(now + p.clearance,
                                    ObservationOf(c).cut + p.freshness)]
          [] OTHER -> [checks[c] EXCEPT !.state = s]

Finalize(c) ==
    /\ phase = "settle"
    /\ Due(c)
    /\ checks' = [checks EXCEPT ![c] = Finalized(c)]
    /\ reviews' =
          CASE Outcome(c) = "OPENS" ->
                 [reviews EXCEPT ![c] = Opened(checks[c].run, "blocking",
                                               "warning", now + PolicyOf(c).ttl)]
            [] Outcome(c) = "CLEAR" /\ Consumes(c) ->
                 [reviews EXCEPT ![checks[c].review] = Consumed(@)]
            [] OTHER -> reviews
    /\ UNCHANGED <<now, phase, after, host, active, runs, chain, slots, bound,
                   rejected>>

(* The pass over the checks, and what follows each reply, leave none due. *)
NoneDue == \A c \in CheckId : ~Due(c)

(***************************************************************************)
(* A worker's reply that its check still waits for: the daemon computes    *)
(* the result again.  A late reply only marks the slot; one that disagrees *)
(* faults the host, and the replies that were drained with it are still    *)
(* applied.  A worker that failed sends nothing.                           *)
(***************************************************************************)
Awaited(c, m) ==
    /\ phase = "settle"
    /\ NoneDue
    /\ checks[c].state = "EVALUATING"
    /\ slots[c][m] # "done"

Reply(c, m) ==
    /\ Awaited(c, m)
    /\ slots' = [slots EXCEPT ![c][m] =
                    IF now >= SlotDeadline(c, m) THEN "timeout" ELSE "done"]
    /\ UNCHANGED <<now, phase, after, host, active, runs, chain, checks,
                   reviews, bound, rejected>>

Mismatch(c, m) ==
    /\ Awaited(c, m)
    /\ "mismatch" \in Events
    /\ now < SlotDeadline(c, m)
    /\ host' = "FAULTED"
    /\ UNCHANGED <<now, phase, after, store>>

(* Mutant: a reply that settles a check does not finalize it. *)
TickReturnsEarly ==
    /\ phase = "settle"
    /\ phase' = IF host = "FAULTED" THEN "idle" ELSE after
    /\ UNCHANGED <<now, after, host, store>>

(* A faulted host answers no request and does no tick until it restarts. *)
TickReturns ==
    /\ phase = "settle"
    /\ NoneDue
    /\ phase' = IF host = "FAULTED" THEN "idle" ELSE after
    /\ UNCHANGED <<now, after, host, store>>

-----------------------------------------------------------------------------
(***************************************************************************)
(* dispatch(), one request.  READY hosts admit every method, DRAINING ones *)
(* those that only finish work.  expected_revision is as in ReviewQueue;   *)
(* a check's revision is a function of its state.                          *)
(***************************************************************************)
Admitted(request) ==
    HandlerDone /\ request \in Events /\ host = "READY"
AdmittedDraining(request) ==
    HandlerDone /\ request \in Events /\ host \in {"READY", "DRAINING"}

Rejection == HandlerDone /\ UNCHANGED <<host, store>>

(* Mutant: a run is opened before there is a policy. *)
OpenRunUnbound(r) ==
    /\ Admitted("open")
    /\ runs[r].state = "ABSENT"
    /\ runs' = [runs EXCEPT ![r] = [state |-> "OPEN", policy |-> active,
                                    received |-> 0]]
    /\ UNCHANGED <<host, active, chain, checks, slots, reviews, bound, rejected>>

OpenRun(r) ==
    /\ Admitted("open")
    /\ runs[r].state = "ABSENT"
    /\ active # 0
    /\ runs' = [runs EXCEPT ![r] = [state |-> "OPEN", policy |-> active,
                                    received |-> 0]]
    /\ UNCHANGED <<host, active, chain, checks, slots, reviews, bound, rejected>>

(* The next observation of the chain: no rollback, no cut in the future. *)
Observe(r, cut, snapshot) ==
    LET n == Len(chain[r]) IN
    /\ Admitted("append")
    /\ runs[r].state \in {"OPEN", "PAUSED"}
    /\ n < MaxObs
    /\ n > 0 => /\ chain[r][n].cut <= cut
                /\ chain[r][n].snapshot.committed <= snapshot.committed
    /\ chain' = [chain EXCEPT ![r] = Append(@, [cut |-> cut, snapshot |-> snapshot])]
    /\ runs' = [runs EXCEPT ![r].received = now]
    /\ UNCHANGED <<host, active, checks, slots, reviews, bound, rejected>>

(* Observations that cannot follow the chain. *)
SourceGap(r) ==
    /\ Admitted("gap")
    /\ runs[r].state \in {"OPEN", "PAUSED"}
    /\ SetRuns({r}, "PAUSED")
    /\ EndChecks(EvaluatingOf(r), "STALE")
    /\ UNCHANGED <<host, active, chain, slots, reviews, bound, rejected>>

Quarantine(r) ==
    /\ Admitted("quarantine")
    /\ runs[r].state \in {"OPEN", "PAUSED"}
    /\ SetRuns({r}, "QUARANTINED")
    /\ EndChecks(EvaluatingOf(r), "STALE")
    /\ ExpireReviews(ActiveOf(r))
    /\ UNCHANGED <<host, active, chain, slots, bound, rejected>>

Pause(r) ==
    /\ AdmittedDraining("pause")
    /\ runs[r].state = "OPEN"
    /\ SetRuns({r}, "PAUSED")
    /\ EndChecks(EvaluatingOf(r), "STALE")
    /\ UNCHANGED <<host, active, chain, slots, reviews, bound, rejected>>

Resume(r) ==
    LET n == Len(chain[r]) IN
    /\ AdmittedDraining("resume")
    /\ runs[r].state = "PAUSED"
    /\ runs[r].policy = active
    /\ n > 0
    /\ Fresh(chain[r][n].cut, active)
    /\ SetRuns({r}, "OPEN")
    /\ UNCHANGED <<host, active, chain, checks, slots, reviews, bound, rejected>>

(* Mutant: closing a run leaves its cards in the queue. *)
CloseKeepingCards(r) ==
    /\ AdmittedDraining("close")
    /\ runs[r].state \in {"OPEN", "PAUSED", "QUARANTINED"}
    /\ SetRuns({r}, "CLOSED")
    /\ EndChecks(EvaluatingOf(r), "CANCELLED")
    /\ UNCHANGED <<host, active, chain, slots, reviews, bound, rejected>>

Close(r) ==
    /\ AdmittedDraining("close")
    /\ runs[r].state \in {"OPEN", "PAUSED", "QUARANTINED"}
    /\ SetRuns({r}, "CLOSED")
    /\ EndChecks(EvaluatingOf(r), "CANCELLED")
    /\ ExpireReviews(ActiveOf(r))
    /\ UNCHANGED <<host, active, chain, slots, bound, rejected>>

(* Mutant: what was asked for under the policy before is still evaluated. *)
ActivateKeepingChecks ==
    LET open == {r \in Run : runs[r].state = "OPEN"} IN
    /\ Admitted("activate")
    /\ active < Len(Policies)
    /\ active' = active + 1
    /\ SetRuns(open, "PAUSED")
    /\ ExpireReviews(UNION {ActiveOf(r) : r \in open})
    /\ UNCHANGED <<host, chain, checks, slots, bound, rejected>>

(* The next policy pauses the OPEN runs, for good: none of them has it. *)
ActivatePolicy ==
    LET open == {r \in Run : runs[r].state = "OPEN"} IN
    /\ Admitted("activate")
    /\ active < Len(Policies)
    /\ active' = active + 1
    /\ SetRuns(open, "PAUSED")
    /\ EndChecks(UNION {EvaluatingOf(r) : r \in open}, "STALE")
    /\ ExpireReviews(UNION {ActiveOf(r) : r \in open})
    /\ UNCHANGED <<host, chain, slots, bound, rejected>>

(* system.drain ends what is under evaluation, unless the host drains. *)
Drain ==
    /\ AdmittedDraining("drain")
    /\ host' = "DRAINING"
    /\ IF host = "DRAINING" THEN UNCHANGED checks
                            ELSE EndChecks(Evaluating, "EXPIRED")
    /\ UNCHANGED <<active, runs, chain, slots, reviews, bound, rejected>>

(***************************************************************************)
(* checks.create for observation n of the run.  A supplied review must     *)
(* already cover the check; an action under the rejection latch is denied  *)
(* at once.  The three jobs go to the workers before the reply.            *)
(***************************************************************************)
Suppliable(v, r, i, n) ==
    LET s == chain[r][n].snapshot IN
    /\ reviews[v].state # "ABSENT"
    /\ Spendable(reviews[v], now)
    /\ Covers(v, r, i, active, s.committed + s.reserved + i.cost)

CreateCheck(c, r, i, n, v) ==
    /\ Admitted("create")
    /\ checks[c].state = "ABSENT"
    /\ runs[r].state = "OPEN"
    /\ active # 0 /\ runs[r].policy = active
    /\ Fresh(chain[r][n].cut, active)
    /\ i.target = chain[r][n].snapshot.target
    /\ bound[r][i.action] \in {None, i}
    /\ v # None => Suppliable(v, r, i, n)
    /\ Cardinality(Evaluating) < CheckTotal
    /\ Cardinality(EvaluatingOf(r)) < CheckPerRun
    /\ checks' = [checks EXCEPT ![c] =
          [state |-> IF <<r, i.action>> \in rejected THEN "DENY" ELSE "EVALUATING",
           run |-> r, intent |-> i, observation |-> n, policy |-> active,
           created |-> now, review |-> v, expires |-> 0]]
    /\ slots' = [slots EXCEPT ![c] = [m \in Monitor |-> "pending"]]
    /\ bound' = [bound EXCEPT ![r][i.action] = i]
    /\ UNCHANGED <<host, active, runs, chain, reviews, rejected>>

(* Mutant: any check can be cancelled. *)
CancelAny(c) ==
    /\ AdmittedDraining("cancel")
    /\ checks[c].state # "ABSENT"
    /\ EndChecks({c}, "CANCELLED")
    /\ UNCHANGED <<host, active, runs, chain, slots, reviews, bound, rejected>>

Cancel(c) ==
    /\ AdmittedDraining("cancel")
    /\ checks[c].state = "EVALUATING"
    /\ EndChecks({c}, "CANCELLED")
    /\ UNCHANGED <<host, active, runs, chain, slots, reviews, bound, rejected>>

(***************************************************************************)
(* reviews.claim and reviews.resolve, as in ReviewQueue.  The reviews here *)
(* are all blocking.  A rejection latches the action of the origin check.  *)
(***************************************************************************)
ClaimResults(v, p) ==
    LET r == reviews[v] IN
    IF r.due <= now THEN {Expired(r)}
    ELSE IF Claimable(r, p)
         THEN {Claimed(r, p, now, Policies[runs[r.run].policy].lease)} ELSE {}

ResolveResults(v, p) ==
    LET r == reviews[v] IN
    IF r.due <= now THEN {Expired(r)}
    ELSE IF Lapsed(r, now) THEN {Released(r)}
    ELSE IF HeldBy(r, p, now)
         THEN {Accepted(r, now, Policies[runs[r.run].policy].accept),
               Rejected(r), Released(r)}
                \cup {Deferred(r, w) : w \in (now + 1) .. (r.due - 1)}
         ELSE {}

Reviewable(v) ==
    reviews[v].state # "ABSENT" /\ reviews[v].revision < MaxRevision

Claim(p, v) ==
    /\ Admitted("claim")
    /\ Reviewable(v)
    /\ \E r \in ClaimResults(v, p) : reviews' = [reviews EXCEPT ![v] = r]
    /\ UNCHANGED <<host, active, runs, chain, checks, slots, bound, rejected>>

Resolve(p, v) ==
    /\ AdmittedDraining("resolve")
    /\ Reviewable(v)
    /\ \E r \in ResolveResults(v, p) :
          /\ reviews' = [reviews EXCEPT ![v] = r]
          /\ rejected' = rejected \cup
                IF r.state = "REJECTED"
                THEN {<<checks[v].run, IntentOf(v).action>>} ELSE {}
    /\ UNCHANGED <<host, active, runs, chain, checks, slots, bound>>

(***************************************************************************)
(* SIGTERM or SIGINT drains the host without a request: the checks under   *)
(* evaluation are left alone, a drain request after it finds the host      *)
(* DRAINING already, and open connections are served until the process     *)
(* ends.                                                                   *)
(***************************************************************************)
SignalDrain ==
    /\ "signal" \in Events
    /\ host = "READY"
    /\ Signalled
    /\ host' = "DRAINING"
    /\ UNCHANGED store

(***************************************************************************)
(* The process dies at any point and starts again, on the same boot: runs  *)
(* pause, active reviews and checks under evaluation expire.               *)
(***************************************************************************)
Restart ==
    /\ "restart" \in Events
    /\ now' \in now .. MaxNow
    /\ phase' = "idle" /\ after' = "idle"
    /\ host' = "READY"
    /\ SetRuns({r \in Run : runs[r].state = "OPEN"}, "PAUSED")
    /\ EndChecks(Evaluating, "EXPIRED")
    /\ ExpireReviews(ActiveReviews)
    /\ UNCHANGED <<active, chain, slots, bound, rejected>>

Take == host # "FAULTED" /\ Acquire /\ UNCHANGED <<host, store>>

Tick ==
    \/ TickTimers \/ TickReturns
    \/ \E c \in CheckId : Finalize(c)

Next ==
    \/ Take \/ Tick \/ Rejection \/ Restart
    \/ ActivatePolicy \/ Drain \/ SignalDrain
    \/ \E r \in Run :
          \/ OpenRun(r) \/ SourceGap(r) \/ Quarantine(r)
          \/ Pause(r) \/ Resume(r) \/ Close(r)
          \/ \E cut \in 1 .. now, s \in Snapshot : Observe(r, cut, s)
          \/ \E c \in CheckId, i \in Intent, v \in CheckId \cup {None} :
                \E n \in 1 .. Len(chain[r]) : CreateCheck(c, r, i, n, v)
    \/ \E c \in CheckId :
          \/ Cancel(c)
          \/ \E m \in Monitor : Reply(c, m) \/ Mismatch(c, m)
          \/ \E p \in Principal : Claim(p, c) \/ Resolve(p, c)

Spec == Init /\ [][Next]_vars

(***************************************************************************)
(* A cycle is straight-line code under the lock: it always ends.  Requests *)
(* keep coming as time passes, while the host serves them; workers may     *)
(* never reply.                                                            *)
(***************************************************************************)
Fairness ==
    /\ WF_vars(Tick \/ Rejection)
    /\ SF_vars(Take /\ host = "READY" /\ now' > now)

FairSpec == Spec /\ Fairness

-----------------------------------------------------------------------------
(* Properties *)

(***************************************************************************)
(* A check is under evaluation only while its decision can still count:    *)
(* its run is OPEN, and run and check are bound to the active policy.      *)
(* Every pause, closing, quarantine, replacement and restart has to end    *)
(* it; the drain of a READY host does, but a signal leaves it to be        *)
(* decided by a host that drains.                                          *)
(***************************************************************************)
EvaluatingIsLive ==
    \A c \in Evaluating :
        /\ runs[checks[c].run].state = "OPEN"
        /\ runs[checks[c].run].policy = checks[c].policy
        /\ checks[c].policy = active

(***************************************************************************)
(* One coherent card: no two active reviews have the same basis (the       *)
(* unique index review_active_basis; a violation of it would roll the      *)
(* finalization back and leave the check under evaluation).                *)
(***************************************************************************)
OneCardPerBasis ==
    \A r, s \in ActiveReviews : Basis(r) = Basis(s) => r = s

(***************************************************************************)
(* A check does not clear on a picture its run has already left: in the    *)
(* step that clears it every monitor says of the latest observation what   *)
(* it said of the one the check was asked for, and that one is fresh.      *)
(***************************************************************************)
ClearOnLatest ==
    [][\A c \in Evaluating : checks'[c].state = "CLEAR" =>
          LET run == checks[c].run
              latest == chain[run][Len(chain[run])]
          IN  /\ now < checks'[c].expires
              /\ checks'[c].expires <= ObservationOf(c).cut + PolicyOf(c).freshness
              /\ \A m \in Monitor :
                    VerdictOn(latest.snapshot, c, m) = Verdict(c, m)]_vars

(***************************************************************************)
(* There is no fail-open: a cleared check has all three results, none of   *)
(* them a flag or unavailable, and uncertain ones only with a review that  *)
(* was opened for just these doubts, covered the check and is used up.     *)
(***************************************************************************)
ClearIsVouched ==
    \A c \in CheckId : checks[c].state = "CLEAR" =>
        /\ \A m \in Monitor : /\ slots[c][m] = "done"
                              /\ Verdict(c, m) \in {"CLEAR", "UNCERTAIN"}
        /\ Findings(c) # {} =>
              LET r == checks[c].review IN
              /\ r # None
              /\ ~IsActive(reviews[r])
              /\ Findings(r) = Findings(c)
              /\ Covers(r, checks[c].run, IntentOf(c), checks[c].policy, Total(c))

(***************************************************************************)
(* The queue never holds more active cards than a policy allows, for a run *)
(* and in all, also when the cards of paused runs outlive their policy.    *)
(***************************************************************************)
QueueBounded ==
    /\ \A r \in Run : runs[r].policy # 0 =>
          Cardinality(ActiveOf(r)) <= Policies[runs[r].policy].perRunOpen
    /\ ActiveReviews # {} =>
          \E g \in Generation :
              Cardinality(ActiveReviews) <= Policies[g].queueCapacity

(***************************************************************************)
(* A held check points to a card with its own basis, and an active card    *)
(* belongs to a run that can still go on.                                  *)
(***************************************************************************)
HeldHasCard ==
    /\ \A c \in CheckId : checks[c].state = "HELD" =>
          LET r == checks[c].review IN
          r # None /\ reviews[r].state # "ABSENT" /\ Basis(r) = Basis(c)
    /\ \A r \in ActiveReviews : runs[reviews[r].run].state \in {"OPEN", "PAUSED"}

(***************************************************************************)
(* In watchd's cycle a request leaves nothing behind that was already      *)
(* decidable: between requests no check is settled or past its deadline,   *)
(* and no OPEN run was silent for too long.                                *)
(***************************************************************************)
NothingDueWhenIdle ==
    phase = "idle" /\ host # "FAULTED" =>
        /\ NoneDue
        /\ \A r \in Run : ~Silent(r)

(***************************************************************************)
(* Once a check is decided it stays decided as it is, with its evidence:   *)
(* no late reply, tick, cancellation, drain or restart touches it.         *)
(***************************************************************************)
DecidedOnce ==
    [][\A c \in CheckId :
          checks[c].state \notin {"ABSENT", "EVALUATING"} =>
              checks'[c] = checks[c] /\ slots'[c] = slots[c]]_vars

(***************************************************************************)
(* Every check whose deadline the clock reaches is decided, whether or not *)
(* its workers reply, unless the host faults or is drained by a signal     *)
(* first: then nobody may ever call tick() again.                          *)
(***************************************************************************)
EventuallyDecided ==
    \A c \in CheckId :
        (checks[c].state = "EVALUATING" /\ Deadline(c) <= MaxNow)
            ~> (checks[c].state # "EVALUATING" \/ host # "READY")

(***************************************************************************)
(* aggregate.rs: a hard flag denies, and comes before a missing result.  A *)
(* check with a recorded flag is not finalized as EXPIRED by a tick.       *)
(***************************************************************************)
FlagDenies ==
    [][\A c \in CheckId :
          /\ Ticking /\ phase' # "idle"
          /\ checks[c].state = "EVALUATING" /\ checks'[c].state = "EXPIRED"
          => \A m \in Monitor : slots[c][m] = "done" => Verdict(c, m) # "FLAG"]_vars

=============================================================================
