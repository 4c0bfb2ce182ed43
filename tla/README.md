# watch in TLA+

TLA+ modules, TLC runs and TLAPS proofs for `watch` (`src/crates/watch`), a
daemon that stands between a fleet of agent runtimes and the changes they want
to make. A runtime sends signed observations of a workload and asks for a
**check** of an intended action; three monitors judge it; the daemon answers
CLEAR (with a short-lived signed clearance), DENY, or HELD, in which case a
**review card** is queued for people, whose acceptance lets one later check
clear. Everything is recorded in a hash-chained event log in SQLite.

Paths below are relative to `src/crates/watch/src/`.

## The system

### How it runs

`server.rs` accepts connections, one thread each, and all threads share one
`Daemon` behind one mutex. Under the lock a thread reads the clock, calls
`tick()`, `dispatch()`es its request and calls `tick()` again
(`server.rs:219-225`). There is no timer thread: nothing happens between
requests, with one exception. The thread that waits for SIGTERM or SIGINT puts the
host to DRAINING in memory and ticks once (`watchd.rs:114-122`); unlike the request
`host.drain` it leaves the checks under evaluation alone, and open connections may
run further cycles until the process ends. `tick()` is a fixed list of steps: silent
runs, review due times, claim leases, deferral wakes, checks, trailing windows,
outbox, monitor replies.
Each mutation (`Daemon::mutate`) is one SQLite transaction that writes
entities, events, outbox rows and the idempotency record together; a request or
a tick is a sequence of them, and the process can die between any two. Monitor
workers are threads of the process that get the jobs of the outbox over socketpairs
and answer through a channel that `tick()` drains; they die with it.

### Inventory

| Component | State | Operations | Interacts with | Hard behaviour | What makes it correct |
|---|---|---|---|---|---|
| Request cycle, host (`server.rs`, `daemon.rs`, `watchd.rs`) | clock reading, READY/DRAINING/FAULTED, drain, idempotency records, rate buckets | tick, dispatch, drain, drain on a signal, fault | everything | any request may come next, at any later time; faults half-way | a handler sees no expired timer; a drained host starts nothing; a repeated request is answered, not repeated |
| Blocking checks (`daemon.rs`, `methods.rs`, `aggregate.rs`, `detect.rs`) | check records, monitor slots | checks.create, checks.cancel, finalize, replies | observations, runs, policies, reviews, monitors | evidence read at admission and used at finalization; late, repeated, missing replies | decided once, by its deadline, on what is still true; never clear without all three results |
| Human remainder queue (`methods.rs`, `daemon.rs`) | review cards, rotation cursor | reviews.claim, reviews.resolve, three timers | checks, runs, reviewers | several reviewers, four deadlines on one card | one owner at a time, nothing outlives its deadline, one acceptance clears one check, no run is passed over |
| Runs, sources, policies (`methods.rs`) | run records, source epochs, active policy | runs.open, runs.control, observations.append, policy.activate | ends checks and cards in bulk | policy replaced while runs are paused; silence; gaps; reboots of the source | nothing continues under a policy or run state that has ended |
| Monitor workers (`monitor.rs`) | jobs, replies | evaluate | outbox, replies | end with the process, hang, answer late or wrongly | a wrong answer faults the host, a missing one cannot block |
| Store, outbox, events (`store.rs`, `events.rs`) | entities, revision counters, outbox, event chain | transactions | everything | crash between transactions; duplicate delivery | all or nothing; at least once delivery with one effect |
| Startup (`daemon.rs`, `backup.rs`) | host epoch, minimum head pin | start | store, objects | crash during recovery; restored old store | nothing from before a restart continues; rollback is noticed |
| Windows, drift, alerts (`daemon.rs`, `drift.rs`) | windows, drift state per metric, alerts | tick_windows, alerts.resolve | reviews (trailing cards) | late windows, missing windows, more due at once than a tick takes up, resets | each window evaluated once, in order; one active alert per episode |
| Runtime guard (`guard.rs`) | clearance, pins | dispatch | clearances, effects | expiry and epoch change between check and use | at most one dispatch per clearance, never after expiry |
| Effect chain (`methods.rs`) | effect records | effects.record | guard, checks | rejected or repeated reports | every dispatched effect is recorded once, in order |
| Audit chain, bundles, verifier (`events.rs`, `bundle.rs`, `verify.rs`) | event chain, exports | audit.evaluate, bundle.export, verify | store | export while writing | what verifies is what was written |
| Objects and backup (`objects.rs`, `backup.rs`) | files | put, sweep, backup, restore | store | crash between file and row | no row without its file |
| Arithmetic (`auditmath.rs`), wire formats (`json.rs`, `schema.rs`, `ids.rs`, `fault.rs`), cryptography (`crypto.rs`), configuration and adapters, harness and fixtures, command line tools | none that changes | pure functions and I/O | | boundaries of fixed point arithmetic | exactness, round trips |

`PROJECT.json` lists each of them with its status, and the hazards at the line
where they bite.

## The modules

| Module | Models |
|---|---|
| `Daemon` | the request cycle: clock, lock, tick and handler. `Acquire`, `Signalled`, `NextStep`, `TickDone`, `HandlerDone` are the only ways `now` and `phase` move, save a restart |
| `Reviews` | one review record and its transitions and timers; no variables |
| `ReviewQueue` | `reviews.claim`, `reviews.resolve`, the review steps of `tick()`, the rotation, restarts |
| `QueueFairness` | `ReviewQueue` with a history of turns, for the rotation between runs |
| `Checks` | the blocking path with runs, policies, observations, slots, the rejection latch and the cards the checks open and consume |
| `Approvals` | abstract specification: what the blocking path promises about human approval |
| `CardLife` | abstract specification: what may become of a card that a client has read |
| `ChecksApprovals` | the refinement mappings from `Checks` to `Approvals` and to `CardLife` |
| `MCChecks` | small intents, snapshots and policies for TLC |
| `Drift` | the reducer of `drift.rs`: what one closed window does to the drift state of a run; no variables |
| `Windows` | windows of telemetry, `process_windows`, drift, alert episodes and their cards, `alerts.resolve` |
| `MCWindows` | usual and odd counts for TLC |
| `Service` | one `watchd` process and its store: starts, host epoch, minimum head, transactions that commit or fail, stored replies, crashes. A component without a specification of its own |
| `Runtime` | `Service` with checks, the outbox, the workers' jobs, the guard of an agent runtime and the effect chain |
| `Requests` | abstract specification: what a client may rely on when it repeats a request |
| `MCRuntime` | two checks of one action and three effects for TLC |
| `ReviewsProofs`, `ReviewQueueProofs` | theorems about cards, the queue and its rotation, and that `ReviewQueue` implements `CardLife` |
| `ChecksProofs`, `ChecksEvidenceProofs`, `ChecksApprovalsProofs`, `ChecksBoundsProofs` | theorems about the blocking path, and that it implements `Approvals` and `CardLife` |
| `WindowsProofs` | theorems about windows, drift and alerts |
| `RuntimeProofs` | theorems about requests, jobs, clearances and effects, and that `Runtime` implements `Requests` |

`Reviews` and `Daemon` are shared: `ReviewQueue` looks at the queue alone, with
every environment that can open, consume or expire a card, `Checks` composes it
with the checks and runs that do so. The system is looked at from three sides,
each with the cycle of `Daemon`: `Checks` has the decisions in full and a process
that restarts in one step; `Windows` the trailing side; `Runtime` the process, its
transactions and its peers in full, with a check reduced to its outcome.

### State and code

* `now`, `phase`, `after`: `Daemon::now`, and where the thread that holds the
  lock is. `Served = TRUE` is the cycle of `server.rs`. `Served = FALSE` is the
  `Daemon` driven through its public fields and methods, as the conformance
  harness and the tests do: tick and dispatch in any order. It has all the
  behaviours of the served daemon and more, since each tick or request of the
  served one is one of its steps, so a safety property checked with it holds
  for both; the models are also smaller, for the two ticks need not be told apart.
* A **review** is its record: state, revision, run, kind, level, due, owner,
  lease, wake and acceptance deadline. Ids are numbers in the order of creation
  in `ReviewQueue` (`created_seq`), the id of the origin check in `Checks`
  (`review_id` derives it from the check). Run ids are ordered as their strings.
* A **check** is its record and its three slots; `slots[c][m] = "none"` before
  it exists, then `pending`, `done` (a verified result) or `timeout`.
  What a result says is computed (`Verdict`), since the daemon recomputes each
  reply and faults on a difference.
* An **observation** is its position in its run's chain with its cut and its
  snapshot. There is one source per run and one boot, so `SameFacts` leaves out
  source, epoch and boot id. Snapshots keep the fields `detect.rs` and the
  rechecks read.
* A **policy** is its generation.
* A **request** carries the revision its client read. One with an old revision
  is rejected without effect; so is every request whose guard fails. The
  actions are the accepted ones and `Rejection` the others.
* A **window** in `Windows` is its start, a multiple of `WINDOW_MS`. `rows` is
  the `windows` table (`NoRow`, the NULL marker `Missing`, or counts),
  `supplied` what `latest_observation_for_window` would find, `trail` the
  `TrailingEvaluated` events of a run. OPEN and PAUSED runs are both LIVE. An
  alert carries its card as it was opened; the life of cards is `ReviewQueue`'s.
  `batch` is `due`, what the running tick took up of each run: `process_windows`
  stops its scan at 4097 windows (`daemon.rs:1890-1892`), `Batch` in the model. After
  more than 4097 windows of ten seconds without a request, about 11.4 hours, the first
  tick leaves windows behind, and after twice that the whole cycle does; later ticks
  take up the rest. No property says that a tick leaves no window due.
* `host` in `Checks` is `HostState`. `Drain` is the request, which ends the checks
  under evaluation in its transaction, `SignalDrain` the signal, which writes nothing:
  those checks go on under a host that is DRAINING, to their decision or their
  deadline, for as long as cycles still run. `EvaluatingIsLive` therefore speaks
  of the run and the policy of a check and says nothing of the host. In
  `ReviewQueue` and `Windows`, where the host has no state, `Signal` is that one tick.
* In `Service`, `host` adds to `HostState` that there is no process (DOWN) and
  the two points between the transactions of `Daemon::start` (STARTING,
  RECOVERED). A **transaction** is the number of audit events it appends, counted
  up to the minimum head, with the stored reply if it belongs to a request:
  `executed` counts the transactions that carried a request out, `idem` is the
  idempotency table, `answer` the reply that `write_reply` has before the lock is
  released and `told` the last one that arrived. `CommitFails` is a `commit()` that
  returns an error, `Dies` a process that ends at any point.
* A **clearance** in `Runtime` is its check with the times it was issued and
  expires. `outbox` is the `monitor_job` rows, `sent` and `working` the jobs that
  the workers of this process have had and still have. `consumed`, `dispatched`
  and `reserved` are the guard's own tables, `fate` what the runtime really did,
  `chain` the effects of an action. The guard's tables outlive watchd, but not the
  guard: the doc comment (`guard.rs:6`) calls the record durable, and the only
  constructor there is keeps it in memory (`guard.rs:32-33`). The guard does not
  die in the model, and `OneEffect` says nothing of one that does.
* A request's one `mutate` is one step. The steps of `tick()` between which
  nothing else can be observed are merged: `TickTimers` is the silence pass and
  the review timers, each `Finalize` one check, each `Reply` one reply. A
  crash is possible at each of these points (`Restart`).

Left out: text, signatures and digests (a digest stands for its content),
event payloads, the rate bucket, roles, the source's epochs. `Checks` leaves the
idempotency table and the outbox to `Runtime` (its jobs are answered late,
wrongly or never), and `ReviewQueue` leaves windows to `Windows` (a trailing card
simply appears). `Windows` has no failing commits and leaves out the notice queue.
`Runtime` has one run whose guard epoch, boot and signer do not change, and leaves
out the cut of a clearance at the freshness of its observation.

**Unlinked observations.** `observations.append` stores the counts of a window as
its `windows` row, and any row makes the window attempted, so in the served daemon
a window is either stored or evaluated as missing, never both (finding
`WindowsReviewed`). The lookup of `process_one_window` is written for another
case: "the observation arrived but wasn't linked yet" (`daemon.rs:1966`).
`Unlinked = TRUE` adds that case as `ArriveUnlinked`, an observation stored by
`Store::tx_insert_observation` without its window. It is the only way to reach the
drift states and the alerts, and so what `Windows` shows about them is about the
trailing code as it is written, for the day its windows do get evaluated.

## What is checked

| Run | Module | Shows |
|---|---|---|
| `Queue` | `ReviewQueue` | one card, two runs, two reviewers, all timers: `TypeOK`, `WellFormed`, `TimersSettled`, `RevisionTracksChange`, `OwnershipReleased`, the refinement `KeepsLife`, and that every card ends and every lapsed claim is given up |
| `Rotation` | `QueueFairness` | three runs, three cards, both levels: `reviews.claim` without an id gives no run a second turn while another waits |
| `ChecksOne` | `MCChecks` | one check against all requests and failures, two policies, changing observations: decided once, by its deadline, on the latest facts, under evaluation only while its run is open under its policy, whether the host is drained by request or by signal |
| `ChecksReviews` | `MCChecks` | three checks, two actions: one card per basis, no fail-open, and the refinements `KeepsPromise` and `KeepsLife` |
| `ChecksRuns` | `MCChecks` | two runs under two policies, a queue of one card: the capacity holds and cards belong to runs that can go on |
| `Windows` | `MCWindows` | one run with early, late, repeated and missing windows, an operator and all alert states: windows are evaluated once and in order, drift is entered and left only by full streaks, one alert per episode, in step with the drift state, every flag counted once (`FlagsCounted`), a tick passes over no window that has no counts, unless its batch was full and the window comes after it (`MissingIsReviewed`), and every expected window is attempted in the end |
| `Runtime` | `MCRuntime` | two checks of one action, three starts, failing commits, lost replies, repeated requests, jobs handed out twice, a guard and its effects: `OneEffect`, `EffectsAreCleared`, `EvidenceIsTrue`, `NoJobLost`, `RepliesKept`, `RepliesMatchStore`, `PinHoldsBack`, and the refinement `KeepsRequests` |
| `RotationRenewals` | `QueueFairness` | finding: renewals break the rotation |
| `QueueRejection` | `ReviewQueue` | finding: a rejection is overwritten by a late request |
| `ChecksFlag` | `MCChecks` | finding: a flag that came in time is lost |
| `WindowsReviewed` | `MCWindows` | finding: a window that was stored is never evaluated |
| `RuntimeHead` | `MCRuntime` | finding: a store behind the minimum head is served in the end |

**Bounds.** `MaxNow` is the last clock reading; the policy times are chosen so
that every deadline can be reached before it, at the same time as another one,
and with time left after it. `MaxRevision` cuts requests on a card, not timers,
so that timers meet cards in every state; six allows claim, renewal, release,
second claim, deferral and acceptance. One card is enough for `Queue` because
every property there is about one card and cards touch each other only through
the cursor, which `Rotation` is about. `Rotation` has one clock reading, so that no card
lapses or wakes there: with more it does not end in time, and the theorem
`NobodyIsPassedTwice` covers those behaviours. Three checks in `ChecksReviews` are an
origin, one that takes the acceptance, and a rival for it, which is the least
that two checks sharing one acceptance need. `Events` names the requests and
failures a run has; between them the passing runs have all of them. Check ids
are interchangeable (`SYMMETRY`) in the runs without liveness.
In `Windows` a window lasts one tick of the clock and is due one later, so six
readings hold four windows that can be due one by one or all at once after a quiet
time. `MaxStart` is the last of them: a fifth would be over at the last reading and
never due, and the others are over before they are due as well. `Batch` is two, so
that a quiet time leaves windows to the second tick of its cycle and to the next
cycle, as 4097 would; two high and two low windows are the least that make a streak a
matter of more than one window (`policy_constraints` sets two and three), and leave
room for a drift and then a gap in it or a recovery. One run is enough: runs share
nothing there.
In `Runtime` two checks of one action are the least that can be
cleared against each other; three starts allow a crash in a start, in a
transaction and after it; the head counts up to two, past which no start is
refused. Its quota is that of both dispatches, so `Cap` does not bite there: that
a second dispatch is refused is the guard's own check of the action, and the
quota holds for every cap by theorem `OneEffectAlways`. `CHECK_DEADLOCK FALSE` is
for `MaxStarts`: when the last process has died nothing is left to happen.
`Runtime` states no liveness; that of its checks is `EventuallyDecided`.

**Fairness.** A cycle is straight-line code under the lock, so once it has
started it goes on: weak fairness of the steps of tick and of the end of a
handler (`Rejection` is always possible there). Requests keep coming as time
passes: strong fairness of taking the lock at a later reading. Nothing else is
fair: reviewers, runtimes and workers may never act. `Windows` also has requests at
the last reading, since windows that a full batch left behind need further ticks
there, and `Checks` has them only while the host is READY. Strong fairness is an
assumption about the clients, not about the daemon: without requests no timer
of `watchd` ever fires, and the liveness properties say what happens given them.
`EventuallyDecided` leaves out a host that faults, since a faulted one refuses
to tick, and one that is drained by a signal, since its process is about to end and
nobody need ask it anything; checks it leaves under evaluation end with the next
start (`Restart`). In `Windows` no host faults, so `EventuallyAttempted` has
no such exception: it is a promise of hosts that go on.

**The abstract specifications.** `Approvals` says that a check is decided once,
that the card of a held check is opened by that decision, and that an accepted
card is spent by one check, in the step that clears it. `KeepsPromise` is its
specification under the mapping of `ChecksApprovals`. A card is spent if a
cleared check points to it, not if its state is CONSUMED: by the finding of
`QueueRejection` the state may still change.

`CardLife` says, of the fields a client is shown of a card, which moves there are
and that each has the next revision. `ReviewQueue` and `Checks` both implement it
(`KeepsLife`): the first with every environment the queue can have, the second with
the transactions that move many cards at once. That the two agree on the life of a
card is what lets each leave the other's half out. An expiry is a move from every
state, answered ones too, by the finding of `QueueRejection`.

`Requests` says that a request under one request id is carried out at most once,
and that a reply tells of a time it was carried out. `KeepsRequests` maps `executed`
to its `times`; the stored replies, the process and its crashes are not in it, so
it is also the statement that a crash between a commit and its reply, or a commit
that fails, is not visible to a client that repeats its request.

### Findings

* **A renewal moves the rotation back** (`RotationRenewals`). `methods.rs:1769`
  promises round-robin by run with a persisted cursor. `reviews_claim` stores
  the cursor on each claim, a renewal of one's own claim too, so a run can be
  served twice while another waits. `Rotation` shows the promise without renewals.
* **A rejection can become an expiry** (`QueueRejection`). Claim and resolve
  compare the due time before they look at the state, and `expire_then_fault`
  does not look at it. A request with the current revision on a REJECTED,
  CONSUMED or CLOSED card after its due makes it EXPIRED and emits
  `ReviewExpired`; `doctor.rs:199` calls these states terminal.
* **A flag is forgotten** (`ChecksFlag`). `aggregate.rs:35` puts a hard flag
  before a missing result. With a monitor deadline shorter than the others a
  flag that was received in time is dropped when its slot deadline passes, and
  the check expires instead of being denied.

* **Stored windows are not reviewed** (`WindowsReviewed`). `README.md:31` of the
  repository says that closed windows are reviewed after ingestion.
  `window_attempted` (`store.rs:687`) takes the row that `observations.append` has
  stored for an attempted window, so only windows that did not come are
  evaluated, as missing.
* **Failed starts bring the head forward** (`RuntimeHead`). `Daemon::start` appends
  `HostStarted` before it compares the head with the minimum (`daemon.rs:300`), and
  `HostFaulted` when it refuses. A restored store that lacks events is served after
  as many starts as it takes: two events for each that fails, one for the last.
  That it is not served sooner is `PinHoldsBack`.

Modelled as the code has it, without a promise to check it against:
`checks.create` drains the outbox while the idempotency key of the request is set
(`methods.rs:1349`), so that transaction is rolled back and the workers get the job
twice (`SendJobs`; `NoJobLost` and `DecidedOnce` hold all the same); an action that
was recorded as NOT_DISPATCHED under one clearance can be dispatched under another
and then has no way to be recorded. Not modelled: the freshness of an observation
after a reboot (`methods.rs:1125`).

## What is proved

`ReviewsProofs` proves, for any card, what each transition does field by field,
that it keeps a card sound, and that a tick fires at most one timer of it
(`TickFiresOnce`) and leaves none due (`TickSettles`).

`ReviewQueueProofs` proves the safety properties of `ReviewQueue` for every
number of reviews, every set of runs and reviewers, every policy and every
bound: `TypeCorrect`, `CardsWellFormed`, `RevisionsTrackChange`,
`OwnersReleaseFirst`, and for the served cycle `HandlersSeeNoOverdueCard`.
The assumptions are those declared in `Daemon`, `Reviews` and `ReviewQueue`:
there is a run, the null owner is no reviewer, times are numbers, runs are
positive numbers. `HandlersSeeNoOverdueCard` also needs a review time above
zero; `policy_constraints` in `schema.rs` accepts zero, and a card of such a
policy is due the moment it opens.

The argument: `Moves(r, x)` is what one step may do to one card. Each action
moves all cards so (`...Fits`); the properties of a step are read off `Moves`,
and those of a state off the invariant `IInv`, which adds to `TypeOK` and
`WellFormed` only that an id that was never opened has revision 0: without it
opening a card could skip a revision. The queue position of `reviews.claim` is a
`CHOOSE`; `FirstOfIsAMember` shows that it has a witness. `TimersSettled` needs
the cycle: the lock is taken into a tick, a tick settles each card, and what
happens to cards after it in the tick opens them with time left or ends them.
`LifeIsKept`, the refinement of `CardLife`, is one more part of `Moves`: what a
transition does to the fields a client is shown (`ViewFields`, `TickLives`,
`AnswersLive`).

`NobodyIsPassedTwice` is about the rotation, for any number of runs and cards, as
long as claims ask for the next card and do not name one. Its invariant
`TurnsBehind` says where the cursor is: seen from the run that was served last,
a run that had a turn since another began to wait comes only after that one
(`Behind`). The card that is picked is of the first run that way round
(`ServedIsNext`), so it is not one of those.

`ChecksProofs` proves for the blocking path, for any sets of checks, runs,
intents, snapshots and policies and any bounds, that its types are kept
(`TypeCorrect`), that whatever ends a run or a policy ends its checks under
evaluation (`ChecksEndWithTheirRun`) and that decisions are final
(`DecisionsAreFinal`). Of the host the first says nothing, for a signal drains it
and leaves its checks; all three hold over that step too. The assumptions are that the times of a policy and
its number are natural numbers and that the null id is no id. `Kept` is what a
step does to each variable: runs, chains, checks and cards that exist go on
existing, chains only grow, a check keeps its request, a card is opened only by
the finalization of its check. Each action keeps it (`...Keeps`), and the
invariant, that what a check or a card points to exists, follows from it.

`ChecksEvidenceProofs` adds what decisions rest on: `CardsAreApart`,
`NoFailOpen` and `HeldChecksHaveCards`. The key lemma is `EvidenceStays`:
verdicts and bases are computed from an observation of a chain that only grows
and from a request that does not change, so they are the same at every later
step. A new card is opened only when no active one has its basis, and bases do
not move, so two never meet. The invariant `EInv` says more than the three
properties: the card a check names was opened once; otherwise its basis could
still change. `NoFailOpen` says of a review that was spent that it covered
the check and was opened for exactly the doubts the check has.

`ChecksApprovalsProofs` proves the refinement, `PromiseIsKept`: the initial
states map to the one of `Approvals`, and a step that changes the decision, the
card or the spending of a check is allowed by it. A card is spent by the
finalization that clears its check (`SpendFacts`), which needs it ACCEPTED; a
card some check has spent is inactive (`EInv`), and an ACCEPTED one is not
opened or claimed again (`AcceptedIsKept`), so nobody else spends it
(`SpentOnce`). `CardsLiveOn`, the refinement of `CardLife`, goes through the
transactions: those that expire cards in bulk move each active card once
(`StepMovesCards`), a finalization opens one card or spends one, and a check's
cards are all blocking (`AllBlocking`), as the answers of `CardLife` ask.

`ChecksBoundsProofs` adds three properties that need more than that invariant.
`QueueStaysBounded` needs that the set of active cards is finite, for only then
does ending cards lower its size (`BInv`), and that a run never changes its policy
(`PolicyStays`): caps are those of the check's policy at admission.
`ClearsOnLatest` follows from the rechecks in the transaction that clears, under
the hypothesis that every policy's clearance lasts some time: `policy_constraints`
accepts zero. `NothingStaysDue` is about the served cycle (`Served`): once the
timers have run, no run is silent in the rest of the tick (`Settled`), and the tick
does not return before nothing is due.

`WindowsProofs` has one invariant per run, `RunInv`, of named parts: evaluation has
left behind every window up to the last one in the drift record; the trail is in
order; the counts in the drift record are streaks of the trail's end; alerts have
different first windows, all of them behind, and an active distribution alert means
DRIFT. `WindowsInOrder`, `OneEpisode`, `EpisodeIsDrift` are read off it;
`DriftIsAlwaysEarned`, an action property, needs the streaks: a step that enters
DRIFT adds one high window to `HighWindows - 1` that the record already counts.
It is proved for every policy that meets `DriftAssumption` and every window length.
`EveryFlagIsCounted` has an invariant of its own, `Tallies`: the alerts of a run
and monitor cut the trail into intervals that follow each other, each of them ends
at a window of the trail, and only the last can still grow; a window that is flagged
comes after all of them and joins the last one or a new one. `NoGapIsPassedOver` is
about ticks: `Collected`, a part of the invariant, says what the batch of a running
tick is, a due window that is not in it having a full batch before it. When the tick
returns, its batch is attempted, so a due window without counts is evaluated as
missing, unless the batch was full and none after the window has been evaluated in
its place. It holds for every `Batch` above zero.

`RuntimeProofs`: the invariant has a part for the replies (`Books`), for the guard's
tables (`Guarded`), for the effect chains and for the jobs, and each step is first
reduced to what it does to each part (`StoreSteps`, `RuntimeSteps`). `OneEffectAlways`
counts reservations by `Cardinality`, so the set of checks is assumed finite.
`EffectsStayCleared` rests on no step leading out of CLEAR: recovery and drain end
what is under evaluation. `NoJobIsLost` holds over rolled back transactions because
a row goes only in a transaction that commits after its job was handed over.
`RepliesMatchTheStore` needs that only `CreateCheck` and `RecordEffect` make a check
or an effect (`WritingSteps`) and that they store their reply in the same step; that
a chain only grows keeps what older replies say of it. `ThePinHoldsBack` has the
invariant `Behind`: while the starts have not had the time, there is no process
past the pin and the head is at most what they appended.
`RequestsAreKept` is the refinement: a request whose reply is stored is repeated
and not carried out again, and `idem = executed` makes the two the same.

Every safety invariant, action property and refinement that a passing run checks
is also a theorem. Model-checked only: the liveness properties (`EventuallyDone`,
`EventuallyReleased`, `EventuallyDecided`, `EventuallyAttempted`), which rest on
fairness and so on ENABLED, out of the prover's reach; and the runs that show
findings.

## Not modelled

* `Sources` would be next: observations with source epochs, hash chain, boot ids
  and quarantine, and freshness over a reboot of the source; abstract, a chain that
  only grows. `Checks` has the chain as it is after a valid append, and gaps.
* The composition of `Windows` with `Checks`: trailing cards do not look at the
  queue's caps (hazard `daemon.rs:2314`), and `QueueBounded` is about the blocking
  path alone.
* Audit chain, bundles and verifier: the chain as a sequence, export at a head, the
  verifier's results. Nothing depends on them at run time.
* Objects and backup: a crash between a file and its row.
* The arithmetic of `auditmath.rs`, wire formats and schemas: pure functions.
* Cryptography is ideal; configuration, adapters, the conformance harness and the
  command line tools keep no state.
* Roles, the rate bucket, connection caps: they only add refusals, and `Rejection`
  is possible for every request. A reboot of the machine, after which the clock
  starts again: the clock of `Daemon` only grows, over restarts of the process too.

## Running

```
tlc -workers 2 -config Queue.cfg ReviewQueue
tlc -workers 2 -config ChecksOne.cfg MCChecks
tlc -workers 2 -config Windows.cfg MCWindows
tlc -workers 2 -config Runtime.cfg MCRuntime
tlapm ReviewQueueProofs.tla
tlapm ChecksBoundsProofs.tla
tlapm WindowsProofs.tla
tlapm RuntimeProofs.tla
```
