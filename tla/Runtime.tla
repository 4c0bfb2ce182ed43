------------------------------ MODULE Runtime -------------------------------
(***************************************************************************)
(* An agent runtime and its watchd.  The runtime asks for checks, has its  *)
(* guard dispatch an action on a clearance, carries it out, and records    *)
(* what became of it as a chain of signed effects; watchd crashes, commits *)
(* fail, replies are lost and requests are repeated.                       *)
(*                                                                         *)
(* Of a check there is its outbox row, the job a worker has, and its       *)
(* outcome, which is Checks' business and any here: one job stands for     *)
(* those of its three monitors.  Everything is of one run, whose guard     *)
(* epoch and boot do not change.  The guard is another process with tables *)
(* of its own that last as long as it does, and it does not end here; only *)
(* the clock is common.                                                    *)
(***************************************************************************)
EXTENDS Service, Sequences, FiniteSets

CONSTANTS
    CheckId, Action,
    ActionOf,       \* check -> the action of its intent
    CheckOf,        \* checks.create request -> check
    EffectOf,       \* effects.record request -> [check, state, prior]
    Evaluation,     \* policy: evaluation_ms
    Clearance,      \* policy: clearance_ms
    Cost, Cap       \* of one action, and of the runtime's quota

Create == DOMAIN CheckOf
Record == DOMAIN EffectOf

EffectStates == {"DECLARED", "CONFIRMED", "NOT_DISPATCHED", "UNKNOWN"}

ASSUME RuntimeStepAssumption == FirstStep = "tick"
ASSUME RuntimeAssumption ==
    /\ IsFiniteSet(CheckId)
    /\ ActionOf \in [CheckId -> Action]
    /\ Request = Create \cup Record /\ Create \cap Record = {}
    /\ CheckOf \in [Create -> CheckId]
    /\ EffectOf \in [Record ->
          [check : CheckId, state : EffectStates, prior : Nat]]
    /\ Evaluation \in Nat /\ Clearance \in Nat
    /\ Cost \in Nat /\ Cap \in Nat

VARIABLES
    checks,     \* check -> [state, deadline, issued, expires]
    outbox,     \* checks with a monitor_job row
    sent,       \* checks whose job was handed to this process's workers
    working,    \* check -> how many of its jobs are without a reply
    read,       \* the guard's last reading of the clock
    consumed,   \* guard: checks whose clearance was used
    dispatched, \* guard: actions
    reserved,   \* guard: the sum of the reservations
    fate,       \* check -> what became of its clearance in the runtime
    chain       \* action -> its effects: [check, state], oldest first

watch == <<checks, outbox, sent, working, chain>>
runtime == <<read, consumed, dispatched, reserved, fate>>
vars == <<cycle, service, watch, runtime>>

CheckStates == {"ABSENT", "EVALUATING", "CLEAR", "ENDED"}
Check ==
    [state : CheckStates, deadline : Nat, issued : Nat, expires : Nat]
NoCheck == [state |-> "ABSENT", deadline |-> 0, issued |-> 0, expires |-> 0]

Fates == {"held", "declared", "done", "failed", "dropped"}
Effect == [check : CheckId, state : EffectStates]

TypeOK ==
    /\ CycleTypeOK({"tick", "checks", "outbox", "replies", "sending"})
    /\ ServiceTypeOK
    /\ checks \in [CheckId -> Check]
    /\ outbox \subseteq CheckId
    /\ sent \subseteq CheckId /\ working \in [CheckId -> Nat]
    /\ read \in Nat
    /\ consumed \subseteq CheckId /\ dispatched \subseteq Action
    /\ reserved \in Nat
    /\ fate \in [CheckId -> Fates]
    /\ chain \in [Action -> Seq(Effect)]

Init ==
    /\ CycleInit /\ ServiceInit
    /\ checks = [c \in CheckId |-> NoCheck]
    /\ outbox = {}
    /\ sent = {} /\ working = [c \in CheckId |-> 0]
    /\ read = 1 /\ consumed = {} /\ dispatched = {} /\ reserved = 0
    /\ fate = [c \in CheckId |-> "held"]
    /\ chain = [a \in Action |-> << >>]

Evaluating == {c \in CheckId : checks[c].state = "EVALUATING"}

(* Checks that will never be cleared again, whichever way they ended. *)
EndAll(ended) ==
    checks' = [c \in CheckId |->
        IF c \in ended THEN [checks[c] EXCEPT !.state = "ENDED"] ELSE checks[c]]

-----------------------------------------------------------------------------
(* watchd starts, and dies. *)

StartWatch == Start /\ UNCHANGED <<cycle, watch, runtime>>
FailStart == RefuseToStart /\ UNCHANGED <<cycle, watch, runtime>>
StartDone == HostReady /\ UNCHANGED <<cycle, watch, runtime>>

(* Mutant: recovery ends what is not yet used, not what is not decided. *)
RecoverUnused ==
    LET unused == {c \in CheckId : checks[c].state \in {"EVALUATING", "CLEAR"}}
    IN  /\ Recovered(Cardinality(unused))
        /\ EndAll(unused)
        /\ UNCHANGED <<cycle, outbox, sent, working, chain, runtime>>

(* What was under evaluation expires; outbox rows stay. *)
Recover ==
    /\ Recovered(Cardinality(Evaluating))
    /\ EndAll(Evaluating)
    /\ UNCHANGED <<cycle, outbox, sent, working, chain, runtime>>

(* The workers are threads of the process. *)
Die ==
    /\ Dies
    /\ sent' = {} /\ working' = [c \in CheckId |-> 0]
    /\ UNCHANGED <<checks, outbox, chain, runtime>>

-----------------------------------------------------------------------------
(* tick(): checks, outbox, replies.  A transaction that cannot be          *)
(* committed faults the host, and the tick goes on.                        *)

BeginTick == EnterTick("checks") /\ UNCHANGED <<watch, runtime>>

Overdue == {c \in Evaluating : checks[c].deadline <= now}

(* Each of them in a transaction of its own; some commits may fail. *)
TickChecks(lost) ==
    /\ lost \subseteq Overdue
    /\ EndAll(Overdue \ lost)
    /\ HostTo(IF lost = {} THEN host ELSE "FAULTED",
              Cardinality(Overdue \ lost))
    /\ NextStep("checks", "outbox")
    /\ UNCHANGED <<outbox, sent, working, chain, runtime>>

(* The workers take the jobs; the pool may be unreachable for some. *)
Hand(jobs) ==
    /\ jobs \subseteq outbox
    /\ sent' = sent \cup jobs
    /\ working' = [c \in CheckId |-> working[c] + IF c \in jobs THEN 1 ELSE 0]

(* Mutant: every row that was due is deleted. *)
KeepNone(jobs) == {}

(* The rows that are left when the workers have taken jobs. *)
RowsLeft(jobs) == outbox \ jobs

TickOutbox(jobs) ==
    /\ Hand(jobs)
    /\ outbox' = RowsLeft(jobs)
    /\ Commits(0)
    /\ NextStep("outbox", "replies")
    /\ UNCHANGED <<checks, chain, runtime>>

(* The jobs are with the workers when the commit fails. *)
TickOutboxFails(jobs) ==
    /\ outbox # {}
    /\ Hand(jobs)
    /\ CommitFails
    /\ NextStep("outbox", "replies")
    /\ UNCHANGED <<checks, outbox, chain, runtime>>

(* Mutant: a reply that no job was handed out for is counted too. *)
ReplyUnasked(c) ==
    /\ phase = "replies"
    /\ working' = [working EXCEPT ![c] = @ - 1]
    /\ UNCHANGED <<cycle, service, checks, outbox, sent, chain, runtime>>

(* A reply, to a check that is decided or past its deadline, or no result. *)
ReplyIgnored(c) ==
    /\ phase = "replies"
    /\ working[c] > 0
    /\ working' = [working EXCEPT ![c] = @ - 1]
    /\ UNCHANGED <<cycle, service, checks, outbox, sent, chain, runtime>>

(* A reply that is in time decides the check. *)
Decides(c, decided) ==
    /\ phase = "replies"
    /\ working[c] > 0
    /\ working' = [working EXCEPT ![c] = @ - 1]
    /\ c \in Evaluating /\ now < checks[c].deadline
    /\ checks' = [checks EXCEPT ![c] = decided]
    /\ UNCHANGED <<cycle, outbox, sent, chain, runtime>>

(* Its observation stays fresh as long as the clearance lasts. *)
ReplyClears(c) ==
    /\ Decides(c, [checks[c] EXCEPT !.state = "CLEAR", !.issued = now,
                                    !.expires = now + Clearance])
    /\ Commits(1)

ReplyEnds(c) == Decides(c, [checks[c] EXCEPT !.state = "ENDED"]) /\ Commits(1)

(* A result that does not verify (HostFaulted), or a commit that fails. *)
ReplyFaults(c) ==
    Decides(c, checks[c]) /\ \E n \in {0, 1} : HostTo("FAULTED", n)

RepliesDone == TickDone("replies") /\ UNCHANGED <<service, watch, runtime>>

-----------------------------------------------------------------------------
(* dispatch() *)

Repeat(q) == Replay(q) /\ HandlerDone /\ UNCHANGED <<watch, runtime>>

(* An error reply, for whatever reason; it leaves no trace. *)
Refuse == HandlerDone /\ UNCHANGED <<service, watch, runtime>>

RequestFails(q) == Breaks(q) /\ HandlerDone /\ UNCHANGED <<watch, runtime>>

(* A check of an action that was rejected is denied at once. *)
CreateCheck(q, latched) ==
    LET c == CheckOf[q]
        state == IF latched THEN "ENDED" ELSE "EVALUATING"
    IN
    /\ host = "READY"
    /\ checks[c].state = "ABSENT"
    /\ Execute(q, IF latched THEN 2 ELSE 1)
    /\ phase = "handle" /\ phase' = "sending" /\ UNCHANGED <<now, after>>
    /\ checks' = [checks EXCEPT ![c].state = state,
                                ![c].deadline = now + Evaluation]
    /\ outbox' = outbox \cup {c}
    /\ UNCHANGED <<sent, working, chain, runtime>>

(***************************************************************************)
(* checks.create runs the outbox before it returns.  Its request is still  *)
(* the current one, so that transaction would store the same reply again   *)
(* and is rolled back: the workers have the jobs, and the rows stay.       *)
(***************************************************************************)
SendJobs(jobs) ==
    /\ phase = "sending"
    /\ Hand(jobs)
    /\ phase' = FirstStep /\ after' = "idle" /\ UNCHANGED now
    /\ UNCHANGED <<service, checks, outbox, chain, runtime>>

(* The last state of a chain and the ones that may follow it. *)
Continues(s) ==
    CASE s = "DECLARED" -> {"CONFIRMED", "NOT_DISPATCHED", "UNKNOWN"}
      [] s = "UNKNOWN" -> {"CONFIRMED", "NOT_DISPATCHED"}
      [] OTHER -> {}

(* Mutant: what a chain may go on with is not looked at. *)
ExtendsLast(e) ==
    e.prior = Len(chain[ActionOf[e.check]])

(* e names the latest effect of its action as its predecessor. *)
Extends(e) ==
    LET t == chain[ActionOf[e.check]] IN
    /\ e.prior = Len(t)
    /\ e.state \in IF t = << >> THEN {"DECLARED", "NOT_DISPATCHED"}
                                ELSE Continues(t[Len(t)].state)

(* What an honest runtime may sign of clearance c. *)
True(c, s) ==
    CASE s = "CONFIRMED" -> fate[c] = "done"
      [] s = "NOT_DISPATCHED" -> fate[c] \in {"failed", "dropped"}
      [] OTHER -> fate[c] \in {"declared", "done", "failed"}

(***************************************************************************)
(* effects.record.  The very envelope under another request id is answered *)
(* without a transaction, and needs no action of its own.                  *)
(***************************************************************************)
RecordEffect(q) ==
    LET e == EffectOf[q]
        a == ActionOf[e.check]
    IN  /\ host \in {"READY", "DRAINING"}
        /\ True(e.check, e.state)
        /\ checks[e.check].state = "CLEAR"
        /\ Extends(e)
        /\ Execute(q, 1)
        /\ HandlerDone
        /\ chain' = [chain EXCEPT ![a] =
              Append(@, [check |-> e.check, state |-> e.state])]
        /\ UNCHANGED <<checks, outbox, sent, working, runtime>>

(* system.drain *)
Drain ==
    /\ host = "READY"
    /\ HostTo("DRAINING", 1 + Cardinality(Evaluating))
    /\ HandlerDone
    /\ EndAll(Evaluating)
    /\ UNCHANGED <<outbox, sent, working, chain, runtime>>

(* The first SIGTERM: one more tick, and no event; checks are left alone. *)
SignalDrain ==
    /\ host = "READY" /\ phase = "idle" /\ answer = NoAnswer
    /\ host' = "DRAINING"
    /\ phase' = FirstStep
    /\ UNCHANGED <<now, after, epoch, head, executed, idem, answer, told>>
    /\ UNCHANGED <<watch, runtime>>

(* The clock does not go back behind what the guard has read of it. *)
Take ==
    /\ Listening /\ answer = NoAnswer
    /\ Acquire
    /\ now' >= read
    /\ UNCHANGED <<service, watch, runtime>>

Reply == (Deliver \/ LoseReply) /\ UNCHANGED <<watch, runtime>>

-----------------------------------------------------------------------------
(* The runtime, at any time. *)

(* Mutant: a clearance is used once, an action is not. *)
UnusedClearance(c) == c \notin consumed

Unused(c) == c \notin consumed /\ ActionOf[c] \notin dispatched

(* Guard::dispatch at clock reading t, one transaction of the guard. *)
Dispatch(c, t) ==
    /\ fate[c] = "held"
    /\ checks[c].state = "CLEAR"
    /\ t >= read /\ t >= now
    /\ checks[c].issued <= t /\ t < checks[c].expires
    /\ Unused(c)
    /\ reserved + Cost <= Cap
    /\ read' = t
    /\ consumed' = consumed \cup {c}
    /\ dispatched' = dispatched \cup {ActionOf[c]}
    /\ reserved' = reserved + Cost
    /\ fate' = [fate EXCEPT ![c] = "declared"]
    /\ UNCHANGED <<cycle, service, watch>>

(* The runtime carries the action out, or fails to, or lets it be. *)
Settle(c, from, to) ==
    /\ fate[c] = from
    /\ fate' = [fate EXCEPT ![c] = to]
    /\ UNCHANGED <<cycle, service, watch, read, consumed, dispatched, reserved>>

GiveUp(c) == checks[c].state = "CLEAR" /\ Settle(c, "held", "dropped")

Tick ==
    \/ BeginTick \/ RepliesDone
    \/ \E lost \in SUBSET Overdue : TickChecks(lost)
    \/ \E jobs \in SUBSET outbox :
          TickOutbox(jobs) \/ TickOutboxFails(jobs) \/ SendJobs(jobs)
    \/ \E c \in CheckId :
          \/ ReplyIgnored(c) \/ ReplyClears(c)
          \/ ReplyEnds(c) \/ ReplyFaults(c)

Handle ==
    \/ Refuse \/ Drain
    \/ \E q \in Request : Repeat(q) \/ RequestFails(q)
    \/ \E q \in Create, latched \in BOOLEAN : CreateCheck(q, latched)
    \/ \E q \in Record : RecordEffect(q)

Next ==
    \/ StartWatch \/ FailStart \/ Recover \/ StartDone \/ Die
    \/ SignalDrain \/ Take \/ Tick \/ Handle \/ Reply
    \/ \E c \in CheckId :
          \/ \E t \in 1 .. MaxNow : Dispatch(c, t)
          \/ \E to \in {"done", "failed"} : Settle(c, "declared", to)
          \/ GiveUp(c)

Spec == Init /\ [][Next]_vars

R == INSTANCE Requests WITH times <- executed

-----------------------------------------------------------------------------
(* Properties *)

(***************************************************************************)
(* A mutation that is repeated under its request id, through crashes, lost *)
(* replies and failing commits, is carried out once, and no reply arrives  *)
(* that was not committed ("no acknowledgement without committed audit").  *)
(***************************************************************************)
KeepsRequests == R!Spec

(***************************************************************************)
(* A client that repeats a request that was carried out gets the reply of  *)
(* that time, in every host state and from every later process.            *)
(***************************************************************************)
RepliesKept == idem = executed

(* An envelope of effect s of check c, after n others, has a stored reply. *)
Stored(c, s, n) ==
    \E q \in Record :
        idem[q] # 0 /\ EffectOf[q] = [check |-> c, state |-> s, prior |-> n]

(***************************************************************************)
(* A mutation and its stored reply are there together or not at all: a     *)
(* check exists just when the reply of its creation does, and an effect    *)
(* stands at the place its envelope asked for just when its reply says so. *)
(* A crash, a rollback or a repetition leaves no half of it.               *)
(***************************************************************************)
RepliesMatchStore ==
    /\ \A q \in Create : idem[q] # 0 => checks[CheckOf[q]].state # "ABSENT"
    /\ \A c \in CheckId : checks[c].state # "ABSENT" =>
          \E q \in Create : idem[q] # 0 /\ CheckOf[q] = c
    /\ \A q \in Record : idem[q] # 0 =>
          LET e == EffectOf[q]
              t == chain[ActionOf[e.check]]
          IN  /\ e.prior < Len(t)
              /\ t[e.prior + 1] = [check |-> e.check, state |-> e.state]
    /\ \A a \in Action : \A i \in DOMAIN chain[a] :
          Stored(chain[a][i].check, chain[a][i].state, i - 1)

(***************************************************************************)
(* No action is dispatched twice, under however many clearances, and the   *)
(* reservations are those of the dispatched actions and within the quota.  *)
(***************************************************************************)
OneEffect ==
    /\ \A c, d \in consumed : ActionOf[c] = ActionOf[d] => c = d
    /\ reserved = Cost * Cardinality(consumed) /\ reserved <= Cap

(***************************************************************************)
(* What the runtime dispatched, watchd still calls CLEAR: no crash, drain  *)
(* or recovery takes back a clearance that may have been used.             *)
(***************************************************************************)
EffectsAreCleared == \A c \in consumed : checks[c].state = "CLEAR"

(***************************************************************************)
(* The evidence of an action does not contradict itself, nor the runtime:  *)
(* nothing follows a final effect, and a confirmed action was dispatched   *)
(* and done.                                                               *)
(***************************************************************************)
EvidenceIsTrue ==
    \A a \in Action : \A i \in DOMAIN chain[a] :
        LET e == chain[a][i] IN
        /\ e.state \in {"CONFIRMED", "NOT_DISPATCHED"} => i = Len(chain[a])
        /\ e.state = "CONFIRMED" => e.check \in consumed /\ fate[e.check] = "done"

(***************************************************************************)
(* A check under evaluation has its jobs with the workers of this process, *)
(* or still their rows, whatever was rolled back in between.               *)
(***************************************************************************)
NoJobLost ==
    Listening => \A c \in Evaluating : c \in outbox \cup sent

(***************************************************************************)
(* What the pin does for a store behind it: only the events of the starts  *)
(* themselves, two for each that fails and one for the last, can bring the *)
(* head up to it; nothing else is appended before it is.                   *)
(***************************************************************************)
PinHoldsBack == Listening => Restored + 2 * epoch > MinHead

(***************************************************************************)
(* backup.rs:2: "Restore refuses when the store's head is behind the       *)
(* independent minimum_head pin."                                          *)
(***************************************************************************)
BehindNeverServes == Listening => Restored >= MinHead

=============================================================================
