---------------------------- MODULE RuntimeProofs ----------------------------
(***************************************************************************)
(* The safety properties of Runtime and its refinement of Requests, for    *)
(* any checks, actions, requests, durations and bounds.                    *)
(*                                                                         *)
(* The invariant has five parts that hardly need each other: the store's   *)
(* replies (Books), the guard's store and the runtime's fates (Guarded),   *)
(* the effect chains (EvidenceIsTrue), the jobs of this process (Jobs) and *)
(* the audit head (Behind); RepliesMatchStore ties the first to the rest.  *)
(* Each is kept by the few kinds of steps that touch it; the lemmas Store- *)
(* Steps and RuntimeSteps say which those are.                             *)
(***************************************************************************)
EXTENDS Runtime, FiniteSetTheorems, SequenceTheorems, TLAPS

(* Stored replies are of the one execution, and so is the one on its way. *)
Books ==
    /\ idem = executed
    /\ \A q \in Request : executed[q] \in {0, 1}
    /\ answer # NoAnswer =>
          \E q \in Request : answer = <<q, 1>> /\ executed[q] = 1

(* The guard's tables and what the runtime did of them. *)
Guarded ==
    /\ dispatched = {ActionOf[c] : c \in consumed}
    /\ OneEffect
    /\ \A c \in CheckId :
          fate[c] \in {"declared", "done", "failed"} <=> c \in consumed

(* A thread has the lock only while watchd serves. *)
Jobs ==
    /\ phase # "idle" => Listening
    /\ Listening \/ host = "RECOVERED" =>
          \A c \in Evaluating : c \in outbox \cup sent

(* A store too far behind for its starts: what it has is from them. *)
Behind ==
    Restored + 2 * epoch <= MinHead =>
        \/ host = "DOWN" /\ head <= Restored + 2 * epoch
        \/ host = "STARTING" /\ head < Restored + 2 * epoch

IInv ==
    /\ TypeOK
    /\ Books
    /\ Guarded
    /\ EffectsAreCleared
    /\ EvidenceIsTrue
    /\ Jobs
    /\ RepliesMatchStore
    /\ Behind

-----------------------------------------------------------------------------
(* The steps that touch a part. *)

books == <<executed, idem, answer, told>>

LEMMA StoreSteps ==
    ASSUME [Next]_vars
    PROVE  \/ UNCHANGED books
           \/ \E q \in Request, n \in Nat : Execute(q, n)
           \/ \E q \in Request : Replay(q)
           \/ answer' = NoAnswer /\ UNCHANGED <<executed, idem, told>>
           \/ Deliver
  <1>1. CASE UNCHANGED vars
    BY <1>1 DEF vars, service, books
  <1>2. CASE StartWatch \/ FailStart \/ Recover \/ StartDone \/ SignalDrain \/ Take
    BY <1>2 DEF StartWatch, FailStart, Recover, StartDone, SignalDrain, Take,
       Start, RefuseToStart, Recovered, HostReady, HostTo, service, books
  <1>3. CASE Die
    BY <1>3 DEF Die, Dies
  <1>4. CASE Reply
    BY <1>4 DEF Reply, LoseReply, Idle
  <1>5. CASE Tick
    <2>1. CASE BeginTick \/ RepliesDone
      BY <2>1 DEF BeginTick, EnterTick, RepliesDone, service, books
    <2>2. ASSUME NEW lost \in SUBSET Overdue, TickChecks(lost)
          PROVE  UNCHANGED books
      BY <2>2 DEF TickChecks, HostTo, books
    <2>3. ASSUME NEW jobs \in SUBSET outbox,
                 TickOutbox(jobs) \/ TickOutboxFails(jobs) \/ SendJobs(jobs)
          PROVE  UNCHANGED books
      BY <2>3 DEF TickOutbox, TickOutboxFails, SendJobs, Commits, CommitFails,
         HostTo, service, books
    <2>4. ASSUME NEW c \in CheckId,
                 ReplyIgnored(c) \/ ReplyClears(c) \/ ReplyEnds(c)
                    \/ ReplyFaults(c)
          PROVE  UNCHANGED books
      BY <2>4 DEF ReplyIgnored, ReplyClears, ReplyEnds, ReplyFaults, Commits,
         HostTo, service, books
    <2>. QED  BY <1>5, <2>1, <2>2, <2>3, <2>4 DEF Tick
  <1>6. CASE Handle
    <2>1. CASE Refuse \/ Drain
      BY <2>1 DEF Refuse, Drain, HostTo, service, books
    <2>2. ASSUME NEW q \in Request, Repeat(q) \/ RequestFails(q)
          PROVE  Replay(q) \/ UNCHANGED books
      BY <2>2 DEF Repeat, RequestFails, Breaks, CommitFails, HostTo, books
    <2>3. ASSUME NEW q \in Create, NEW latched \in BOOLEAN,
                 CreateCheck(q, latched)
          PROVE  q \in Request /\ \E n \in Nat : Execute(q, n)
      BY <2>3, RuntimeAssumption DEF CreateCheck
    <2>4. ASSUME NEW q \in Record, RecordEffect(q)
          PROVE  q \in Request /\ Execute(q, 1)
      BY <2>4, RuntimeAssumption DEF RecordEffect
    <2>. QED  BY <1>6, <2>1, <2>2, <2>3, <2>4 DEF Handle
  <1>7. ASSUME NEW c \in CheckId,
               \/ \E t \in 1 .. MaxNow : Dispatch(c, t)
               \/ \E to \in {"done", "failed"} : Settle(c, "declared", to)
               \/ GiveUp(c)
        PROVE  UNCHANGED books
    BY <1>7 DEF Dispatch, Settle, GiveUp, service, books
  <1>. QED  BY <1>1, <1>2, <1>3, <1>4, <1>5, <1>6, <1>7 DEF Next

LEMMA RuntimeSteps ==
    ASSUME [Next]_vars
    PROVE  \/ UNCHANGED runtime
           \/ /\ UNCHANGED <<cycle, service, watch>>
              /\ \E c \in CheckId :
                    \/ \E t \in 1 .. MaxNow : Dispatch(c, t)
                    \/ \E to \in {"done", "failed"} : Settle(c, "declared", to)
                    \/ Settle(c, "held", "dropped")
  <1>1. CASE UNCHANGED vars
    BY <1>1 DEF vars
  <1>2. CASE StartWatch \/ FailStart \/ Recover \/ StartDone \/ SignalDrain
             \/ Take \/ Die \/ Reply
    BY <1>2 DEF StartWatch, FailStart, Recover, StartDone, SignalDrain, Take,
       Die, Reply, runtime
  <1>3. CASE Tick
    <2>1. CASE BeginTick \/ RepliesDone
      BY <2>1 DEF BeginTick, RepliesDone, runtime
    <2>2. ASSUME NEW lost \in SUBSET Overdue, TickChecks(lost)
          PROVE  UNCHANGED runtime
      BY <2>2 DEF TickChecks, runtime
    <2>3. ASSUME NEW jobs \in SUBSET outbox,
                 TickOutbox(jobs) \/ TickOutboxFails(jobs) \/ SendJobs(jobs)
          PROVE  UNCHANGED runtime
      BY <2>3 DEF TickOutbox, TickOutboxFails, SendJobs, runtime
    <2>4. ASSUME NEW c \in CheckId,
                 ReplyIgnored(c) \/ ReplyClears(c) \/ ReplyEnds(c)
                    \/ ReplyFaults(c)
          PROVE  UNCHANGED runtime
      BY <2>4 DEF ReplyIgnored, ReplyClears, ReplyEnds, ReplyFaults, Decides,
         runtime
    <2>. QED  BY <1>3, <2>1, <2>2, <2>3, <2>4 DEF Tick
  <1>4. CASE Handle
    <2>1. CASE Refuse \/ Drain
      BY <2>1 DEF Refuse, Drain, runtime
    <2>2. ASSUME NEW q, Repeat(q) \/ RequestFails(q) \/ RecordEffect(q)
          PROVE  UNCHANGED runtime
      BY <2>2 DEF Repeat, RequestFails, RecordEffect, runtime
    <2>3. ASSUME NEW q, NEW latched, CreateCheck(q, latched)
          PROVE  UNCHANGED runtime
      BY <2>3 DEF CreateCheck, runtime
    <2>. QED  BY <1>4, <2>1, <2>2, <2>3 DEF Handle
  <1>5. ASSUME NEW c \in CheckId,
               \/ \E t \in 1 .. MaxNow : Dispatch(c, t)
               \/ \E to \in {"done", "failed"} : Settle(c, "declared", to)
               \/ GiveUp(c)
        PROVE  /\ UNCHANGED <<cycle, service, watch>>
               /\ \/ \E t \in 1 .. MaxNow : Dispatch(c, t)
                  \/ \E to \in {"done", "failed"} : Settle(c, "declared", to)
                  \/ Settle(c, "held", "dropped")
    BY <1>5 DEF Dispatch, Settle, GiveUp, service
  <1>. QED  BY <1>1, <1>2, <1>3, <1>4, <1>5 DEF Next
-----------------------------------------------------------------------------
(* The replies. *)

LEMMA BooksInv == ASSUME TypeOK, Books, [Next]_vars PROVE Books'
  <1>1. CASE UNCHANGED books
    BY <1>1 DEF Books, books
  <1>2. ASSUME NEW q \in Request, NEW n \in Nat, Execute(q, n)
        PROVE  Books'
    <2>1. executed[q] = 0 /\ executed \in [Request -> Nat]
      BY <1>2 DEF Execute, Books, TypeOK, ServiceTypeOK
    <2>2. /\ executed' = [executed EXCEPT ![q] = 1] /\ idem' = executed'
          /\ answer' = <<q, 1>>
      BY <1>2, <2>1 DEF Execute, Books
    <2>. QED  BY <2>1, <2>2 DEF Books
  <1>3. ASSUME NEW q \in Request, Replay(q)
        PROVE  Books'
    <2>1. idem[q] = 1 /\ executed[q] = 1
      BY <1>3 DEF Replay, Books
    <2>. QED  BY <1>3, <2>1 DEF Replay, Books
  <1>4. CASE answer' = NoAnswer /\ UNCHANGED <<executed, idem, told>>
    BY <1>4 DEF Books
  <1>5. CASE Deliver
    BY <1>5 DEF Deliver, Idle, Books
  <1>. QED  BY <1>1, <1>2, <1>3, <1>4, <1>5, StoreSteps

(* What a client sees of a step is a step of Requests, or nothing. *)
LEMMA BooksSteps ==
    ASSUME TypeOK, Books, [Next]_vars
    PROVE  [R!Next]_<<executed, told>>
  <1>1. CASE UNCHANGED <<executed, told>>
    BY <1>1
  <1>2. ASSUME NEW q \in Request, NEW n \in Nat, Execute(q, n)
        PROVE  R!CarryOut(q)
    <2>1. executed[q] = 0
      BY <1>2 DEF Execute, Books
    <2>2. executed' = [executed EXCEPT ![q] = 1] /\ UNCHANGED told
      BY <1>2, <2>1 DEF Execute
    <2>. QED  BY <2>1, <2>2 DEF R!CarryOut
  <1>3. ASSUME Deliver
        PROVE  \E q \in Request : R!Tell(q)
    BY <1>3 DEF Deliver, Idle, Books, R!Tell
  <1>4. CASE UNCHANGED books \/ \E q \in Request : Replay(q)
    BY <1>4 DEF Replay, books
  <1>. QED  BY <1>1, <1>2, <1>3, <1>4, StoreSteps DEF R!Next

-----------------------------------------------------------------------------
(* The guard. *)

LEMMA GuardedInv == ASSUME TypeOK, Guarded, [Next]_vars PROVE Guarded'
  <1>1. CASE UNCHANGED runtime
    BY <1>1 DEF Guarded, OneEffect, runtime
  <1>2. ASSUME NEW c \in CheckId, NEW t, Dispatch(c, t)
        PROVE  Guarded'
    <2>1. /\ c \notin consumed /\ ActionOf[c] \notin dispatched
          /\ consumed' = consumed \cup {c}
          /\ dispatched' = dispatched \cup {ActionOf[c]}
          /\ reserved' = reserved + Cost /\ reserved + Cost <= Cap
          /\ fate' = [fate EXCEPT ![c] = "declared"]
      BY <1>2 DEF Dispatch, Unused
    <2>2. IsFiniteSet(consumed) /\ Cardinality(consumed) \in Nat
      BY RuntimeAssumption, FS_Subset, FS_CardinalityType DEF TypeOK
    <2>3. Cardinality(consumed') = Cardinality(consumed) + 1
      BY <2>1, <2>2, FS_AddElement
    <2>4. reserved' = Cost * Cardinality(consumed')
      <3> DEFINE n == Cardinality(consumed)
                 m == Cardinality(consumed')
      <3>1. reserved = Cost * n /\ n \in Nat /\ m = n + 1 /\ Cost \in Nat
        BY <2>2, <2>3, RuntimeAssumption DEF Guarded, OneEffect
      <3> HIDE DEF n, m
      <3>2. Cost * (n + 1) = Cost * n + Cost
        BY <3>1
      <3>. QED  BY <3>1, <3>2, <2>1 DEF m
    <2>5. dispatched' = {ActionOf[d] : d \in consumed'}
      BY <2>1 DEF Guarded
    <2>6. \A d, e \in consumed' : ActionOf[d] = ActionOf[e] => d = e
      BY <2>1 DEF Guarded, OneEffect
    <2>7. \A d \in CheckId :
             fate'[d] \in {"declared", "done", "failed"} <=> d \in consumed'
      BY <2>1 DEF Guarded, TypeOK
    <2>. QED  BY <2>1, <2>4, <2>5, <2>6, <2>7 DEF Guarded, OneEffect
  <1>3. ASSUME NEW c \in CheckId, NEW from, NEW to, Settle(c, from, to),
               \/ from = "declared" /\ to \in {"done", "failed"}
               \/ from = "held" /\ to = "dropped"
        PROVE  Guarded'
    <2>1. /\ UNCHANGED <<consumed, dispatched, reserved>>
          /\ fate[c] = from /\ fate' = [fate EXCEPT ![c] = to]
      BY <1>3 DEF Settle
    <2>2. \A d \in CheckId :
             fate'[d] \in {"declared", "done", "failed"} <=> d \in consumed'
      BY <2>1, <1>3 DEF Guarded, TypeOK
    <2>3. OneEffect'
      <3>1. OneEffect
        BY DEF Guarded
      <3>. QED  BY <3>1, <2>1 DEF OneEffect
    <2>4. dispatched' = {ActionOf[d] : d \in consumed'}
      BY <2>1 DEF Guarded
    <2>. QED  BY <2>2, <2>3, <2>4 DEF Guarded
  <1>4. CASE \E c \in CheckId : \E t \in 1 .. MaxNow : Dispatch(c, t)
    BY <1>2, <1>4
  <1>5. CASE \E c \in CheckId :
                \/ \E to \in {"done", "failed"} : Settle(c, "declared", to)
                \/ Settle(c, "held", "dropped")
    BY <1>3, <1>5
  <1>. QED  BY <1>1, <1>4, <1>5, RuntimeSteps

(* An action that was carried out stays so. *)
LEMMA DoneStays ==
    ASSUME TypeOK, [Next]_vars, NEW c \in CheckId, fate[c] = "done"
    PROVE  fate'[c] = "done"
  BY RuntimeSteps DEF runtime, Dispatch, Settle, TypeOK
-----------------------------------------------------------------------------
(* The shape of the state: the clock and the lock, the store, the rest. *)

Steps == {"tick", "checks", "outbox", "replies", "sending"}

LEMMA FirstStepIsTick == FirstStep = "tick" /\ Served
  BY RuntimeStepAssumption, ServiceAssumption

LEMMA CycleMoves ==
    ASSUME CycleTypeOK(Steps), NEW s, NEW t \in Steps,
           \/ UNCHANGED cycle \/ Acquire \/ HandlerDone
           \/ NextStep(s, t) \/ TickDone(s)
    PROVE  CycleTypeOK(Steps)'
  BY FirstStepIsTick, ClockAssumption
     DEF CycleTypeOK, Steps, cycle, Acquire, HandlerDone, NextStep, TickDone

LEMMA CycleInv == ASSUME CycleTypeOK(Steps), [Next]_vars PROVE CycleTypeOK(Steps)'
  <1>1. CASE UNCHANGED vars
    BY <1>1, CycleMoves, "tick" \in Steps DEF vars, Steps
  <1>2. CASE StartWatch \/ FailStart \/ Recover \/ StartDone \/ Take \/ Reply
    BY <1>2, CycleMoves, "tick" \in Steps DEF StartWatch, FailStart, Recover,
       StartDone, Take, Reply, Deliver, LoseReply, cycle, Steps
  <1>3. CASE Die \/ SignalDrain
    BY <1>3, FirstStepIsTick DEF Die, Dies, SignalDrain, CycleTypeOK, Steps
  <1>4. CASE Tick
    <2>1. CASE BeginTick \/ RepliesDone
      BY <2>1, CycleMoves DEF BeginTick, EnterTick, RepliesDone, Steps
    <2>2. ASSUME NEW lost \in SUBSET Overdue, TickChecks(lost)
          PROVE  CycleTypeOK(Steps)'
      BY <2>2, CycleMoves DEF TickChecks, Steps
    <2>3. ASSUME NEW jobs \in SUBSET outbox,
                 TickOutbox(jobs) \/ TickOutboxFails(jobs)
          PROVE  CycleTypeOK(Steps)'
      BY <2>3, CycleMoves DEF TickOutbox, TickOutboxFails, Steps
    <2>4. ASSUME NEW jobs \in SUBSET outbox, SendJobs(jobs)
          PROVE  CycleTypeOK(Steps)'
      BY <2>4, FirstStepIsTick DEF SendJobs, CycleTypeOK, Steps
    <2>5. ASSUME NEW c \in CheckId,
                 ReplyIgnored(c) \/ ReplyClears(c) \/ ReplyEnds(c)
                    \/ ReplyFaults(c)
          PROVE  CycleTypeOK(Steps)'
      <3>1. UNCHANGED cycle
        BY <2>5 DEF ReplyIgnored, ReplyClears, ReplyEnds, ReplyFaults, Decides,
           cycle
      <3>. QED  BY <3>1, CycleMoves, "tick" \in Steps DEF Steps
    <2>. QED  BY <1>4, <2>1, <2>2, <2>3, <2>4, <2>5 DEF Tick
  <1>5. CASE Handle
    <2>1. ASSUME HandlerDone
          PROVE  CycleTypeOK(Steps)'
      BY <2>1, CycleMoves, "tick" \in Steps DEF Steps
    <2>2. CASE Refuse \/ Drain
      BY <2>1, <2>2 DEF Refuse, Drain
    <2>3. ASSUME NEW q, Repeat(q) \/ RequestFails(q) \/ RecordEffect(q)
          PROVE  CycleTypeOK(Steps)'
      BY <2>1, <2>3 DEF Repeat, RequestFails, RecordEffect
    <2>4. ASSUME NEW q, NEW latched, CreateCheck(q, latched)
          PROVE  CycleTypeOK(Steps)'
      BY <2>4 DEF CreateCheck, CycleTypeOK, Steps
    <2>. QED  BY <1>5, <2>2, <2>3, <2>4 DEF Handle
  <1>6. CASE UNCHANGED <<cycle, service, watch>>
    BY <1>6, CycleMoves, "tick" \in Steps DEF Steps
  <1>7. ASSUME NEW c \in CheckId,
               \/ \E t \in 1 .. MaxNow : Dispatch(c, t)
               \/ \E to \in {"done", "failed"} : Settle(c, "declared", to)
               \/ GiveUp(c)
        PROVE  UNCHANGED <<cycle, service, watch>>
    BY <1>7 DEF Dispatch, Settle, GiveUp
  <1>. QED  BY <1>1, <1>2, <1>3, <1>4, <1>5, <1>6, <1>7 DEF Next

LEMMA GrownType ==
    ASSUME ServiceTypeOK, NEW n \in Nat
    PROVE  Grown(n) \in 0 .. MinHead
  BY ServiceAssumption DEF ServiceTypeOK, Grown

LEMMA HostToType ==
    ASSUME ServiceTypeOK, NEW s \in HostStates, NEW n \in Nat, HostTo(s, n)
    PROVE  ServiceTypeOK'
  <1>1. head' \in 0 .. MinHead
    BY GrownType DEF HostTo
  <1>. QED  BY <1>1 DEF HostTo, ServiceTypeOK

LEMMA ExecuteType ==
    ASSUME ServiceTypeOK, NEW q \in Request, NEW n \in Nat, Execute(q, n)
    PROVE  ServiceTypeOK'
  <1>1. head' \in 0 .. MinHead
    BY GrownType DEF Execute
  <1>2. executed[q] + 1 \in Nat
    BY DEF ServiceTypeOK
  <1>3. /\ executed' \in [Request -> Nat] /\ idem' \in [Request -> Nat]
        /\ answer' \in Request \X Nat
    BY <1>2 DEF Execute, ServiceTypeOK
  <1>. QED  BY <1>1, <1>3 DEF Execute, ServiceTypeOK

LEMMA CountIsNat == ASSUME NEW S \in SUBSET CheckId PROVE Cardinality(S) \in Nat
  BY RuntimeAssumption, FS_Subset, FS_CardinalityType

LEMMA SameService == ASSUME ServiceTypeOK, UNCHANGED service PROVE ServiceTypeOK'
  BY DEF ServiceTypeOK, service

LEMMA FaultedType ==
    ASSUME ServiceTypeOK, NEW n \in Nat, HostTo(host, n) \/ HostTo("FAULTED", n)
    PROVE  ServiceTypeOK'
  BY HostToType, "FAULTED" \in HostStates DEF HostStates, ServiceTypeOK

LEMMA ServiceInv == ASSUME ServiceTypeOK, [Next]_vars PROVE ServiceTypeOK'
  <1>1. Evaluating \in SUBSET CheckId /\ Overdue \in SUBSET CheckId
    BY DEF Evaluating, Overdue
  <1>2. CASE UNCHANGED service
    BY <1>2, SameService
  <1>3. CASE StartWatch
    <2>1. head' \in 0 .. MinHead
      BY <1>3, GrownType DEF StartWatch, Start
    <2>2. epoch' \in 0 .. MaxStarts
      BY <1>3, ServiceAssumption DEF StartWatch, Start, ServiceTypeOK
    <2>. QED  BY <1>3, <2>1, <2>2 DEF StartWatch, Start, ServiceTypeOK, HostStates
  <1>4. CASE FailStart \/ StartDone
    BY <1>4, HostToType DEF FailStart, RefuseToStart, StartDone, HostReady,
       HostStates
  <1>5. CASE Recover
    BY <1>1, <1>5, HostToType, CountIsNat DEF Recover, Recovered, HostStates
  <1>6. CASE Die \/ SignalDrain \/ Reply
    BY <1>6 DEF Die, Dies, SignalDrain, Reply, Deliver, LoseReply, Idle,
       ServiceTypeOK, HostStates
  <1>7. CASE Tick
    <2>1. CASE BeginTick \/ RepliesDone
      BY <2>1, SameService DEF BeginTick, EnterTick, RepliesDone
    <2>2. ASSUME NEW lost \in SUBSET Overdue, TickChecks(lost)
          PROVE  ServiceTypeOK'
      <3>1. Cardinality(Overdue \ lost) \in Nat
        BY <1>1, CountIsNat
      <3>. QED  BY <2>2, <3>1, FaultedType DEF TickChecks
    <2>3. ASSUME NEW jobs \in SUBSET outbox,
                 TickOutbox(jobs) \/ TickOutboxFails(jobs) \/ SendJobs(jobs)
          PROVE  ServiceTypeOK'
      BY <2>3, FaultedType, SameService
         DEF TickOutbox, TickOutboxFails, SendJobs, Commits, CommitFails
    <2>4. ASSUME NEW c \in CheckId,
                 ReplyIgnored(c) \/ ReplyClears(c) \/ ReplyEnds(c)
                    \/ ReplyFaults(c)
          PROVE  ServiceTypeOK'
      BY <2>4, FaultedType, SameService
         DEF ReplyIgnored, ReplyClears, ReplyEnds, ReplyFaults, Commits
    <2>. QED  BY <1>7, <2>1, <2>2, <2>3, <2>4 DEF Tick
  <1>8. CASE Handle
    <2>1. CASE Refuse
      BY <2>1, SameService DEF Refuse
    <2>2. CASE Drain
      <3>1. 1 + Cardinality(Evaluating) \in Nat
        BY <1>1, CountIsNat
      <3>. QED  BY <2>2, <3>1, HostToType DEF Drain, HostStates
    <2>3. ASSUME NEW q \in Request, RequestFails(q)
          PROVE  ServiceTypeOK'
      BY <2>3, FaultedType DEF RequestFails, Breaks, CommitFails
    <2>4. ASSUME NEW q \in Request, Repeat(q)
          PROVE  ServiceTypeOK'
      BY <2>4 DEF Repeat, Replay, ServiceTypeOK
    <2>5. ASSUME NEW q \in Create, NEW latched \in BOOLEAN,
                 CreateCheck(q, latched)
          PROVE  ServiceTypeOK'
      BY <2>5, ExecuteType, RuntimeAssumption DEF CreateCheck
    <2>6. ASSUME NEW q \in Record, RecordEffect(q)
          PROVE  ServiceTypeOK'
      BY <2>6, ExecuteType, RuntimeAssumption DEF RecordEffect
    <2>. QED  BY <1>8, <2>1, <2>2, <2>3, <2>4, <2>5, <2>6 DEF Handle
  <1>9. CASE Take
    BY <1>9, SameService DEF Take
  <1>10. ASSUME NEW c \in CheckId,
               \/ \E t \in 1 .. MaxNow : Dispatch(c, t)
               \/ \E to \in {"done", "failed"} : Settle(c, "declared", to)
               \/ GiveUp(c)
        PROVE  UNCHANGED service
    BY <1>10 DEF Dispatch, Settle, GiveUp
  <1>11. UNCHANGED vars => UNCHANGED service
    BY DEF vars, service
  <1>. QED  BY <1>2, <1>3, <1>4, <1>5, <1>6, <1>7, <1>8, <1>9, <1>10, <1>11
            DEF Next

-----------------------------------------------------------------------------
(* The checks, their jobs and the effects. *)

CheckTypeOK ==
    /\ checks \in [CheckId -> Check]
    /\ outbox \subseteq CheckId
    /\ sent \subseteq CheckId /\ working \in [CheckId -> Nat]

LEMMA EndAllKeeps ==
    ASSUME checks \in [CheckId -> Check], NEW S \in SUBSET CheckId, EndAll(S)
    PROVE  /\ checks' \in [CheckId -> Check]
           /\ \A c \in CheckId :
                 checks'[c].state = IF c \in S THEN "ENDED" ELSE checks[c].state
  <1>1. ASSUME NEW c \in CheckId
        PROVE  [checks[c] EXCEPT !.state = "ENDED"] \in Check
    BY DEF Check, CheckStates
  <1>2. checks' \in [CheckId -> Check]
    BY <1>1 DEF EndAll
  <1>3. ASSUME NEW c \in CheckId
        PROVE  checks'[c].state = IF c \in S THEN "ENDED" ELSE checks[c].state
    BY DEF EndAll, Check
  <1>. QED  BY <1>2, <1>3

LEMMA HandKeeps ==
    ASSUME CheckTypeOK, NEW jobs, Hand(jobs)
    PROVE  /\ sent' \subseteq CheckId /\ working' \in [CheckId -> Nat]
           /\ sent' = sent \cup jobs /\ jobs \subseteq outbox
  BY DEF CheckTypeOK, Hand

LEMMA DecidesKeeps ==
    ASSUME CheckTypeOK, NEW c \in CheckId, NEW k \in Check, Decides(c, k)
    PROVE  /\ CheckTypeOK'
           /\ checks[c].state = "EVALUATING" /\ checks'[c] = k
           /\ \A d \in CheckId \ {c} : checks'[d] = checks[d]
           /\ UNCHANGED <<cycle, outbox, sent, chain, runtime>>
  <1>1. working' \in [CheckId -> Nat]
    BY DEF Decides, CheckTypeOK
  <1>2. checks' = [checks EXCEPT ![c] = k] /\ checks[c].state = "EVALUATING"
        /\ UNCHANGED <<cycle, outbox, sent, chain, runtime>>
    BY DEF Decides, Evaluating
  <1>. QED  BY <1>1, <1>2 DEF CheckTypeOK

(* A step of a check: types, clearances that stay, and jobs that stay. *)
Steady ==
    /\ CheckTypeOK'
    /\ \A c \in CheckId : checks[c].state = "CLEAR" => checks'[c].state = "CLEAR"

Waiting == \A c \in Evaluating : c \in outbox \cup sent

(* No check comes under evaluation, and no row goes but to the workers. *)
LEMMA WaitingKept ==
    ASSUME Waiting, outbox \cup sent \subseteq outbox' \cup sent',
           \A c \in CheckId : checks'[c].state = "EVALUATING" =>
                                 checks[c].state = "EVALUATING"
    PROVE  Waiting'
  BY DEF Waiting, Evaluating

LEMMA EndAllSteady ==
    ASSUME CheckTypeOK, NEW S \in SUBSET Evaluating, EndAll(S),
           CheckTypeOK' \/ UNCHANGED <<outbox, sent, working>>
    PROVE  /\ Steady
           /\ \A c \in CheckId :
                 checks'[c].state = "EVALUATING" =>
                    checks[c].state = "EVALUATING" /\ c \notin S
  <1>1. S \in SUBSET CheckId
    BY DEF Evaluating
  <1>. QED  BY <1>1, EndAllKeeps DEF Steady, CheckTypeOK, Evaluating

LEMMA SteadySame ==
    ASSUME CheckTypeOK, UNCHANGED checks,
           CheckTypeOK' \/ UNCHANGED <<outbox, sent, working>>
    PROVE  Steady
  BY DEF Steady, CheckTypeOK

(* tick(): the host serves, and goes on or faults. *)
LEMMA TickSteady ==
    ASSUME CycleTypeOK(Steps), CheckTypeOK, Waiting, Tick
    PROVE  /\ Steady /\ Waiting' /\ phase # "idle"
           /\ host' \in {host, "FAULTED"}
  <1>1. CASE BeginTick \/ RepliesDone
    <2>1. UNCHANGED <<checks, outbox, sent, working, host>>
      BY <1>1 DEF BeginTick, EnterTick, RepliesDone, watch, service
    <2>2. phase # "idle"
      BY <1>1, FirstStepIsTick
         DEF BeginTick, EnterTick, RepliesDone, NextStep, TickDone
    <2>. QED  BY <2>1, <2>2, SteadySame, WaitingKept
  <1>2. ASSUME NEW lost \in SUBSET Overdue, TickChecks(lost)
        PROVE  /\ Steady /\ Waiting' /\ phase # "idle"
               /\ host' \in {host, "FAULTED"}
    <2>1. Overdue \ lost \in SUBSET Evaluating
      BY DEF Overdue
    <2>2. /\ EndAll(Overdue \ lost) /\ UNCHANGED <<outbox, sent, working>>
          /\ phase = "checks" /\ host' \in {host, "FAULTED"}
      BY <1>2 DEF TickChecks, NextStep, HostTo
    <2>3. /\ Steady
          /\ \A c \in CheckId : checks'[c].state = "EVALUATING" =>
                                   checks[c].state = "EVALUATING"
      BY <2>1, <2>2, EndAllSteady
    <2>. QED  BY <2>2, <2>3, WaitingKept
  <1>3. ASSUME NEW jobs \in SUBSET outbox,
               TickOutbox(jobs) \/ TickOutboxFails(jobs) \/ SendJobs(jobs)
        PROVE  /\ Steady /\ Waiting' /\ phase # "idle"
               /\ host' \in {host, "FAULTED"}
    <2>1. /\ Hand(jobs) /\ outbox' \in {outbox, outbox \ jobs}
          /\ UNCHANGED checks
          /\ phase # "idle" /\ host' \in {host, "FAULTED"}
      BY <1>3 DEF TickOutbox, TickOutboxFails, SendJobs, RowsLeft, NextStep,
         Commits, CommitFails, HostTo, service
    <2>2. /\ sent' \subseteq CheckId /\ working' \in [CheckId -> Nat]
          /\ sent' = sent \cup jobs
      BY <2>1, HandKeeps
    <2>3. CheckTypeOK'
      BY <2>1, <2>2 DEF CheckTypeOK
    <2>4. outbox \cup sent \subseteq outbox' \cup sent'
      BY <2>1, <2>2
    <2>. QED  BY <2>1, <2>3, <2>4, SteadySame, WaitingKept
  <1>4. ASSUME NEW c \in CheckId, ReplyIgnored(c)
        PROVE  /\ Steady /\ Waiting' /\ phase # "idle"
               /\ host' \in {host, "FAULTED"}
    <2>1. working' \in [CheckId -> Nat]
      BY <1>4 DEF ReplyIgnored, CheckTypeOK
    <2>2. /\ UNCHANGED <<checks, outbox, sent, host>> /\ phase # "idle"
      BY <1>4 DEF ReplyIgnored, service
    <2>3. CheckTypeOK'
      BY <2>1, <2>2 DEF CheckTypeOK
    <2>. QED  BY <2>2, <2>3, SteadySame, WaitingKept
  <1>5. ASSUME NEW c \in CheckId, NEW k \in Check, Decides(c, k),
               k.state \in {"CLEAR", "ENDED"} \/ k = checks[c],
               host' \in {host, "FAULTED"}
        PROVE  /\ Steady /\ Waiting' /\ phase # "idle"
               /\ host' \in {host, "FAULTED"}
    <2>1. /\ CheckTypeOK'
          /\ checks[c].state = "EVALUATING" /\ checks'[c] = k
          /\ \A d \in CheckId \ {c} : checks'[d] = checks[d]
          /\ UNCHANGED <<outbox, sent>>
      BY <1>5, DecidesKeeps
    <2>2. Steady
      BY <2>1 DEF Steady
    <2>3. Waiting'
      BY <2>1, <1>5, WaitingKept
    <2>4. phase # "idle"
      BY <1>5 DEF Decides
    <2>. QED  BY <2>2, <2>3, <2>4, <1>5
  <1>6. ASSUME NEW c \in CheckId, ReplyClears(c)
        PROVE  \E k \in Check : /\ Decides(c, k) /\ k.state = "CLEAR"
                                /\ host' = host
    <2> DEFINE k1 == [checks[c] EXCEPT !.state = "CLEAR"]
               k2 == [k1 EXCEPT !.issued = now]
               k3 == [k2 EXCEPT !.expires = now + Clearance]
    <2>1. now \in Nat /\ now + Clearance \in Nat
      BY ClockAssumption, RuntimeAssumption DEF CycleTypeOK
    <2>2. k1 \in Check /\ k1.state = "CLEAR"
      BY DEF CheckTypeOK, Check, CheckStates
    <2>3. k2 \in Check /\ k2.state = "CLEAR"
      <3> HIDE DEF k1
      <3>. QED  BY <2>1, <2>2 DEF Check
    <2>4. k3 \in Check /\ k3.state = "CLEAR"
      <3> HIDE DEF k2
      <3>. QED  BY <2>1, <2>3 DEF Check
    <2>5. Decides(c, k3) /\ host' = host
      <3>1. k3 = [checks[c] EXCEPT !.state = "CLEAR", !.issued = now,
                                   !.expires = now + Clearance]
        BY DEF CheckTypeOK, Check
      <3> HIDE DEF k3
      <3>. QED  BY <1>6, <3>1 DEF ReplyClears, Commits, HostTo
    <2>. QED  BY <2>4, <2>5
  <1>7. ASSUME NEW c \in CheckId, ReplyEnds(c) \/ ReplyFaults(c)
        PROVE  \E k \in Check : /\ Decides(c, k)
                                /\ k.state = "ENDED" \/ k = checks[c]
                                /\ host' \in {host, "FAULTED"}
    <2>1. checks[c] \in Check
      BY DEF CheckTypeOK
    <2>2. /\ [checks[c] EXCEPT !.state = "ENDED"] \in Check
          /\ [checks[c] EXCEPT !.state = "ENDED"].state = "ENDED"
      BY <2>1 DEF Check, CheckStates
    <2>3. host' \in {host, "FAULTED"}
      BY <1>7 DEF ReplyEnds, ReplyFaults, Commits, HostTo
    <2>4. \/ Decides(c, [checks[c] EXCEPT !.state = "ENDED"])
          \/ Decides(c, checks[c])
      BY <1>7 DEF ReplyEnds, ReplyFaults
    <2>. QED  BY <2>1, <2>2, <2>3, <2>4
  <1>8. CASE \E c \in CheckId : ReplyClears(c)
    BY <1>5, <1>6, <1>8
  <1>9. CASE \E c \in CheckId : ReplyEnds(c) \/ ReplyFaults(c)
    BY <1>5, <1>7, <1>9
  <1>. QED  BY <1>1, <1>2, <1>3, <1>4, <1>8, <1>9 DEF Tick

(* dispatch(): a check that is created has its row in the outbox. *)
LEMMA HandleSteady ==
    ASSUME CycleTypeOK(Steps), CheckTypeOK, Waiting, Handle
    PROVE  /\ Steady /\ Waiting' /\ phase = "handle"
           /\ host' \in {host, "FAULTED", "DRAINING"}
  <1>1. ASSUME NEW q,
               \/ Refuse \/ Repeat(q) \/ RequestFails(q) \/ RecordEffect(q)
        PROVE  /\ Steady /\ Waiting' /\ phase = "handle"
               /\ host' \in {host, "FAULTED", "DRAINING"}
    <2>1. /\ UNCHANGED <<checks, outbox, sent, working>>
          /\ phase = "handle" /\ host' \in {host, "FAULTED", "DRAINING"}
      BY <1>1 DEF Refuse, Repeat, RequestFails, RecordEffect, Replay, Breaks,
         CommitFails, HostTo, Execute, HandlerDone, watch, service
    <2>. QED  BY <2>1, SteadySame, WaitingKept
  <1>2. CASE Drain
    <2>1. /\ EndAll(Evaluating) /\ UNCHANGED <<outbox, sent, working>>
          /\ phase = "handle" /\ host' = "DRAINING"
      BY <1>2 DEF Drain, HostTo, HandlerDone
    <2>. QED  BY <2>1, EndAllSteady, WaitingKept
  <1>3. ASSUME NEW q \in Create, NEW latched \in BOOLEAN,
               CreateCheck(q, latched)
        PROVE  /\ Steady /\ Waiting' /\ phase = "handle"
               /\ host' \in {host, "FAULTED", "DRAINING"}
    <2> DEFINE c == CheckOf[q]
               state == IF latched THEN "ENDED" ELSE "EVALUATING"
               k1 == [checks[c] EXCEPT !.state = state]
               k2 == [k1 EXCEPT !.deadline = now + Evaluation]
    <2>1. c \in CheckId /\ now + Evaluation \in Nat
      BY RuntimeAssumption, ClockAssumption DEF CycleTypeOK
    <2>2. k1 \in Check
      BY <2>1 DEF CheckTypeOK, Check, CheckStates
    <2>3. k2 \in Check
      <3> HIDE DEF k1
      <3>. QED  BY <2>1, <2>2 DEF Check
    <2>4. checks' = [checks EXCEPT ![c] = k2]
      BY <1>3, <2>1 DEF CreateCheck, CheckTypeOK, Check
    <2>5. /\ checks[c].state = "ABSENT" /\ outbox' = outbox \cup {c}
          /\ UNCHANGED <<sent, working, host>> /\ phase = "handle"
      BY <1>3 DEF CreateCheck, Execute
    <2> HIDE DEF c, k2
    <2>6. CheckTypeOK'
      BY <2>1, <2>3, <2>4, <2>5 DEF CheckTypeOK
    <2>7. Steady
      BY <2>4, <2>5, <2>6 DEF Steady, CheckTypeOK
    <2>8. Waiting'
      BY <2>4, <2>5 DEF Waiting, Evaluating, CheckTypeOK
    <2>. QED  BY <2>5, <2>7, <2>8
  <1>. QED  BY <1>1, <1>2, <1>3 DEF Handle

LEMMA TickIsBusy == ASSUME Tick PROVE phase # "idle"
  <1>1. CASE BeginTick \/ RepliesDone
    BY <1>1, FirstStepIsTick
       DEF BeginTick, EnterTick, RepliesDone, NextStep, TickDone
  <1>2. CASE ~(BeginTick \/ RepliesDone)
    BY <1>2 DEF Tick, TickChecks, TickOutbox, TickOutboxFails, SendJobs,
       ReplyIgnored, ReplyClears, ReplyEnds, ReplyFaults, Decides, NextStep
  <1>. QED  BY <1>1, <1>2

(* Every step: clearances stay, and no job under evaluation is lost. *)
LEMMA JobsInv ==
    ASSUME CycleTypeOK(Steps), CheckTypeOK, Jobs, [Next]_vars
    PROVE  Steady /\ Jobs'
  <1> USE DEF Listening
  <1>1. CASE UNCHANGED <<phase, host, checks, outbox, sent, working>>
    BY <1>1, SteadySame DEF Jobs, Evaluating
  <1>2. CASE StartWatch \/ FailStart
    <2>1. /\ UNCHANGED <<phase, checks, outbox, sent, working>>
          /\ host \in {"DOWN", "STARTING"} /\ host' \in {"DOWN", "STARTING"}
      BY <1>2 DEF StartWatch, Start, FailStart, RefuseToStart, HostTo, cycle, watch
    <2>. QED  BY <2>1, SteadySame DEF Jobs
  <1>3. CASE Recover
    <2>1. /\ EndAll(Evaluating) /\ UNCHANGED <<phase, outbox, sent, working>>
          /\ host = "STARTING" /\ host' = "RECOVERED"
      BY <1>3 DEF Recover, Recovered, HostTo, cycle
    <2>2. /\ Steady
          /\ \A c \in CheckId : checks'[c].state = "EVALUATING" =>
                checks[c].state = "EVALUATING" /\ c \notin Evaluating
      BY <2>1, EndAllSteady
    <2>. QED  BY <2>1, <2>2 DEF Jobs, Evaluating
  <1>4. CASE StartDone
    <2>1. /\ UNCHANGED <<phase, checks, outbox, sent, working>>
          /\ host = "RECOVERED" /\ host' = "READY"
      BY <1>4 DEF StartDone, HostReady, HostTo, cycle, watch
    <2>. QED  BY <2>1, SteadySame DEF Jobs, Evaluating
  <1>5. CASE Die
    <2>1. /\ UNCHANGED <<checks, outbox>> /\ sent' = {}
          /\ working' = [c \in CheckId |-> 0]
          /\ phase' = "idle" /\ host' = "DOWN"
      BY <1>5 DEF Die, Dies
    <2>2. CheckTypeOK'
      BY <2>1 DEF CheckTypeOK
    <2>. QED  BY <2>1, <2>2, SteadySame DEF Jobs
  <1>6. CASE SignalDrain
    <2>1. /\ UNCHANGED <<checks, outbox, sent, working>>
          /\ host = "READY" /\ host' = "DRAINING"
      BY <1>6 DEF SignalDrain, watch
    <2>. QED  BY <2>1, SteadySame DEF Jobs, Evaluating
  <1>7. CASE Take
    <2>1. UNCHANGED <<checks, outbox, sent, working, host>> /\ Listening
      BY <1>7 DEF Take, service, watch
    <2>. QED  BY <2>1, SteadySame DEF Jobs, Evaluating
  <1>8. CASE Tick
    <2>1. phase # "idle"
      BY <1>8, TickIsBusy
    <2>2. Listening /\ Waiting
      BY <2>1 DEF Jobs, Waiting
    <2>3. Steady /\ Waiting' /\ host' \in {host, "FAULTED"}
      BY <1>8, <2>2, TickSteady
    <2>. QED  BY <2>2, <2>3 DEF Jobs, Waiting
  <1>9. CASE Handle
    <2>1. phase = "handle"
      BY <1>9 DEF Handle, Refuse, Drain, Repeat, RequestFails, RecordEffect,
         CreateCheck, HandlerDone
    <2>2. Listening /\ Waiting
      BY <2>1 DEF Jobs, Waiting
    <2>3. Steady /\ Waiting' /\ host' \in {host, "FAULTED", "DRAINING"}
      BY <1>9, <2>2, HandleSteady
    <2>. QED  BY <2>2, <2>3 DEF Jobs, Waiting
  <1>10. Reply => UNCHANGED <<phase, host, checks, outbox, sent, working>>
    BY DEF Reply, Deliver, LoseReply, cycle, watch
  <1>11. ASSUME NEW c \in CheckId,
               \/ \E t \in 1 .. MaxNow : Dispatch(c, t)
               \/ \E to \in {"done", "failed"} : Settle(c, "declared", to)
               \/ GiveUp(c)
        PROVE  UNCHANGED <<phase, host, checks, outbox, sent, working>>
    BY <1>11 DEF Dispatch, Settle, GiveUp, cycle, service, watch
  <1>12. UNCHANGED vars => UNCHANGED <<phase, host, checks, outbox, sent, working>>
    BY DEF vars, cycle, service, watch
  <1>. QED  BY <1>1, <1>2, <1>3, <1>4, <1>5, <1>6, <1>7, <1>8, <1>9, <1>10,
               <1>11, <1>12 DEF Next

LEMMA ChainSteps ==
    ASSUME [Next]_vars
    PROVE  UNCHANGED chain \/ \E q \in Record : RecordEffect(q)
  <1>1. CASE UNCHANGED vars \/ StartWatch \/ FailStart \/ Recover \/ StartDone
             \/ Die \/ SignalDrain \/ Take \/ Reply
    BY <1>1 DEF vars, StartWatch, FailStart, Recover, StartDone, Die,
       SignalDrain, Take, Reply, watch
  <1>2. CASE Tick
    BY <1>2 DEF Tick, BeginTick, RepliesDone, TickChecks, TickOutbox,
       TickOutboxFails, SendJobs, ReplyIgnored, ReplyClears, ReplyEnds,
       ReplyFaults, Decides, watch
  <1>3. CASE Handle
    BY <1>3 DEF Handle, Refuse, Drain, Repeat, RequestFails, CreateCheck, watch
  <1>4. ASSUME NEW c \in CheckId,
               \/ \E t \in 1 .. MaxNow : Dispatch(c, t)
               \/ \E to \in {"done", "failed"} : Settle(c, "declared", to)
               \/ GiveUp(c)
        PROVE  UNCHANGED chain
    BY <1>4 DEF Dispatch, Settle, GiveUp, watch
  <1>. QED  BY <1>1, <1>2, <1>3, <1>4 DEF Next

(***************************************************************************)
(* A chain grows only behind an effect that is not final, and a confirmed  *)
(* one is signed only of an action that was carried out.                   *)
(***************************************************************************)
LEMMA ChainInv ==
    ASSUME TypeOK, EvidenceIsTrue, Guarded', [Next]_vars
    PROVE  chain' \in [Action -> Seq(Effect)] /\ EvidenceIsTrue'
  <1>1. \A c \in CheckId : fate[c] = "done" => fate'[c] = "done" /\ c \in consumed'
    BY DoneStays DEF Guarded
  <1>2. ASSUME NEW a \in Action
        PROVE  /\ chain[a] \in Seq(Effect) /\ Len(chain[a]) \in Nat
               /\ DOMAIN chain[a] = 1 .. Len(chain[a])
               /\ \A i \in DOMAIN chain[a] : chain[a][i] \in Effect
    <2>1. chain[a] \in Seq(Effect)
      BY DEF TypeOK
    <2>. QED  BY <2>1, LenProperties, ElementOfSeq
  <1>3. ASSUME NEW a \in Action, NEW i \in DOMAIN chain[a],
               chain[a][i].state = "CONFIRMED"
        PROVE  chain[a][i].check \in consumed' /\ fate'[chain[a][i].check] = "done"
    <2>1. chain[a][i].check \in CheckId /\ fate[chain[a][i].check] = "done"
      BY <1>2, <1>3 DEF EvidenceIsTrue, Effect
    <2>. QED  BY <2>1, <1>1
  <1>4. CASE UNCHANGED chain
    <2>1. EvidenceIsTrue'
      BY <1>3, <1>4 DEF EvidenceIsTrue
    <2>. QED  BY <2>1, <1>4 DEF TypeOK
  <1>5. ASSUME NEW q \in Record, RecordEffect(q)
        PROVE  chain' \in [Action -> Seq(Effect)] /\ EvidenceIsTrue'
    <2> DEFINE f == EffectOf[q]
               b == ActionOf[f.check]
               t == chain[b]
               e == [check |-> f.check, state |-> f.state]
               u == Append(t, e)
    <2>1. /\ f.check \in CheckId /\ b \in Action /\ f.state \in EffectStates
          /\ e \in Effect
      BY RuntimeAssumption DEF Effect
    <2>2. /\ True(f.check, f.state) /\ Extends(f)
          /\ chain' = [chain EXCEPT ![b] = u]
      BY <1>5 DEF RecordEffect
    <2>3. /\ u \in Seq(Effect) /\ Len(u) = Len(t) + 1
          /\ \A i \in 1 .. Len(t) : u[i] = t[i]
          /\ u[Len(t) + 1] = e
      BY <1>2, <2>1, AppendProperties
    <2>4. chain' \in [Action -> Seq(Effect)]
      BY <2>1, <2>2, <2>3 DEF TypeOK
    <2>5. ASSUME NEW i \in 1 .. Len(t)
          PROVE  t[i].state \notin {"CONFIRMED", "NOT_DISPATCHED"}
      <3> SUFFICES ASSUME t[i].state \in {"CONFIRMED", "NOT_DISPATCHED"}
                   PROVE  FALSE
        OBVIOUS
      <3>1. i = Len(t)
        BY <2>1, <1>2 DEF EvidenceIsTrue
      <3>2. Continues(t[Len(t)].state) = {}
        BY <3>1 DEF Continues
      <3>3. t # << >>
        BY <1>2, <2>1, EmptySeq
      <3>. QED  BY <2>2, <3>2, <3>3 DEF Extends
    <2>6. f.state = "CONFIRMED" => fate'[f.check] = "done" /\ f.check \in consumed'
      BY <2>1, <2>2, <1>1 DEF True
    <2>7. ASSUME NEW a \in Action, NEW i \in DOMAIN chain'[a]
          PROVE  LET d == chain'[a][i] IN
                 /\ d.state \in {"CONFIRMED", "NOT_DISPATCHED"} =>
                       i = Len(chain'[a])
                 /\ d.state = "CONFIRMED" =>
                       d.check \in consumed' /\ fate'[d.check] = "done"
      <3>1. CASE a # b
        <4>1. chain'[a] = chain[a]
          BY <3>1, <2>2 DEF TypeOK
        <4>. QED  BY <4>1, <1>3 DEF EvidenceIsTrue
      <3>2. CASE a = b
        <4>1. chain'[a] = u /\ Len(t) \in Nat /\ DOMAIN t = 1 .. Len(t)
          BY <3>2, <2>1, <2>2, <1>2 DEF TypeOK
        <4>2. i \in 1 .. Len(t) + 1
          BY <4>1, <2>3, LenProperties
        <4> HIDE DEF u, e, f
        <4>3. CASE i \in 1 .. Len(t)
          <5>1. chain'[a][i] = t[i]
            BY <4>1, <4>3, <2>3
          <5>. QED  BY <5>1, <4>1, <4>3, <2>5, <2>1, <1>3
        <4>4. CASE i = Len(t) + 1
          <5>1. chain'[a][i] = e /\ i = Len(chain'[a])
            BY <4>1, <4>4, <2>3
          <5>2. e.check = f.check /\ e.state = f.state
            BY DEF e
          <5>. QED  BY <5>1, <5>2, <2>6
        <4>. QED  BY <4>1, <4>2, <4>3, <4>4
      <3>. QED  BY <3>1, <3>2
    <2>. QED  BY <2>4, <2>7 DEF EvidenceIsTrue
  <1>. QED  BY <1>4, <1>5, ChainSteps

LEMMA GuardTypes ==
    ASSUME TypeOK, [Next]_vars
    PROVE  /\ read' \in Nat /\ reserved' \in Nat
           /\ consumed' \subseteq CheckId /\ dispatched' \subseteq Action
           /\ fate' \in [CheckId -> Fates]
  <1>1. CASE UNCHANGED runtime
    BY <1>1 DEF TypeOK, runtime
  <1>2. ASSUME NEW c \in CheckId, NEW t \in 1 .. MaxNow, Dispatch(c, t)
        PROVE  /\ read' \in Nat /\ reserved' \in Nat
               /\ consumed' \subseteq CheckId /\ dispatched' \subseteq Action
               /\ fate' \in [CheckId -> Fates]
    <2>1. t \in Nat /\ ActionOf[c] \in Action /\ reserved + Cost \in Nat
      BY ClockAssumption, RuntimeAssumption DEF TypeOK
    <2>. QED  BY <1>2, <2>1 DEF Dispatch, TypeOK, Fates
  <1>3. ASSUME NEW c \in CheckId, NEW from, NEW to \in Fates, Settle(c, from, to)
        PROVE  /\ read' \in Nat /\ reserved' \in Nat
               /\ consumed' \subseteq CheckId /\ dispatched' \subseteq Action
               /\ fate' \in [CheckId -> Fates]
    BY <1>3 DEF Settle, TypeOK
  <1>4. CASE \E c \in CheckId : \E t \in 1 .. MaxNow : Dispatch(c, t)
    BY <1>2, <1>4
  <1>5. CASE \E c \in CheckId :
                \/ \E to \in {"done", "failed"} : Settle(c, "declared", to)
                \/ Settle(c, "held", "dropped")
    BY <1>3, <1>5 DEF Fates
  <1>. QED  BY <1>1, <1>4, <1>5, RuntimeSteps

(* What is consumed was CLEAR when the guard looked at it. *)
LEMMA ClearedInv ==
    ASSUME EffectsAreCleared, TypeOK, [Next]_vars, Steady
    PROVE  EffectsAreCleared'
  <1>1. CASE consumed' = consumed
    BY <1>1 DEF EffectsAreCleared, Steady, TypeOK
  <1>2. ASSUME NEW c \in CheckId, NEW t, Dispatch(c, t)
        PROVE  EffectsAreCleared'
    BY <1>2 DEF Dispatch, watch, EffectsAreCleared
  <1>3. ASSUME NEW c, NEW from, NEW to, Settle(c, from, to)
        PROVE  consumed' = consumed
    BY <1>3 DEF Settle
  <1>4. UNCHANGED runtime => consumed' = consumed
    BY DEF runtime
  <1>. QED  BY <1>1, <1>2, <1>3, <1>4, RuntimeSteps

-----------------------------------------------------------------------------
(* The stored replies and what they are of. *)

Untouched ==
    /\ UNCHANGED <<idem, chain>>
    /\ \A c \in CheckId :
          checks'[c].state = "ABSENT" <=> checks[c].state = "ABSENT"

LEMMA EndAllTouchesNothing ==
    ASSUME CheckTypeOK, NEW S \in SUBSET Evaluating, EndAll(S),
           UNCHANGED <<idem, chain>>
    PROVE  Untouched
  BY EndAllKeeps DEF Untouched, Evaluating, CheckTypeOK

(* Only checks.create and effects.record leave a reply or what it is of. *)
LEMMA WritingSteps ==
    ASSUME CheckTypeOK, [Next]_vars
    PROVE  \/ Untouched
           \/ \E q \in Create, latched \in BOOLEAN : CreateCheck(q, latched)
           \/ \E q \in Record : RecordEffect(q)
  <1>1. CASE UNCHANGED vars \/ StartWatch \/ FailStart \/ StartDone
             \/ Die \/ SignalDrain \/ Take \/ Reply
    BY <1>1 DEF vars, StartWatch, FailStart, StartDone, Die, SignalDrain, Take,
       Reply, Start, RefuseToStart, HostReady, Dies, HostTo, Deliver, LoseReply,
       service, watch, Untouched
  <1>2. CASE Recover \/ Drain
    <2>1. EndAll(Evaluating) /\ UNCHANGED <<idem, chain>>
      BY <1>2 DEF Recover, Recovered, Drain, HostTo
    <2>. QED  BY <2>1, EndAllTouchesNothing
  <1>3. CASE Tick
    <2>1. CASE BeginTick \/ RepliesDone
      BY <2>1 DEF BeginTick, EnterTick, RepliesDone, service, watch, Untouched
    <2>2. ASSUME NEW lost \in SUBSET Overdue, TickChecks(lost)
          PROVE  Untouched
      <3>1. EndAll(Overdue \ lost) /\ UNCHANGED <<idem, chain>>
        BY <2>2 DEF TickChecks, HostTo
      <3>2. Overdue \ lost \in SUBSET Evaluating
        BY DEF Overdue
      <3>. QED  BY <3>1, <3>2, EndAllTouchesNothing
    <2>3. ASSUME NEW jobs \in SUBSET outbox,
                 TickOutbox(jobs) \/ TickOutboxFails(jobs) \/ SendJobs(jobs)
          PROVE  Untouched
      BY <2>3 DEF TickOutbox, TickOutboxFails, SendJobs, Commits, CommitFails,
         HostTo, service, Untouched
    <2>4. ASSUME NEW c \in CheckId, ReplyIgnored(c)
          PROVE  Untouched
      BY <2>4 DEF ReplyIgnored, service, Untouched
    <2>5. ASSUME NEW c \in CheckId, ReplyClears(c) \/ ReplyEnds(c) \/ ReplyFaults(c)
          PROVE  Untouched
      <3>1. PICK k : /\ Decides(c, k)
                     /\ k.state \in {"CLEAR", "ENDED"} \/ k = checks[c]
        <4>1. /\ [checks[c] EXCEPT !.state = "ENDED"].state = "ENDED"
              /\ [checks[c] EXCEPT !.state = "CLEAR", !.issued = now,
                           !.expires = now + Clearance].state = "CLEAR"
          BY DEF CheckTypeOK, Check
        <4>. QED  BY <2>5, <4>1 DEF ReplyClears, ReplyEnds, ReplyFaults
      <3>2. /\ checks[c].state = "EVALUATING" /\ checks' = [checks EXCEPT ![c] = k]
            /\ UNCHANGED chain
        BY <3>1 DEF Decides, Evaluating
      <3>3. UNCHANGED idem
        BY <2>5 DEF ReplyClears, ReplyEnds, ReplyFaults, Commits, HostTo
      <3>. QED  BY <3>1, <3>2, <3>3 DEF Untouched, CheckTypeOK
    <2>. QED  BY <1>3, <2>1, <2>2, <2>3, <2>4, <2>5 DEF Tick
  <1>4. ASSUME NEW q, Refuse \/ Repeat(q) \/ RequestFails(q)
        PROVE  Untouched
    BY <1>4 DEF Refuse, Repeat, RequestFails, Replay, Breaks, CommitFails,
       HostTo, service, watch, Untouched
  <1>5. CASE Handle
    BY <1>2, <1>4, <1>5 DEF Handle
  <1>6. ASSUME NEW c \in CheckId,
               \/ \E t \in 1 .. MaxNow : Dispatch(c, t)
               \/ \E to \in {"done", "failed"} : Settle(c, "declared", to)
               \/ GiveUp(c)
        PROVE  Untouched
    BY <1>6 DEF Dispatch, Settle, GiveUp, service, watch, Untouched
  <1>. QED  BY <1>1, <1>2, <1>3, <1>5, <1>6 DEF Next

LEMMA ExecuteStores ==
    ASSUME TypeOK, Books, NEW q \in Request, NEW n, Execute(q, n)
    PROVE  /\ idem' = [idem EXCEPT ![q] = 1] /\ idem[q] = 0
           /\ DOMAIN idem = Request
  BY DEF Execute, Books, TypeOK, ServiceTypeOK

(* The reply that is stored, and the check or the effect, come together. *)
LEMMA RepliesInv ==
    ASSUME TypeOK, Books, RepliesMatchStore, [Next]_vars
    PROVE  RepliesMatchStore'
  <1>1. CASE Untouched
    BY <1>1, RuntimeAssumption DEF Untouched, RepliesMatchStore, Stored
  <1>2. ASSUME NEW q \in Create, NEW latched \in BOOLEAN, CreateCheck(q, latched)
        PROVE  RepliesMatchStore'
    <2> DEFINE c == CheckOf[q]
    <2>1. /\ q \in Request /\ c \in CheckId /\ UNCHANGED chain
          /\ \A r \in Record : r # q
      BY <1>2, RuntimeAssumption DEF CreateCheck
    <2>2. /\ idem' = [idem EXCEPT ![q] = 1] /\ DOMAIN idem = Request
      BY <1>2, <2>1, ExecuteStores DEF CreateCheck
    <2>3. /\ checks'[c].state # "ABSENT"
          /\ \A d \in CheckId \ {c} : checks'[d] = checks[d]
      BY <1>2, <2>1 DEF CreateCheck, TypeOK, Check
    <2> HIDE DEF c
    <2>4. \A r \in Request : idem'[r] # 0 <=> r = q \/ idem[r] # 0
      BY <2>1, <2>2
    <2>5. \A r \in Create : idem'[r] # 0 => checks'[CheckOf[r]].state # "ABSENT"
      BY <2>3, <2>4, RuntimeAssumption DEF RepliesMatchStore, c
    <2>6. ASSUME NEW d \in CheckId, checks'[d].state # "ABSENT"
          PROVE  \E r \in Create : idem'[r] # 0 /\ CheckOf[r] = d
      <3>1. CASE d = c
        BY <3>1, <2>1, <2>4 DEF c
      <3>2. CASE d # c
        <4>1. PICK r \in Create : idem[r] # 0 /\ CheckOf[r] = d
          BY <3>2, <2>3, <2>6 DEF RepliesMatchStore
        <4>. QED  BY <4>1, <2>4, RuntimeAssumption
      <3>. QED  BY <3>1, <3>2
    <2>7. \A r \in Record : idem'[r] # 0 <=> idem[r] # 0
      BY <2>1, <2>4, RuntimeAssumption
    <2>. QED  BY <2>1, <2>5, <2>6, <2>7 DEF RepliesMatchStore, Stored
  <1>3. ASSUME NEW q \in Record, RecordEffect(q)
        PROVE  RepliesMatchStore'
    <2> DEFINE f == EffectOf[q]
               b == ActionOf[f.check]
               e == [check |-> f.check, state |-> f.state]
               t == chain[b]
               u == Append(t, e)
    <2>1. /\ q \in Request /\ f.check \in CheckId /\ b \in Action
          /\ f = [check |-> f.check, state |-> f.state, prior |-> f.prior]
          /\ e \in Effect /\ \A r \in Create : r # q
      BY RuntimeAssumption DEF Effect
    <2>2. /\ f.prior = Len(t) /\ chain' = [chain EXCEPT ![b] = u]
          /\ UNCHANGED checks
      BY <1>3 DEF RecordEffect, Extends
    <2>3. idem' = [idem EXCEPT ![q] = 1] /\ DOMAIN idem = Request
      BY <1>3, <2>1, ExecuteStores DEF RecordEffect
    <2>4. \A r \in Request : idem'[r] # 0 <=> r = q \/ idem[r] # 0
      BY <2>1, <2>3
    <2>5. /\ t \in Seq(Effect) /\ Len(t) \in Nat
          /\ u \in Seq(Effect) /\ Len(u) = Len(t) + 1
          /\ \A i \in 1 .. Len(t) : u[i] = t[i]
          /\ u[Len(t) + 1] = e
      <3>1. t \in Seq(Effect)
        BY <2>1 DEF TypeOK
      <3>. QED  BY <3>1, <2>1, LenProperties, AppendProperties
    <2>6. /\ chain'[b] = u
          /\ \A a \in Action \ {b} : chain'[a] = chain[a]
      BY <2>1, <2>2 DEF TypeOK
    <2> HIDE DEF u, e, b, f
    <2>7. \A r \in Create : idem'[r] # 0 <=> idem[r] # 0
      BY <2>1, <2>4, RuntimeAssumption
    <2>8. ASSUME NEW r \in Record, idem'[r] # 0
          PROVE  LET g == EffectOf[r]
                     v == chain'[ActionOf[g.check]]
                 IN  /\ g.prior < Len(v)
                     /\ v[g.prior + 1] = [check |-> g.check, state |-> g.state]
      <3>1. CASE r = q
        BY <3>1, <2>2, <2>5, <2>6 DEF f, b, e
      <3>2. CASE r # q
        <4> DEFINE g == EffectOf[r]
                   a == ActionOf[g.check]
                   w == chain[a]
        <4>1. /\ g.prior < Len(w) /\ g.prior \in Nat /\ a \in Action
              /\ w[g.prior + 1] = [check |-> g.check, state |-> g.state]
          BY <3>2, <2>4, <2>8, RuntimeAssumption DEF RepliesMatchStore
        <4>2. CASE a # b
          BY <4>1, <4>2, <2>6
        <4>3. CASE a = b
          <5>1. g.prior + 1 \in 1 .. Len(t) /\ g.prior < Len(u) /\ w = t
            BY <4>1, <4>3, <2>5
          <5>2. u[g.prior + 1] = w[g.prior + 1]
            BY <5>1, <2>5
          <5>. QED  BY <4>1, <4>3, <5>1, <5>2, <2>6
        <4>. QED  BY <4>2, <4>3
      <3>. QED  BY <3>1, <3>2
    <2>9. ASSUME NEW a \in Action, NEW i \in DOMAIN chain'[a]
          PROVE  \E r \in Record :
                    /\ idem'[r] # 0
                    /\ EffectOf[r] = [check |-> chain'[a][i].check,
                                     state |-> chain'[a][i].state, prior |-> i - 1]
      <3>1. ASSUME NEW c, NEW s, NEW n, Stored(c, s, n)
            PROVE  \E r \in Record :
                      /\ idem'[r] # 0
                      /\ EffectOf[r] = [check |-> c, state |-> s, prior |-> n]
        BY <3>1, <2>4, RuntimeAssumption DEF Stored
      <3>2. CASE a # b
        <4>1. chain'[a] = chain[a] /\ i \in DOMAIN chain[a]
          BY <3>2, <2>6, <2>9
        <4>2. Stored(chain[a][i].check, chain[a][i].state, i - 1)
          BY <4>1 DEF RepliesMatchStore
        <4>. QED  BY <4>1, <4>2, <3>1
      <3>3. CASE a = b
        <4>1. i \in 1 .. Len(t) + 1 /\ DOMAIN t = 1 .. Len(t)
          BY <3>3, <2>5, <2>6, LenProperties
        <4>2. CASE i \in 1 .. Len(t)
          <5>1. chain'[a][i] = t[i] /\ t = chain[a]
            BY <3>3, <4>2, <2>5, <2>6
          <5>2. Stored(t[i].check, t[i].state, i - 1)
            BY <4>1, <4>2, <5>1 DEF RepliesMatchStore
          <5>. QED  BY <5>1, <5>2, <3>1
        <4>3. CASE i = Len(t) + 1
          <5>1. chain'[a][i] = e /\ i - 1 = f.prior
            BY <3>3, <4>3, <2>2, <2>5, <2>6
          <5>2. e.check = f.check /\ e.state = f.state
            BY DEF e
          <5>3. idem'[q] # 0
            BY <2>1, <2>4
          <5>4. EffectOf[q] = [check |-> f.check, state |-> f.state, prior |-> f.prior]
            BY <2>1 DEF f
          <5>. QED  BY <5>1, <5>2, <5>3, <5>4
        <4>. QED  BY <4>1, <4>2, <4>3
      <3>. QED  BY <3>2, <3>3
    <2>. QED  BY <2>2, <2>7, <2>8, <2>9 DEF RepliesMatchStore, Stored
  <1>. QED  BY <1>1, <1>2, <1>3, WritingSteps DEF TypeOK, CheckTypeOK

-----------------------------------------------------------------------------
(* The minimum head. *)

LEMMA HeadSteps ==
    ASSUME [Next]_vars, Jobs
    PROVE  \/ UNCHANGED <<host, epoch, head>>
           \/ Start \/ RefuseToStart \/ HostReady \/ Dies
           \/ \E n \in Nat : Recovered(n)
           \/ Listening /\ epoch' = epoch
  <1>1. CASE UNCHANGED vars \/ Reply
    BY <1>1 DEF vars, Reply, Deliver, LoseReply, service
  <1>2. CASE StartWatch \/ FailStart \/ StartDone \/ Die
    BY <1>2 DEF StartWatch, FailStart, StartDone, Die
  <1>3. CASE Recover
    <2>1. Cardinality(Evaluating) \in Nat
      BY CountIsNat DEF Evaluating
    <2>. QED  BY <1>3, <2>1 DEF Recover
  <1>4. CASE SignalDrain \/ Take
    BY <1>4 DEF SignalDrain, Take, Listening, service
  <1>5. CASE Tick
    <2>1. phase # "idle"
      BY <1>5, TickIsBusy
    <2>2. epoch' = epoch
      BY <1>5 DEF Tick, BeginTick, EnterTick, RepliesDone, TickChecks, TickOutbox,
         TickOutboxFails, SendJobs, ReplyIgnored, ReplyClears, ReplyEnds,
         ReplyFaults, Commits, CommitFails, HostTo, service
    <2>. QED  BY <2>1, <2>2 DEF Jobs
  <1>6. CASE Handle
    <2>1. phase = "handle"
      BY <1>6 DEF Handle, Refuse, Drain, Repeat, RequestFails, RecordEffect,
         CreateCheck, HandlerDone
    <2>2. epoch' = epoch
      BY <1>6 DEF Handle, Refuse, Drain, Repeat, RequestFails, RecordEffect,
         CreateCheck, Replay, Breaks, CommitFails, HostTo, Execute, service
    <2>. QED  BY <2>1, <2>2 DEF Jobs
  <1>7. ASSUME NEW c \in CheckId,
               \/ \E t \in 1 .. MaxNow : Dispatch(c, t)
               \/ \E to \in {"done", "failed"} : Settle(c, "declared", to)
               \/ GiveUp(c)
        PROVE  UNCHANGED <<host, epoch, head>>
    BY <1>7 DEF Dispatch, Settle, GiveUp, service
  <1>. QED  BY <1>1, <1>2, <1>3, <1>4, <1>5, <1>6, <1>7 DEF Next

LEMMA BehindInv ==
    ASSUME ServiceTypeOK, Jobs, Behind, [Next]_vars
    PROVE  Behind'
  <1> USE ServiceAssumption DEF Behind
  <1>1. /\ head \in Nat /\ epoch \in Nat /\ Restored \in Nat /\ MinHead \in Nat
        /\ Grown(1) <= head + 1
    BY DEF ServiceTypeOK, Grown
  <1>2. CASE UNCHANGED <<host, epoch, head>>
    BY <1>2
  <1>3. CASE Start
    <2>1. /\ host = "DOWN" /\ host' = "STARTING" /\ epoch' = epoch + 1
          /\ head' <= head + 1 /\ head' \in Nat
      BY <1>1, <1>3, GrownType DEF Start
    <2>2. 2 * epoch' = 2 * epoch + 2
      BY <1>1, <2>1
    <2>. QED  BY <1>1, <2>1, <2>2
  <1>4. CASE RefuseToStart
    <2>1. /\ host = "STARTING" /\ host' = "DOWN" /\ epoch' = epoch
          /\ head' <= head + 1 /\ head' \in Nat
      BY <1>1, <1>4, GrownType DEF RefuseToStart, HostTo
    <2>. QED  BY <1>1, <2>1
  <1>5. ASSUME NEW n \in Nat, Recovered(n) PROVE Behind'
    BY <1>1, <1>5 DEF Recovered, HostTo
  <1>6. CASE HostReady
    BY <1>1, <1>6 DEF HostReady, HostTo
  <1>7. CASE Dies
    BY <1>1, <1>7 DEF Dies
  <1>8. CASE Listening /\ epoch' = epoch
    BY <1>1, <1>8 DEF Listening
  <1>. QED  BY <1>2, <1>3, <1>4, <1>5, <1>6, <1>7, <1>8, HeadSteps

-----------------------------------------------------------------------------
(* The invariant. *)

LEMMA InitIsInv == Init => IInv
  <1> SUFFICES ASSUME Init PROVE IInv
    OBVIOUS
  <1>1. CycleTypeOK(Steps)
    BY ClockAssumption DEF Init, CycleInit, CycleTypeOK, Steps
  <1>2. ServiceTypeOK
    BY ServiceAssumption DEF Init, ServiceInit, ServiceTypeOK, HostStates
  <1>3. /\ checks \in [CheckId -> Check] /\ outbox = {} /\ sent = {}
        /\ working \in [CheckId -> Nat] /\ chain \in [Action -> Seq(Effect)]
        /\ fate \in [CheckId -> Fates] /\ fate = [c \in CheckId |-> "held"]
    BY DEF Init, NoCheck, Check, CheckStates, Fates
  <1>4. TypeOK
    BY <1>1, <1>2, <1>3 DEF Init, TypeOK, Steps
  <1>5. Books
    BY DEF Init, ServiceInit, Books
  <1>6. Guarded
    <2>1. Cardinality(consumed) = 0
      BY FS_EmptySet DEF Init
    <2>2. Cost * 0 = 0 /\ 0 <= Cap
      BY RuntimeAssumption
    <2>. QED  BY <2>1, <2>2, <1>3 DEF Init, Guarded, OneEffect
  <1>7. EffectsAreCleared /\ EvidenceIsTrue
    BY DEF Init, EffectsAreCleared, EvidenceIsTrue
  <1>8. Jobs
    BY DEF Init, CycleInit, ServiceInit, Jobs, Listening
  <1>9. RepliesMatchStore
    BY RuntimeAssumption DEF Init, ServiceInit, NoCheck, RepliesMatchStore
  <1>10. Behind
    BY ServiceAssumption DEF Init, ServiceInit, Behind
  <1>. QED  BY <1>4, <1>5, <1>6, <1>7, <1>8, <1>9, <1>10 DEF IInv

LEMMA NextInv == ASSUME IInv, [Next]_vars PROVE IInv'
  <1>1. CycleTypeOK(Steps) /\ CheckTypeOK /\ ServiceTypeOK
    BY DEF IInv, TypeOK, CheckTypeOK, Steps
  <1>2. CycleTypeOK(Steps)' /\ ServiceTypeOK'
    BY <1>1, CycleInv, ServiceInv
  <1>3. Steady /\ Jobs'
    BY <1>1, JobsInv DEF IInv
  <1>4. Guarded' /\ Books'
    BY GuardedInv, BooksInv DEF IInv
  <1>5. chain' \in [Action -> Seq(Effect)] /\ EvidenceIsTrue'
    BY <1>4, ChainInv DEF IInv
  <1>6. EffectsAreCleared'
    BY <1>3, ClearedInv DEF IInv
  <1>7. TypeOK'
    <2>1. CheckTypeOK'
      BY <1>3 DEF Steady
    <2>2. /\ read' \in Nat /\ reserved' \in Nat
          /\ consumed' \subseteq CheckId /\ dispatched' \subseteq Action
          /\ fate' \in [CheckId -> Fates]
      BY GuardTypes DEF IInv
    <2>. QED  BY <1>2, <1>5, <2>1, <2>2 DEF TypeOK, CheckTypeOK, Steps
  <1>8. RepliesMatchStore'
    BY RepliesInv DEF IInv
  <1>9. Behind'
    BY <1>1, BehindInv DEF IInv
  <1>. QED  BY <1>3, <1>4, <1>5, <1>6, <1>7, <1>8, <1>9 DEF IInv

(* The invariant at the top holds in every reachable state. *)
THEOREM Invariance == Spec => []IInv
  <1>1. Init => IInv
    BY InitIsInv
  <1>2. IInv /\ [Next]_vars => IInv'
    BY NextInv
  <1>. QED  BY <1>1, <1>2, PTL DEF Spec

(***************************************************************************)
(* Host state, audit head, checks, jobs, guard tables and effect chains    *)
(* are well formed through every start, fault, drain and crash.            *)
(***************************************************************************)
THEOREM RuntimeTypeCorrect == Spec => []TypeOK
  <1>1. IInv => TypeOK
    BY DEF IInv
  <1>. QED  BY <1>1, Invariance, PTL

(***************************************************************************)
(* The idempotency table: the stored reply of a request is that of the one *)
(* transaction that carried it out, for any number of processes.           *)
(***************************************************************************)
THEOREM RepliesAreKept == Spec => []RepliesKept
  <1>1. IInv => RepliesKept
    BY DEF IInv, Books, RepliesKept
  <1>. QED  BY <1>1, Invariance, PTL

(***************************************************************************)
(* transaction() and write_idem: for any number of requests, checks and    *)
(* chains of any length, a check or an effect is in the store just when    *)
(* the reply to the request that made it is.                               *)
(***************************************************************************)
THEOREM RepliesMatchTheStore == Spec => []RepliesMatchStore
  <1>1. IInv => RepliesMatchStore
    BY DEF IInv
  <1>. QED  BY <1>1, Invariance, PTL

(***************************************************************************)
(* Guard::dispatch: one dispatch of an action and reservations within the  *)
(* quota, under any number of checks, for any cost and cap.                *)
(***************************************************************************)
THEOREM OneEffectAlways == Spec => []OneEffect
  <1>1. IInv => OneEffect
    BY DEF IInv, Guarded
  <1>. QED  BY <1>1, Invariance, PTL

(***************************************************************************)
(* recover_entities and drain leave CLEAR checks alone, so what the guard  *)
(* used is still cleared in the store.                                     *)
(***************************************************************************)
THEOREM EffectsStayCleared == Spec => []EffectsAreCleared
  <1>1. IInv => EffectsAreCleared
    BY DEF IInv
  <1>. QED  BY <1>1, Invariance, PTL

(***************************************************************************)
(* effects.record: of any length a chain tells the truth of its action.    *)
(***************************************************************************)
THEOREM EvidenceStaysTrue == Spec => []EvidenceIsTrue
  <1>1. IInv => EvidenceIsTrue
    BY DEF IInv
  <1>. QED  BY <1>1, Invariance, PTL

(***************************************************************************)
(* drain_outbox: rows and workers together always hold the jobs of what is *)
(* under evaluation, whichever transaction was rolled back.                *)
(***************************************************************************)
THEOREM NoJobIsLost == Spec => []NoJobLost
  <1>1. IInv => NoJobLost
    BY DEF IInv, Jobs, NoJobLost
  <1>. QED  BY <1>1, Invariance, PTL

(***************************************************************************)
(* Daemon::start: for any pin and any restored head, as many starts are    *)
(* refused as it takes for their own events to reach the pin.              *)
(***************************************************************************)
THEOREM ThePinHoldsBack == Spec => []PinHoldsBack
  <1>1. IInv => PinHoldsBack
    BY ServiceAssumption
       DEF IInv, TypeOK, ServiceTypeOK, Behind, PinHoldsBack, Listening
  <1>. QED  BY <1>1, Invariance, PTL

(***************************************************************************)
(* watchd implements Requests: what clients are told, and how often their  *)
(* mutations were carried out, is a behaviour of the abstract service.     *)
(***************************************************************************)
THEOREM RequestsAreKept == Spec => KeepsRequests
  <1>1. Init => R!Init
    BY DEF Init, ServiceInit, R!Init
  <1>2. IInv /\ [Next]_vars => [R!Next]_<<executed, told>>
    BY BooksSteps DEF IInv
  <1>. QED  BY <1>1, <1>2, Invariance, PTL DEF Spec, KeepsRequests, R!Spec

=============================================================================
