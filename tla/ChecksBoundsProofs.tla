------------------------- MODULE ChecksBoundsProofs --------------------------
(***************************************************************************)
(* Bounds and freshness of the blocking path, proved over the invariants   *)
(* of ChecksProofs and ChecksEvidenceProofs: the queue stays within its    *)
(* capacities, a check clears on the latest picture of its run, and in     *)
(* watchd's cycle a request leaves nothing behind that was decidable.      *)
(***************************************************************************)
EXTENDS ChecksEvidenceProofs, FiniteSetTheorems, SequenceTheorems

-----------------------------------------------------------------------------
(* The capacity of the queue. *)

LEMMA Fewer ==
    ASSUME NEW S, IsFiniteSet(S), NEW T, T \subseteq S
    PROVE  /\ IsFiniteSet(T) /\ Cardinality(T) <= Cardinality(S)
           /\ Cardinality(T) \in Nat /\ Cardinality(S) \in Nat
  BY FS_Subset, FS_CardinalityType

LEMMA OneMore ==
    ASSUME NEW S, IsFiniteSet(S), NEW x, NEW T, T \subseteq S \cup {x},
           NEW k \in Nat, ~(Cardinality(S) >= k)
    PROVE  IsFiniteSet(T) /\ Cardinality(T) <= k
  <1>1. IsFiniteSet(S \cup {x}) /\ Cardinality(S) \in Nat
        /\ Cardinality(S \cup {x}) \in {Cardinality(S), Cardinality(S) + 1}
    BY FS_AddElement, FS_CardinalityType
  <1>2. /\ IsFiniteSet(T) /\ Cardinality(T) <= Cardinality(S \cup {x})
        /\ Cardinality(T) \in Nat
    BY <1>1, Fewer
  <1>. QED  BY <1>1, <1>2

(* A run has one policy from its opening on. *)
LEMMA PolicyStays ==
    ASSUME IInv, [Next]_vars, NEW q \in Run, runs[q].state # "ABSENT"
    PROVE  runs'[q].policy = runs[q].policy
  <1>1. CASE UNCHANGED runs
    BY <1>1
  <1>2. CASE TickTimers \/ ActivatePolicy \/ Restart
    BY <1>2, SetRunsKept DEF TickTimers, Silent, ActivatePolicy, Restart, RunStates
  <1>3. ASSUME NEW r \in Run,
               SourceGap(r) \/ Quarantine(r) \/ Pause(r) \/ Resume(r) \/ Close(r)
        PROVE  runs'[q].policy = runs[q].policy
    BY <1>3, SetRunsKept
       DEF SourceGap, Quarantine, Pause, Resume, Close, RunStates
  <1>4. ASSUME NEW r \in Run, OpenRun(r)
        PROVE  runs'[q].policy = runs[q].policy
    BY <1>4 DEF OpenRun, IInv, TypeOK
  <1>5. ASSUME NEW r \in Run, NEW cut, NEW s, Observe(r, cut, s)
        PROVE  runs'[q].policy = runs[q].policy
    <2>1. runs \in [Run -> RunRecord] /\ now \in Nat
      BY ClockAssumption DEF IInv, TypeOK, RunRecord, CycleTypeOK
    <2>2. runs' = [runs EXCEPT ![r] = [runs[r] EXCEPT !.received = now]]
          /\ runs[r].state # "ABSENT"
      BY <1>5 DEF Observe
    <2>3. [runs[r] EXCEPT !.received = now].policy = runs[r].policy
      BY <2>1, <2>2, RunChanges, "OPEN" \in RunStates \ {"ABSENT"} DEF RunStates
    <2>. QED  BY <2>1, <2>2, <2>3
  <1>6. CASE UNCHANGED vars \/ Take \/ Rejection \/ Drain \/ SignalDrain
    BY <1>1, <1>6 DEF vars, store, Take, Rejection, Drain, SignalDrain
  <1>7. CASE Tick
    BY <1>1, <1>2, <1>7 DEF Tick, TickReturns, Finalize, store
  <1>8. CASE \E r \in Run, c \in CheckId, i \in Intent, v \in CheckId \cup {None} :
                \E n \in 1 .. Len(chain[r]) : CreateCheck(c, r, i, n, v)
    BY <1>1, <1>8 DEF CreateCheck
  <1>9. CASE \E c \in CheckId :
                \/ Cancel(c)
                \/ \E m \in Monitor : Reply(c, m) \/ Mismatch(c, m)
                \/ \E p \in Principal : Claim(p, c) \/ Resolve(p, c)
    BY <1>1, <1>9 DEF Cancel, Reply, Mismatch, Claim, Resolve, store
  <1>. QED  BY <1>2, <1>3, <1>4, <1>5, <1>6, <1>7, <1>8, <1>9 DEF Next

BInv == IsFiniteSet(ActiveReviews) /\ QueueBounded

LEMMA ActiveOfIsFinite ==
    ASSUME BInv, NEW q
    PROVE  IsFiniteSet(ActiveOf(q)) /\ Cardinality(ActiveOf(q)) \in Nat
  BY Fewer DEF ActiveOf, BInv

(* A run that is opened in this step has no cards. *)
LEMMA NewRunsAreEmpty ==
    ASSUME IInv, NEW q \in Run, runs[q].policy = 0
    PROVE  ActiveOf(q) = {}
  <1>1. runs[q].state = "ABSENT"
    BY BoundsAssumption DEF IInv, TypeOK, Generation
  <1>. QED  BY <1>1, CardHolds DEF ActiveOf, ActiveReviews, IsActive, ActiveStates

LEMMA PolicyBounds ==
    ASSUME NEW g \in Generation
    PROVE  Policies[g].queueCapacity \in Nat /\ Policies[g].perRunOpen \in Nat
  BY PoliciesAssumption

(* No card becomes active: the queue and each part of it only shrinks. *)
LEMMA QueueShrinks ==
    ASSUME IInv, Kept, BInv, [Next]_vars, \A v \in CheckId : ~Opens(v)
    PROVE  BInv'
  <1>1. \A v \in CheckId : IsActive(reviews'[v]) =>
            IsActive(reviews[v]) /\ reviews'[v].run = reviews[v].run
    BY CardGoesOn
  <1>2. ActiveReviews' \subseteq ActiveReviews
    BY <1>1 DEF ActiveReviews, IsActive
  <1>3. \A q \in Run : ActiveOf(q)' \subseteq ActiveOf(q)
    BY <1>1 DEF ActiveOf, ActiveReviews, IsActive
  <1>4. /\ IsFiniteSet(ActiveReviews')
        /\ Cardinality(ActiveReviews') <= Cardinality(ActiveReviews)
        /\ Cardinality(ActiveReviews') \in Nat /\ Cardinality(ActiveReviews) \in Nat
    BY <1>2, Fewer DEF BInv
  <1>5. ASSUME NEW q \in Run, runs'[q].policy # 0
        PROVE  Cardinality(ActiveOf(q)') <= Policies[runs'[q].policy].perRunOpen
    <2>1. /\ Cardinality(ActiveOf(q)') <= Cardinality(ActiveOf(q))
          /\ Cardinality(ActiveOf(q)') \in Nat /\ Cardinality(ActiveOf(q)) \in Nat
      BY <1>3, ActiveOfIsFinite, Fewer
    <2>2. Policies[runs'[q].policy].perRunOpen \in Nat
      <3>1. runs'[q].policy \in Generation
        BY <1>5 DEF Kept, RunsKept, RunRecord
      <3>. QED  BY <3>1, PolicyBounds
    <2>3. CASE runs[q].policy = 0
      <3>1. Cardinality(ActiveOf(q)) = 0
        BY <2>3, NewRunsAreEmpty, FS_EmptySet
      <3>. QED  BY <2>1, <2>2, <3>1
    <2>4. CASE runs[q].policy # 0
      <3>1. runs[q].state # "ABSENT"
        BY <2>4 DEF IInv, TypeOK
      <3>2. runs'[q].policy = runs[q].policy
        BY <3>1, PolicyStays
      <3>3. Cardinality(ActiveOf(q)) <= Policies[runs[q].policy].perRunOpen
        BY <2>4 DEF BInv, QueueBounded
      <3>. QED  BY <2>1, <2>2, <3>2, <3>3
    <2>. QED  BY <2>3, <2>4
  <1>6. ASSUME ActiveReviews' # {}
        PROVE  \E g \in Generation :
                  Cardinality(ActiveReviews') <= Policies[g].queueCapacity
    <2>1. PICK g \in Generation :
             Cardinality(ActiveReviews) <= Policies[g].queueCapacity
      BY <1>2, <1>6 DEF BInv, QueueBounded
    <2>. QED  BY <2>1, <1>4, PolicyBounds
  <1>. QED  BY <1>4, <1>5, <1>6 DEF BInv, QueueBounded

(* A card is opened: QueueFull, in the same transaction, found room. *)
LEMMA CardHasRoom ==
    ASSUME IInv, Kept, BInv, NEW c \in CheckId, Opens(c),
           NEW run \in Run, NEW g \in Generation,
           checks[c].run = run, checks[c].policy = g
    PROVE  BInv'
  <1>1. /\ runs' = runs
        /\ runs[run].policy = g
        /\ reviews'[c].run = run
        /\ \A v \in CheckId \ {c} : reviews'[v] = reviews[v]
    <2>1. /\ runs' = runs /\ \A v \in CheckId \ {c} : reviews'[v] = reviews[v]
      BY DEF Opens, Finalize, IInv, TypeOK
    <2>. QED  BY <2>1 DEF Opens, IInv, EvaluatingIsLive, Evaluating, CheckFits
  <1>2. ~QueueFull(c)
    BY DEF Opens, Outcome
  <1>3. /\ ~(Cardinality(ActiveReviews) >= Policies[g].queueCapacity)
        /\ ~(Cardinality(ActiveOf(run)) >= Policies[g].perRunOpen)
    BY <1>2 DEF QueueFull, PolicyOf
  <1>4. /\ ActiveReviews' \subseteq ActiveReviews \cup {c}
        /\ ActiveOf(run)' \subseteq ActiveOf(run) \cup {c}
        /\ \A q \in Run : q # run => ActiveOf(q)' \subseteq ActiveOf(q)
    <2>1. ActiveReviews' \subseteq ActiveReviews \cup {c}
      BY <1>1 DEF ActiveReviews, IsActive
    <2>2. ASSUME NEW q \in Run
          PROVE  ActiveOf(q)' \subseteq ActiveOf(q) \cup {c}
      BY <1>1, <2>1 DEF ActiveReviews, ActiveOf, IsActive
    <2>3. ASSUME NEW q \in Run, q # run
          PROVE  c \notin ActiveOf(q)'
      BY <1>1, <2>3 DEF ActiveOf
    <2>. QED  BY <1>1, <2>1, <2>2, <2>3
  <1>5. /\ IsFiniteSet(ActiveReviews')
        /\ Cardinality(ActiveReviews') <= Policies[g].queueCapacity
    BY <1>1, <1>3, <1>4, OneMore, PolicyBounds DEF BInv
  <1>6. Cardinality(ActiveOf(run)') <= Policies[g].perRunOpen
    BY <1>1, <1>3, <1>4, OneMore, PolicyBounds, ActiveOfIsFinite
  <1>7. ASSUME NEW q \in Run, q # run, runs[q].policy # 0
        PROVE  Cardinality(ActiveOf(q)') <= Policies[runs[q].policy].perRunOpen
    <2>1. /\ Cardinality(ActiveOf(q)') <= Cardinality(ActiveOf(q))
          /\ Cardinality(ActiveOf(q)') \in Nat /\ Cardinality(ActiveOf(q)) \in Nat
      BY <1>4, <1>7, ActiveOfIsFinite, Fewer
    <2>2. runs[q].policy \in Generation
      BY <1>7 DEF IInv, TypeOK
    <2>3. Cardinality(ActiveOf(q)) <= Policies[runs[q].policy].perRunOpen
      BY <1>7 DEF BInv, QueueBounded
    <2>. QED  BY <2>1, <2>2, <2>3, PolicyBounds
  <1>8. \A q \in Run : runs'[q].policy # 0 =>
            Cardinality(ActiveOf(q)') <= Policies[runs'[q].policy].perRunOpen
    <2> SUFFICES ASSUME NEW q \in Run, runs[q].policy # 0
                 PROVE  Cardinality(ActiveOf(q)') <= Policies[runs[q].policy].perRunOpen
      BY <1>1
    <2>1. CASE q = run
      BY <2>1, <1>1, <1>6
    <2>2. CASE q # run
      BY <2>2, <1>7
    <2>. QED  BY <2>1, <2>2
  <1>. QED  BY <1>1, <1>5, <1>8 DEF BInv, QueueBounded

LEMMA QueueGrows ==
    ASSUME IInv, Kept, BInv, NEW c \in CheckId, Opens(c)
    PROVE  BInv'
  <1>1. checks[c].run \in Run /\ checks[c].policy \in Generation
    BY DEF Opens, IInv, EvaluatingIsLive, Evaluating, CheckFits
  <1>2. PICK run \in Run, g \in Generation :
           checks[c].run = run /\ checks[c].policy = g
    BY <1>1
  <1>. QED  BY <1>2, CardHasRoom

LEMMA InitIsEmpty == Init => BInv
  <1> SUFFICES ASSUME Init PROVE BInv
    OBVIOUS
  <1>1. ActiveReviews = {}
    BY DEF Init, NoReview, ActiveReviews, IsActive, ActiveStates
  <1>. QED  BY <1>1, FS_EmptySet DEF Init, BInv, QueueBounded

(***************************************************************************)
(* finalize_check: the queue never exceeds a capacity some policy grants,  *)
(* nor a run its own cap, under any sequence of policies.                  *)
(***************************************************************************)
THEOREM QueueStaysBounded == Spec => []QueueBounded
  <1>1. Init => BInv
    BY InitIsEmpty
  <1>2. IInv /\ BInv /\ [Next]_vars => BInv'
    BY NextKeeps, QueueShrinks, QueueGrows
  <1>3. BInv => QueueBounded
    BY DEF BInv
  <1>. QED  BY <1>1, <1>2, <1>3, Invariance, PTL DEF Spec

-----------------------------------------------------------------------------
(* The latest picture. *)

LEMMA SameFactsSameVerdict ==
    ASSUME NEW s, NEW t, SameFacts(s, t), NEW c, NEW m \in Monitor
    PROVE  VerdictOn(s, c, m) = VerdictOn(t, c, m)
  BY DEF SameFacts, VerdictOn, Monitor

LEMMA FinalizedExpires ==
    ASSUME IInv, NEW c \in CheckId, Finalize(c), Outcome(c) = "CLEAR"
    PROVE  checks'[c].expires = Least(now + PolicyOf(c).clearance,
                                      ObservationOf(c).cut + PolicyOf(c).freshness)
  <1> DEFINE e == Least(now + PolicyOf(c).clearance,
                        ObservationOf(c).cut + PolicyOf(c).freshness)
             k == checks[c]
  <1>1. k \in Check /\ checks'[c] = [k EXCEPT !.state = "CLEAR", !.expires = e]
    BY DEF Finalize, Finalized, IInv, TypeOK
  <1> HIDE DEF e, k
  <1>2. Decides(k, checks'[c], "CLEAR", k.review, e)
    BY <1>1, ClearedDecides
  <1>. QED  BY <1>2 DEF Decides, e

LEMMA ClearsFresh ==
    ASSUME IInv, NEW c \in CheckId, Finalize(c), Outcome(c) = "CLEAR",
           PolicyOf(c).clearance > 0
    PROVE  LET latest == chain[checks[c].run][Len(chain[checks[c].run])] IN
           /\ now < checks'[c].expires
           /\ checks'[c].expires <= ObservationOf(c).cut + PolicyOf(c).freshness
           /\ \A m \in Monitor : VerdictOn(latest.snapshot, c, m) = Verdict(c, m)
  <1> DEFINE run == checks[c].run
             n == Len(chain[run])
             o == checks[c].observation
  <1>1. /\ run \in Run /\ checks[c].policy \in Generation /\ o \in 1 .. n
        /\ chain[run] \in Seq(Observation)
    BY DEF Finalize, Due, IInv, TypeOK, CheckFits, Observation
  <1>2. n \in Nat /\ ObservationOf(c) \in Observation
    BY <1>1, LenProperties, ElementOfSeq DEF ObservationOf
  <1>3. /\ Fresh(ObservationOf(c).cut, checks[c].policy) /\ ~Overtaken(c)
    BY DEF Outcome, StaleNow
  <1>4. /\ now < checks'[c].expires
        /\ checks'[c].expires <= ObservationOf(c).cut + PolicyOf(c).freshness
    <2>1. /\ now \in Nat /\ ObservationOf(c).cut \in Nat
          /\ PolicyOf(c).clearance \in Nat /\ PolicyOf(c).freshness \in Nat
      BY <1>1, <1>2, ClockAssumption, PolicyTimes
         DEF PolicyOf, Observation, IInv, TypeOK, CycleTypeOK
    <2>2. now < ObservationOf(c).cut + PolicyOf(c).freshness
      BY <1>3 DEF Fresh, PolicyOf
    <2>. QED  BY <2>1, <2>2, FinalizedExpires DEF Least
  <1>5. SameFacts(chain[run][n].snapshot, FactsOf(c))
    <2>1. CASE n > o
      BY <1>3, <2>1 DEF Overtaken
    <2>2. CASE ~(n > o)
      <3>1. n = o
        BY <1>1, <1>2, <2>2
      <3>. QED  BY <3>1 DEF FactsOf, ObservationOf, SameFacts
    <2>. QED  BY <2>1, <2>2
  <1>6. \A m \in Monitor : VerdictOn(chain[run][n].snapshot, c, m) = Verdict(c, m)
    BY <1>5, SameFactsSameVerdict DEF Verdict
  <1>. QED  BY <1>4, <1>6

(***************************************************************************)
(* The rechecks of finalize_check: whatever arrived since the check was    *)
(* asked for, its monitors say the same of it in the transaction that      *)
(* clears it, and the clearance is still to run.  A policy may grant       *)
(* clearances of no time (policy_constraints); those expire as they are    *)
(* granted, and the theorem leaves them out.                               *)
(***************************************************************************)
THEOREM ClearsOnLatest ==
    ASSUME \A g \in Generation : Policies[g].clearance > 0
    PROVE  Spec => ClearOnLatest
  <1>1. IInv /\ [Next]_vars =>
          [\A c \in Evaluating : checks'[c].state = "CLEAR" =>
              LET run == checks[c].run
                  latest == chain[run][Len(chain[run])]
              IN  /\ now < checks'[c].expires
                  /\ checks'[c].expires <=
                        ObservationOf(c).cut + PolicyOf(c).freshness
                  /\ \A m \in Monitor :
                        VerdictOn(latest.snapshot, c, m) = Verdict(c, m)]_vars
    <2> SUFFICES ASSUME IInv, [Next]_vars, NEW c \in Evaluating,
                        checks'[c].state = "CLEAR"
                 PROVE  LET latest == chain[checks[c].run][Len(chain[checks[c].run])]
                        IN  /\ now < checks'[c].expires
                            /\ checks'[c].expires <=
                                  ObservationOf(c).cut + PolicyOf(c).freshness
                            /\ \A m \in Monitor :
                                  VerdictOn(latest.snapshot, c, m) = Verdict(c, m)
      OBVIOUS
    <2>1. c \in CheckId /\ checks[c].state = "EVALUATING" /\ Kept
      BY NextKeeps DEF Evaluating
    <2>2. Finalize(c)
      BY <2>1 DEF Kept, ChecksKept, CheckKept
    <2>3. Outcome(c) = "CLEAR"
      BY <2>1, <2>2, FinalizeDecides
    <2>4. PolicyOf(c).clearance > 0
      BY <2>1 DEF PolicyOf, IInv, CheckFits
    <2>. QED  BY <2>1, <2>2, <2>3, <2>4, ClearsFresh
  <1>. QED  BY <1>1, Invariance, PTL DEF Spec, ClearOnLatest

-----------------------------------------------------------------------------
(* Nothing is left between requests. *)

(* Once the timers have run, no run is silent in the rest of this tick. *)
Settled ==
    /\ phase = "settle" => \A r \in Run : ~Silent(r)
    /\ NothingDueWhenIdle

LEMMA SettledInv ==
    ASSUME Served, IInv, Settled, [Next]_vars
    PROVE  Settled'
  <1>1. CASE UNCHANGED vars
    BY <1>1 DEF vars, store, Settled, NothingDueWhenIdle, NoneDue, Due, Silent,
       Fresh, Deadline, SlotDeadline, PolicyOf
  <1>2. CASE phase' = "timers"
    BY <1>2 DEF Settled, NothingDueWhenIdle
  <1>3. CASE TickTimers
    <2>1. phase' = "settle" /\ now' = now
      BY <1>3 DEF TickTimers, NextStep
    <2>2. \A r \in Run : ~Silent(r)'
      <3>1. \A r \in Run : runs'[r] = IF Silent(r)
                                      THEN [runs[r] EXCEPT !.state = "PAUSED"]
                                      ELSE runs[r]
        BY <1>3 DEF TickTimers, SetRuns
      <3>2. ASSUME NEW r \in Run, Silent(r) PROVE runs'[r].state = "PAUSED"
        <4> DEFINE changed == {q \in Run : Silent(q)}
        <4>1. /\ changed \in SUBSET Run /\ SetRuns(changed, "PAUSED")
              /\ \A q \in changed : runs[q].state # "ABSENT"
              /\ r \in changed
          BY <1>3, <3>2 DEF TickTimers, Silent
        <4> HIDE DEF changed
        <4>. QED  BY <4>1, SetRunsKept DEF RunStates
      <3>. QED  BY <3>1, <3>2, <2>1 DEF Silent, Fresh
    <2>. QED  BY <2>1, <2>2 DEF Settled, NothingDueWhenIdle
  <1>4. CASE TickReturns
    <2>1. /\ phase = "settle" /\ NoneDue
          /\ UNCHANGED <<now, host, checks, slots, runs>>
          /\ phase' \in {"idle", "handle"}
      BY <1>4 DEF TickReturns, store, IInv, TypeOK, CycleTypeOK
    <2>2. \A r \in Run : ~Silent(r)'
      BY <2>1 DEF Settled, Silent, Fresh
    <2>3. NoneDue'
      BY <2>1 DEF NoneDue, Due, Deadline, SlotDeadline, PolicyOf
    <2>. QED  BY <2>1, <2>2, <2>3 DEF Settled, NothingDueWhenIdle
  <1>5. CASE phase = "settle" /\ UNCHANGED <<now, phase, runs>>
    BY <1>5 DEF Settled, NothingDueWhenIdle, Silent, Fresh
  <1>6. CASE Restart
    <2>1. phase' = "idle"
      BY <1>6 DEF Restart
    <2>2. NoneDue'
      <3>1. \A c \in CheckId : checks'[c].state # "EVALUATING"
        <4>1. /\ Evaluating \in SUBSET Evaluating /\ UNCHANGED slots
              /\ EndChecks(Evaluating, "EXPIRED")
          BY <1>6 DEF Restart
        <4>2. ChainKept
          BY <1>6, ChainStays DEF Restart
        <4>3. \A c \in CheckId : /\ c \in Evaluating => checks'[c].state = "EXPIRED"
                                 /\ c \notin Evaluating => checks'[c] = checks[c]
          BY <4>1, <4>2, EndedChecksKept
        <4>. QED  BY <4>3 DEF Evaluating
      <3>. QED  BY <3>1 DEF NoneDue, Due
    <2>3. \A r \in Run : runs'[r].state # "OPEN"
      BY <1>6, SetRunsKept DEF Restart, RunStates
    <2>. QED  BY <2>1, <2>2, <2>3 DEF Settled, NothingDueWhenIdle, Silent
  <1>7. HandlerDone => phase' = "timers"
    BY CheckStepAssumption DEF HandlerDone
  <1>8. CASE Take \/ SignalDrain
    BY <1>2, <1>8, CheckStepAssumption DEF Take, Acquire, SignalDrain, Signalled
  <1>9. CASE Tick
    BY <1>3, <1>4, <1>5, <1>9 DEF Tick, Finalize
  <1>10. ASSUME NEW c \in CheckId, NEW m \in Monitor, Reply(c, m) \/ Mismatch(c, m)
         PROVE  Settled'
    BY <1>5, <1>10 DEF Reply, Mismatch, Awaited, store
  <1>11. CASE Rejection \/ ActivatePolicy \/ Drain
    BY <1>2, <1>7, <1>11
       DEF Rejection, ActivatePolicy, Drain, Admitted, AdmittedDraining
  <1>12. ASSUME NEW r \in Run,
                \/ OpenRun(r) \/ SourceGap(r) \/ Quarantine(r)
                \/ Pause(r) \/ Resume(r) \/ Close(r)
         PROVE  Settled'
    BY <1>2, <1>7, <1>12 DEF OpenRun, SourceGap, Quarantine, Pause, Resume, Close,
       Admitted, AdmittedDraining
  <1>13. ASSUME NEW r, NEW c, NEW i, NEW n, NEW v, NEW cut, NEW s,
                CreateCheck(c, r, i, n, v) \/ Observe(r, cut, s) \/ Cancel(c)
         PROVE  Settled'
    BY <1>2, <1>7, <1>13 DEF CreateCheck, Observe, Cancel, Admitted,
       AdmittedDraining
  <1>14. ASSUME NEW c, NEW p, Claim(p, c) \/ Resolve(p, c)
         PROVE  Settled'
    BY <1>2, <1>7, <1>14 DEF Claim, Resolve, Admitted, AdmittedDraining
  <1>. QED  BY <1>1, <1>6, <1>8, <1>9, <1>10, <1>11, <1>12, <1>13, <1>14 DEF Next

(***************************************************************************)
(* server.rs runs tick() again after each request: whenever the lock is    *)
(* free, nothing that this tick could decide is undecided.                 *)
(***************************************************************************)
THEOREM NothingStaysDue == ASSUME Served PROVE Spec => []NothingDueWhenIdle
  <1>1. Init => Settled
    BY DEF Init, CycleInit, NoCheck, Settled, NothingDueWhenIdle, NoneDue, Due,
       Silent
  <1>2. IInv /\ Settled /\ [Next]_vars => Settled'
    BY SettledInv
  <1>3. Settled => NothingDueWhenIdle
    BY DEF Settled
  <1>. QED  BY <1>1, <1>2, <1>3, Invariance, PTL DEF Spec

=============================================================================
