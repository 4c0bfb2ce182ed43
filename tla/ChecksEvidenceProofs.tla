------------------------ MODULE ChecksEvidenceProofs -------------------------
(***************************************************************************)
(* What decisions rest on, proved over the invariant of ChecksProofs: no   *)
(* check clears without its results and its review, no two cards stand for *)
(* one basis, and cards belong to runs that can go on.                     *)
(*                                                                         *)
(* The key is that evidence does not move: the chain only grows and a      *)
(* check keeps its request, so what its monitors say of it and the basis   *)
(* of its card are the same at every later step (EvidenceStays).           *)
(***************************************************************************)
EXTENDS ChecksProofs

(* ClearIsVouched and HeldHasCard, and that the cards they name were       *)
(* opened, so that their basis cannot change any more.                     *)
VouchedBy(r, c) ==
    /\ checks[c].review = r
    /\ reviews[r].state # "ABSENT" /\ ~IsActive(reviews[r])
    /\ Findings(r) = Findings(c)
    /\ Covers(r, checks[c].run, IntentOf(c), checks[c].policy, Total(c))

Vouched(c) ==
    checks[c].state = "CLEAR" =>
        /\ \A m \in Monitor : /\ slots[c][m] = "done"
                              /\ Verdict(c, m) \in {"CLEAR", "UNCERTAIN"}
        /\ Findings(c) # {} => \E r \in CheckId : VouchedBy(r, c)

CardFor(r, c) ==
    checks[c].review = r /\ reviews[r].state # "ABSENT" /\ Basis(r) = Basis(c)

Carded(c) == checks[c].state = "HELD" => \E r \in CheckId : CardFor(r, c)

CardGoing(v) ==
    IsActive(reviews[v]) => runs[reviews[v].run].state \in {"OPEN", "PAUSED"}

EInv ==
    /\ OneCardPerBasis
    /\ \A c \in CheckId : Vouched(c) /\ Carded(c) /\ CardGoing(c)

-----------------------------------------------------------------------------
LEMMA EvidenceStays ==
    ASSUME IInv, Kept, NEW c \in CheckId, checks[c].state # "ABSENT"
    PROVE  /\ Basis(c)' = Basis(c) /\ Total(c)' = Total(c)
           /\ IntentOf(c)' = IntentOf(c) /\ Findings(c)' = Findings(c)
           /\ checks'[c].run = checks[c].run /\ checks'[c].policy = checks[c].policy
           /\ \A m \in Monitor : Verdict(c, m)' = Verdict(c, m)
  <1>1. SameRequest(checks[c], checks'[c])
    BY DEF Kept, ChecksKept, CheckKept
  <1>2. ObservationOf(c)' = ObservationOf(c)
    <2>1. /\ checks[c].run \in Run
          /\ checks[c].observation \in 1 .. Len(chain[checks[c].run])
      BY DEF IInv, CheckFits
    <2> QED
      BY <1>1, <2>1 DEF Kept, ChainKept, ObservationOf, SameRequest
  <1>3. FactsOf(c)' = FactsOf(c) /\ IntentOf(c)' = IntentOf(c)
    BY <1>1, <1>2 DEF FactsOf, IntentOf, SameRequest
  <1>4. Total(c)' = Total(c)
    BY <1>3 DEF Total
  <1>5. PolicyOf(c)' = PolicyOf(c)
    BY <1>1 DEF PolicyOf, SameRequest
  <1>6. \A m \in Monitor : Verdict(c, m)' = Verdict(c, m)
    BY <1>3, <1>5 DEF Verdict, VerdictOn
  <1>7. Findings(c)' = Findings(c)
    BY <1>6 DEF Findings
  <1>8. Basis(c)' = Basis(c)
    BY <1>1, <1>3, <1>4, <1>7 DEF Basis, SameRequest
  <1> QED
    BY <1>1, <1>3, <1>4, <1>6, <1>7, <1>8 DEF SameRequest

LEMMA CardGoesOn ==
    ASSUME IInv, Kept, NEW v \in CheckId
    PROVE  /\ IsActive(reviews'[v]) => IsActive(reviews[v]) \/ Opens(v)
           /\ reviews[v].state # "ABSENT" =>
                 /\ reviews'[v].state # "ABSENT" /\ reviews'[v].run = reviews[v].run
                 /\ checks[v].state = "HELD" /\ ~Opens(v)
           /\ IsActive(reviews[v]) => reviews[v].state # "ABSENT"
           /\ IsActive(reviews'[v]) => reviews'[v].state # "ABSENT"
  BY CardHolds
  DEF Kept, CardsKept, CardKept, Opens, IsActive, ActiveStates

LEMMA VerdictIsOne ==
    ASSUME NEW c, NEW m \in Monitor
    PROVE  Verdict(c, m) \in {"CLEAR", "FLAG", "UNCERTAIN", "UNAVAILABLE"}
  BY DEF Verdict, VerdictOn, Monitor

-----------------------------------------------------------------------------
LEMMA CardsStayApart == ASSUME IInv, Kept, EInv PROVE OneCardPerBasis'
  <1>1. ASSUME NEW r \in CheckId, NEW s \in CheckId, r # s, Opens(r),
               IsActive(reviews'[s]), Basis(r)' = Basis(s)'
        PROVE  FALSE
    <2>1. reviews'[s] = reviews[s]
      <3>1. reviews \in [CheckId -> Review]
        BY DEF IInv, TypeOK
      <3> QED
        BY <1>1, <3>1 DEF Opens, Finalize
    <2>2. /\ IsActive(reviews[s]) /\ reviews[s].run = checks[s].run
          /\ checks[s].state = "HELD" /\ checks[r].state = "EVALUATING"
      BY <1>1, <2>1, CardGoesOn, CardHolds DEF Opens
    <2>3. Basis(r) = Basis(s)
      <3>1. Basis(r)' = Basis(r) /\ Basis(s)' = Basis(s)
        BY <2>2, EvidenceStays
      <3> QED
        BY <1>1, <3>1
    <2>4. checks[s].run = checks[r].run
      BY <2>3 DEF Basis
    <2>5. s \in SameBasis(r)
      BY <2>2, <2>3, <2>4 DEF SameBasis, ActiveReviews
    <2>6. SameBasis(r) = {}
      BY <1>1 DEF Opens, Outcome
    <2> QED
      BY <2>5, <2>6
  <1>2. ASSUME NEW r \in CheckId, NEW s \in CheckId, IsActive(reviews'[r]),
               IsActive(reviews'[s]), Basis(r)' = Basis(s)', r # s
        PROVE  FALSE
    <2>1. IsActive(reviews[r]) /\ IsActive(reviews[s])
      BY <1>1, <1>2, CardGoesOn
    <2>2. checks[r].state = "HELD" /\ checks[s].state = "HELD"
      BY <2>1, CardGoesOn
    <2>3. Basis(r) = Basis(s)
      <3>1. Basis(r)' = Basis(r) /\ Basis(s)' = Basis(s)
        BY <2>2, EvidenceStays
      <3> QED
        BY <1>2, <3>1
    <2> QED
      BY <1>2, <2>1, <2>3 DEF EInv, OneCardPerBasis, ActiveReviews
  <1> QED
    BY <1>2 DEF OneCardPerBasis, ActiveReviews, IsActive

-----------------------------------------------------------------------------
(* What finalization makes of the check. *)
LEMMA FinalizeDecides ==
    ASSUME IInv, NEW c \in CheckId, Finalize(c)
    PROVE  /\ checks[c].state = "EVALUATING" /\ UNCHANGED slots
           /\ checks'[c].state = "HELD" =>
                 \/ Outcome(c) = "OPENS" /\ checks'[c].review = c
                 \/ Outcome(c) = "HELD" /\ checks'[c].review \in SameBasis(c)
           /\ checks'[c].state = "CLEAR" =>
                 Outcome(c) = "CLEAR" /\ checks'[c].review = checks[c].review
  <1> DEFINE k == checks[c]
             x == Finalized(c)
             v == CHOOSE r \in SameBasis(c) : TRUE
             e == Least(now + PolicyOf(c).clearance,
                        ObservationOf(c).cut + PolicyOf(c).freshness)
             s == Outcome(c)
  <1>1. /\ k.state = "EVALUATING" /\ k \in Check /\ UNCHANGED slots
        /\ checks'[c] = x
    BY DEF Finalize, Due, IInv, TypeOK
  <1>2. /\ s = "OPENS" => x = [k EXCEPT !.state = "HELD", !.review = c]
        /\ s = "HELD" => x = [k EXCEPT !.state = "HELD", !.review = v]
        /\ s = "CLEAR" => x = [k EXCEPT !.state = "CLEAR", !.expires = e]
        /\ s \in {"STALE", "EXPIRED", "DENY"} => x = [k EXCEPT !.state = s]
    BY DEF Finalized
  <1>3. s = "HELD" => v \in SameBasis(c)
    BY HeldFindsCard
  <1>4. s \in {"STALE", "EXPIRED", "DENY", "CLEAR", "OPENS", "HELD"}
    BY OutcomeIsOne
  <1> HIDE DEF x, v, e, s
  <1>5. /\ s = "OPENS" => x.state = "HELD" /\ x.review = c
        /\ s = "HELD" => x.state = "HELD" /\ x.review = v
        /\ s = "CLEAR" => x.state = "CLEAR" /\ x.review = k.review
        /\ s \in {"STALE", "EXPIRED", "DENY"} => x.state = s
    <2>1. s = "OPENS" => Decides(k, x, "HELD", c, k.expires)
      <3>1. /\ k \in Check
            /\ s = "OPENS" => x = [k EXCEPT !.state = "HELD", !.review = c]
        BY <1>1, <1>2
      <3> QED
        BY <3>1, HeldDecides
    <2>2. s = "HELD" => Decides(k, x, "HELD", v, k.expires)
      <3>1. /\ k \in Check
            /\ s = "HELD" => x = [k EXCEPT !.state = "HELD", !.review = v]
        BY <1>1, <1>2
      <3> QED
        BY <3>1, HeldDecides
    <2>3. s = "CLEAR" => Decides(k, x, "CLEAR", k.review, e)
      <3>1. /\ k \in Check
            /\ s = "CLEAR" => x = [k EXCEPT !.state = "CLEAR", !.expires = e]
        BY <1>1, <1>2
      <3> QED
        BY <3>1, ClearedDecides
    <2>4. s \in {"STALE", "EXPIRED", "DENY"} => Decides(k, x, s, k.review, k.expires)
      <3>1. /\ k \in Check
            /\ s \in {"STALE", "EXPIRED", "DENY"} => x = [k EXCEPT !.state = s]
        BY <1>1, <1>2
      <3> QED
        BY <3>1, EndedDecides
    <2> QED
      BY <2>1, <2>2, <2>3, <2>4 DEF Decides
  <1>6. ASSUME x.state = "HELD"
        PROVE  \/ s = "OPENS" /\ x.review = c
               \/ s = "HELD" /\ x.review \in SameBasis(c)
    BY <1>3, <1>4, <1>5, <1>6
  <1>7. ASSUME x.state = "CLEAR" PROVE s = "CLEAR" /\ x.review = k.review
    BY <1>4, <1>5, <1>7
  <1> QED
    BY <1>1, <1>6, <1>7 DEF s

LEMMA HeldStaysCarded ==
    ASSUME IInv, Kept, EInv, NEW c \in CheckId
    PROVE  Carded(c)'
  <1> SUFFICES ASSUME checks'[c].state = "HELD"
               PROVE  \E r \in CheckId : CardFor(r, c)'
    BY DEF Carded
  <1>1. ASSUME NEW r \in CheckId, checks'[c].review = r, Basis(r) = Basis(c),
               reviews[r].state # "ABSENT", checks[c].state # "ABSENT"
        PROVE  CardFor(r, c)'
    <2>1. checks[r].state # "ABSENT" /\ reviews'[r].state # "ABSENT"
      BY <1>1, CardGoesOn
    <2>2. Basis(r)' = Basis(r) /\ Basis(c)' = Basis(c)
      BY <1>1, <2>1, EvidenceStays
    <2> QED
      BY <1>1, <2>1, <2>2 DEF CardFor
  <1>2. CASE checks'[c] = checks[c]
    <2>1. PICK r \in CheckId : CardFor(r, c)
      BY <1>2 DEF EInv, Carded
    <2> QED
      BY <1>1, <1>2, <2>1 DEF CardFor
  <1>3. CASE Finalize(c)
    <2>1. CASE Outcome(c) = "OPENS" /\ checks'[c].review = c
      <3>1. reviews'[c].state = "OPEN"
        BY <1>3, <2>1 DEF Finalize, IInv, TypeOK, Opened, NoReview
      <3> QED
        BY <2>1, <3>1 DEF CardFor
    <2>2. CASE checks'[c].review \in SameBasis(c)
      <3>1. PICK r \in CheckId : /\ checks'[c].review = r
                                 /\ IsActive(reviews[r]) /\ Basis(r) = Basis(c)
        BY <2>2 DEF SameBasis, ActiveReviews
      <3> QED
        BY <1>1, <1>3, <3>1, CardGoesOn, FinalizeDecides
    <2> QED
      BY <1>3, <2>1, <2>2, FinalizeDecides
  <1> QED
    BY <1>2, <1>3 DEF Kept, ChecksKept, CheckKept

(* What came in for a check that clears. *)
LEMMA ClearOutcome ==
    ASSUME NEW c, Outcome(c) = "CLEAR"
    PROVE  /\ \A m \in Monitor : /\ slots[c][m] = "done"
                                 /\ Verdict(c, m) \in {"CLEAR", "UNCERTAIN"}
           /\ Findings(c) # {} =>
                 Consumes(c) /\ Findings(checks[c].review) = Findings(c)
  <1>1. /\ "FLAG" \notin Results(c)
        /\ {"MISSING", "UNAVAILABLE"} \cap Results(c) = {}
        /\ "UNCERTAIN" \in Results(c) => Consumes(c)
    BY DEF Outcome
  <1>2. ASSUME NEW m \in Monitor
        PROVE  /\ slots[c][m] = "done" /\ Result(c, m) = Verdict(c, m)
               /\ Verdict(c, m) \in {"CLEAR", "UNCERTAIN"}
    <2>1. Result(c, m) \notin {"FLAG", "MISSING", "UNAVAILABLE"}
      BY <1>1 DEF Results
    <2>2. slots[c][m] = "done" /\ Result(c, m) = Verdict(c, m)
      BY <2>1 DEF Result
    <2> QED
      BY <2>1, <2>2, VerdictIsOne
  <1>3. ASSUME Findings(c) # {}
        PROVE  Consumes(c) /\ Findings(checks[c].review) = Findings(c)
    <2>1. PICK m \in Monitor : Verdict(c, m) = "UNCERTAIN"
      BY <1>3 DEF Findings
    <2>2. Consumes(c)
      BY <1>1, <1>2, <2>1 DEF Results
    <2>3. {l \in Monitor : Result(c, l) = "UNCERTAIN"} = Findings(c)
      BY <1>2 DEF Findings
    <2> QED
      BY <2>2, <2>3 DEF Consumes
  <1> QED
    BY <1>2, <1>3

(* A card that covered a check covers it for good. *)
LEMMA CoverStays ==
    ASSUME IInv, Kept, NEW c \in CheckId, NEW r \in CheckId,
           checks[c].state # "ABSENT", checks[r].state # "ABSENT",
           Covers(r, checks[c].run, IntentOf(c), checks[c].policy, Total(c))
    PROVE  Covers(r, checks[c].run, IntentOf(c), checks[c].policy, Total(c))'
  <1>1. /\ Basis(r)' = Basis(r) /\ Total(c)' = Total(c)
        /\ IntentOf(c)' = IntentOf(c) /\ checks'[c].run = checks[c].run
        /\ checks'[c].policy = checks[c].policy
    BY EvidenceStays
  <1> QED
    BY <1>1 DEF Covers

LEMMA ClearStaysVouched ==
    ASSUME IInv, Kept, EInv, NEW c \in CheckId
    PROVE  Vouched(c)'
  <1> SUFFICES ASSUME checks'[c].state = "CLEAR"
               PROVE  /\ \A m \in Monitor :
                            /\ slots'[c][m] = "done"
                            /\ Verdict(c, m)' \in {"CLEAR", "UNCERTAIN"}
                      /\ Findings(c)' # {} => \E r \in CheckId : VouchedBy(r, c)'
    BY DEF Vouched
  <1>1. CASE checks'[c] = checks[c]
    <2>1. slots'[c] = slots[c] /\ checks[c].state = "CLEAR"
      BY <1>1 DEF Kept, ChecksKept, CheckKept
    <2>2. /\ Findings(c)' = Findings(c)
          /\ \A m \in Monitor : Verdict(c, m)' = Verdict(c, m)
      BY <2>1, EvidenceStays
    <2>3. \A m \in Monitor : /\ slots'[c][m] = "done"
                             /\ Verdict(c, m)' \in {"CLEAR", "UNCERTAIN"}
      BY <2>1, <2>2 DEF EInv, Vouched
    <2>4. ASSUME NEW r \in CheckId, VouchedBy(r, c) PROVE VouchedBy(r, c)'
      <3>1. /\ checks[c].review = r /\ reviews[r].state # "ABSENT"
            /\ ~IsActive(reviews[r]) /\ Findings(r) = Findings(c)
            /\ Covers(r, checks[c].run, IntentOf(c), checks[c].policy, Total(c))
        BY <2>4 DEF VouchedBy
      <3>2. checks[r].state = "HELD" /\ reviews'[r].state # "ABSENT"
        BY <3>1, CardGoesOn
      <3>3. ~IsActive(reviews'[r])
        BY <3>1, CardGoesOn
      <3>4. Covers(r, checks[c].run, IntentOf(c), checks[c].policy, Total(c))'
        BY <2>1, <3>1, <3>2, CoverStays
      <3>5. Findings(r)' = Findings(r)
        BY <3>2, EvidenceStays
      <3> QED
        BY <1>1, <2>2, <3>1, <3>2, <3>3, <3>4, <3>5 DEF VouchedBy, IsActive
    <2> QED
      BY <2>1, <2>2, <2>3, <2>4 DEF EInv, Vouched
  <1>2. CASE Finalize(c)
    <2>1. /\ checks[c].state = "EVALUATING" /\ slots' = slots
          /\ Outcome(c) = "CLEAR" /\ checks'[c].review = checks[c].review
      BY <1>2, FinalizeDecides
    <2>2. /\ \A m \in Monitor : /\ slots[c][m] = "done"
                                /\ Verdict(c, m) \in {"CLEAR", "UNCERTAIN"}
          /\ Findings(c) # {} =>
                Consumes(c) /\ Findings(checks[c].review) = Findings(c)
      BY <2>1, ClearOutcome
    <2>3. /\ Findings(c)' = Findings(c)
          /\ \A m \in Monitor : Verdict(c, m)' = Verdict(c, m)
      BY <2>1, EvidenceStays
    <2>4. ASSUME Findings(c) # {} PROVE \E r \in CheckId : VouchedBy(r, c)'
      <3>1. Consumes(c)
        BY <2>2, <2>4
      <3>2. checks[c] \in Check /\ reviews \in [CheckId -> Review]
        BY DEF IInv, TypeOK
      <3>3. PICK r \in CheckId : r = checks[c].review
        BY <3>1, <3>2, CheckFields DEF Consumes
      <3>4. /\ reviews[r].state = "ACCEPTED"
            /\ Covers(r, checks[c].run, IntentOf(c), checks[c].policy, Total(c))
        BY <3>1, <3>3 DEF Consumes, Spendable
      <3>5. reviews'[r] = Consumed(reviews[r])
        BY <1>2, <2>1, <3>1, <3>2, <3>3 DEF Finalize
      <3>6. reviews'[r].state = "CONSUMED"
        BY <3>2, <3>5, ReviewFields, ConsumedFields DEF Becomes
      <3>7. checks[r].state = "HELD"
        BY <3>4, CardGoesOn
      <3>8. Covers(r, checks[c].run, IntentOf(c), checks[c].policy, Total(c))'
        BY <2>1, <3>4, <3>7, CoverStays
      <3>9. Findings(r)' = Findings(c)'
        BY <2>2, <2>3, <2>4, <3>3, <3>7, EvidenceStays
      <3> QED
        BY <2>1, <3>3, <3>6, <3>8, <3>9 DEF VouchedBy, IsActive, ActiveStates
    <2> QED
      BY <2>1, <2>2, <2>3, <2>4
  <1> QED
    BY <1>1, <1>2 DEF Kept, ChecksKept, CheckKept

-----------------------------------------------------------------------------
(* Cards leave the queue with their run. *)

RunsGoOn ==
    \A r \in Run : runs[r].state \in {"OPEN", "PAUSED"} =>
                     runs'[r].state \in {"OPEN", "PAUSED"}

LEMMA RunsSetGoOn ==
    ASSUME IInv, NEW changed \in SUBSET Run,
           \A r \in changed : runs[r].state # "ABSENT",
           NEW state \in {"OPEN", "PAUSED"}, SetRuns(changed, state)
    PROVE  RunsGoOn
  <1>1. state \in RunStates \ {"ABSENT"}
    BY DEF RunStates
  <1>2. \A r \in Run : /\ r \in changed => runs'[r].state = state
                       /\ r \notin changed => runs'[r] = runs[r]
    BY <1>1, SetRunsKept
  <1>3. ASSUME NEW r \in Run, runs[r].state \in {"OPEN", "PAUSED"}
        PROVE  runs'[r].state \in {"OPEN", "PAUSED"}
    <2>1. CASE r \in changed
      BY <1>2, <2>1
    <2>2. CASE r \notin changed
      BY <1>2, <1>3, <2>2
    <2> QED
      BY <2>1, <2>2
  <1> QED
    BY <1>3 DEF RunsGoOn

LEMMA MostRunsGoOn ==
    ASSUME IInv, [Next]_vars,
           ~ \E r \in Run : Close(r) \/ Quarantine(r)
    PROVE  RunsGoOn
  <1>1. CASE UNCHANGED runs
    BY <1>1 DEF RunsGoOn
  <1>2. CASE TickTimers \/ ActivatePolicy \/ Restart
    BY <1>2, RunsSetGoOn DEF TickTimers, Silent, ActivatePolicy, Restart
  <1>3. ASSUME NEW r \in Run, SourceGap(r) \/ Pause(r) \/ Resume(r)
        PROVE  RunsGoOn
    BY <1>3, RunsSetGoOn DEF SourceGap, Pause, Resume
  <1>4. ASSUME NEW r \in Run, OpenRun(r) PROVE RunsGoOn
    BY <1>4 DEF OpenRun, RunsGoOn, IInv, TypeOK
  <1>5. ASSUME NEW r \in Run, NEW cut, NEW s, Observe(r, cut, s) PROVE RunsGoOn
    <2>1. runs \in [Run -> RunRecord] /\ now \in Nat
      BY ClockAssumption DEF IInv, TypeOK, RunRecord, CycleTypeOK
    <2>2. runs' = [runs EXCEPT ![r] = [runs[r] EXCEPT !.received = now]]
          /\ runs[r].state # "ABSENT"
      BY <1>5 DEF Observe
    <2>3. [runs[r] EXCEPT !.received = now].state = runs[r].state
      BY <2>1, <2>2, RunChanges, "OPEN" \in RunStates \ {"ABSENT"} DEF RunStates
    <2> QED
      BY <2>1, <2>2, <2>3 DEF RunsGoOn
  <1>6. CASE UNCHANGED vars \/ Take \/ Rejection \/ Drain \/ SignalDrain
    BY <1>1, <1>6 DEF vars, store, Take, Rejection, Drain, SignalDrain
  <1>7. CASE Tick
    BY <1>1, <1>2, <1>7 DEF Tick, TickReturns, Finalize, store
  <1>8. CASE \E r \in Run, c \in CheckId, i \in Intent, v \in CheckId \cup {None} :
                \E n \in 1 .. Len(chain[r]) : CreateCheck(c, r, i, n, v)
    BY <1>1, <1>8 DEF CreateCheck
  <1>9. CASE \E c \in CheckId :
                \/ Cancel(c)
                \/ \E m \in Monitor : Reply(c, m) \/ Mismatch(c, m)
                \/ \E p \in Principal : Claim(p, c) \/ Resolve(p, c)
    BY <1>1, <1>9 DEF Cancel, Reply, Mismatch, Claim, Resolve, store
  <1> QED
    BY <1>2, <1>3, <1>4, <1>5, <1>6, <1>7, <1>8, <1>9 DEF Next

LEMMA CardsGoWithRuns ==
    ASSUME IInv, Kept, EInv, [Next]_vars, NEW v \in CheckId
    PROVE  CardGoing(v)'
  <1> SUFFICES ASSUME IsActive(reviews'[v])
               PROVE  runs'[reviews'[v].run].state \in {"OPEN", "PAUSED"}
    BY DEF CardGoing, IsActive
  <1>1. CASE Opens(v)
    <2>1. /\ runs' = runs /\ checks[v].run \in Run
          /\ runs[checks[v].run].state = "OPEN"
      BY <1>1 DEF Opens, Finalize, IInv, EvaluatingIsLive, Evaluating, CheckFits
    <2> QED
      BY <1>1, <2>1 DEF Opens
  <1>2. CASE ~Opens(v)
    <2>1. /\ IsActive(reviews[v]) /\ reviews[v].run \in Run
          /\ runs[reviews[v].run].state \in {"OPEN", "PAUSED"}
      BY <1>2, CardGoesOn, CardHolds DEF EInv, CardGoing
    <2>2. reviews'[v].run = reviews[v].run
      BY <2>1, CardGoesOn
    <2>3. ASSUME NEW r \in Run, Close(r) \/ Quarantine(r)
          PROVE  runs'[reviews'[v].run].state \in {"OPEN", "PAUSED"}
      <3>1. ExpireReviews(ActiveOf(r)) /\ runs[r].state # "ABSENT"
        BY <2>3 DEF Close, Quarantine
      <3>2. reviews[v].run # r
        <4>1. SUFFICES ASSUME reviews[v].run = r PROVE FALSE
          OBVIOUS
        <4>2. reviews'[v] = Expired(reviews[v])
          BY <2>1, <3>1, <4>1 DEF ExpireReviews, ActiveOf, ActiveReviews
        <4>3. reviews'[v].state = "EXPIRED"
          BY <4>2, CardHolds, ReviewFields, ExpiredFields DEF Good, Becomes
        <4> QED
          BY <4>3 DEF IsActive, ActiveStates
      <3>3. runs'[reviews[v].run] = runs[reviews[v].run]
        BY <2>1, <2>3, <3>2 DEF Close, Quarantine, SetRuns
      <3> QED
        BY <2>1, <2>2, <3>3
    <2>4. CASE RunsGoOn
      BY <2>1, <2>2, <2>4 DEF RunsGoOn
    <2> QED
      BY <2>3, <2>4, MostRunsGoOn
  <1> QED
    BY <1>1, <1>2

-----------------------------------------------------------------------------
(***************************************************************************)
(* The evidence of checks and cards: what the three theorems below name.   *)
(***************************************************************************)
THEOREM EvidenceInvariance == Spec => []EInv
  <1>1. Init => EInv
    <2> SUFFICES ASSUME Init PROVE EInv
      OBVIOUS
    <2>1. \A c \in CheckId : checks[c].state = "ABSENT" /\ ~IsActive(reviews[c])
      BY DEF Init, NoCheck, NoReview, IsActive, ActiveStates
    <2> QED
      BY <2>1 DEF EInv, OneCardPerBasis, ActiveReviews, Vouched, Carded, CardGoing
  <1>2. IInv /\ EInv /\ [Next]_vars => EInv'
    <2> SUFFICES ASSUME IInv, EInv, [Next]_vars PROVE EInv'
      OBVIOUS
    <2>1. Kept
      BY NextKeeps
    <2> QED
      BY <2>1, CardsStayApart, HeldStaysCarded, ClearStaysVouched, CardsGoWithRuns
      DEF EInv
  <1> QED
    BY <1>1, <1>2, Invariance, PTL DEF Spec

(***************************************************************************)
(* No two active cards ask the human the same question, whatever was       *)
(* claimed, deferred or expired in between (the unique index               *)
(* review_active_basis is never violated by a finalization).               *)
(***************************************************************************)
THEOREM CardsAreApart == Spec => []OneCardPerBasis
  BY EvidenceInvariance, PTL DEF EInv

(***************************************************************************)
(* No check is ever CLEAR without its three results, nor with an uncertain *)
(* one that no review, used up by now, covered.                            *)
(***************************************************************************)
THEOREM NoFailOpen == Spec => []ClearIsVouched
  <1>1. EInv => ClearIsVouched
    BY NoneAssumption DEF EInv, Vouched, VouchedBy, ClearIsVouched
  <1> QED
    BY <1>1, EvidenceInvariance, PTL

(***************************************************************************)
(* A check is HELD only for a card with its own basis, and closing or      *)
(* quarantining a run takes its cards out of the queue.                    *)
(***************************************************************************)
THEOREM HeldChecksHaveCards == Spec => []HeldHasCard
  <1>1. EInv => HeldHasCard
    BY NoneAssumption
    DEF EInv, Carded, CardFor, CardGoing, HeldHasCard, ActiveReviews
  <1> QED
    BY <1>1, EvidenceInvariance, PTL

=============================================================================
