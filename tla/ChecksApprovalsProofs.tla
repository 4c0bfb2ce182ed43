----------------------- MODULE ChecksApprovalsProofs ------------------------
(***************************************************************************)
(* Checks implements Approvals, for any checks, runs, reviewers, policies  *)
(* and bounds: every step of the blocking path decides checks, opens,      *)
(* moves and spends cards as Approvals allows, or leaves them alone; and   *)
(* its cards live as in CardLife.                                          *)
(***************************************************************************)
EXTENDS ChecksApprovals, ChecksEvidenceProofs

OpenStates == {"OPEN", "CLAIMED", "DEFERRED"}

CardIs(v) ==
    /\ v \in SpentCards => CardOf(v) = "spent"
    /\ v \notin SpentCards =>
          /\ reviews[v].state = "ABSENT" => CardOf(v) = "none"
          /\ reviews[v].state \in OpenStates => CardOf(v) = "open"
          /\ reviews[v].state = "ACCEPTED" => CardOf(v) = "accepted"
          /\ reviews[v].state \notin OpenStates \cup {"ABSENT", "ACCEPTED"} =>
                CardOf(v) = "void"

LEMMA CardsAre == \A v \in CheckId : CardIs(v)
  <1> SUFFICES ASSUME NEW v \in CheckId PROVE CardIs(v)
    OBVIOUS
  <1>1. CASE v \in SpentCards
    <2>1. CardOf(v) = "spent"
      BY <1>1 DEF CardOf
    <2> QED
      BY <1>1, <2>1 DEF CardIs
  <1>2. CASE v \notin SpentCards /\ reviews[v].state = "ABSENT"
    <2>1. CardOf(v) = "none"
      BY <1>2 DEF CardOf
    <2> QED
      BY <1>2, <2>1 DEF CardIs, OpenStates
  <1>3. CASE v \notin SpentCards /\ reviews[v].state \in OpenStates
    <2>1. CardOf(v) = "open"
      BY <1>3 DEF CardOf, OpenStates
    <2> QED
      BY <1>3, <2>1 DEF CardIs, OpenStates
  <1>4. CASE v \notin SpentCards /\ reviews[v].state = "ACCEPTED"
    <2>1. CardOf(v) = "accepted"
      BY <1>4 DEF CardOf, OpenStates
    <2> QED
      BY <1>4, <2>1 DEF CardIs, OpenStates
  <1>5. CASE /\ v \notin SpentCards
             /\ reviews[v].state \notin OpenStates \cup {"ABSENT", "ACCEPTED"}
    <2>1. CardOf(v) = "void"
      BY <1>5 DEF CardOf, OpenStates
    <2> QED
      BY <1>5, <2>1 DEF CardIs
  <1> QED
    BY <1>1, <1>2, <1>3, <1>4, <1>5

LEMMA CardsAreNext == (\A v \in CheckId : CardIs(v))'
  BY CardsAre, PTL

LEMMA DecisionIs ==
    ASSUME NEW c
    PROVE  /\ checks[c].state = "ABSENT" => DecisionOf(c) = "none"
           /\ checks[c].state = "EVALUATING" => DecisionOf(c) = "pending"
           /\ checks[c].state = "CLEAR" => DecisionOf(c) = "cleared"
           /\ checks[c].state = "HELD" => DecisionOf(c) = "held"
           /\ checks[c].state \notin {"ABSENT", "EVALUATING", "CLEAR", "HELD"} =>
                 DecisionOf(c) = "refused"
  BY DEF DecisionOf

(* A card some check has spent is out of the queue. *)
LEMMA SpentFacts ==
    ASSUME EInv, NEW c \in CheckId
    PROVE  SpentOn(c) # None =>
              /\ checks[c].state = "CLEAR" /\ Findings(c) # {}
              /\ SpentOn(c) = checks[c].review /\ SpentOn(c) \in CheckId
              /\ reviews[SpentOn(c)].state # "ABSENT"
              /\ ~IsActive(reviews[SpentOn(c)])
  BY DEF EInv, Vouched, VouchedBy, SpentOn

LEMMA SpentStays ==
    ASSUME IInv, EInv, Kept, NEW c \in CheckId, SpentOn(c) # None
    PROVE  SpentOn(c)' = SpentOn(c)
  <1>1. checks[c].state = "CLEAR" /\ checks'[c] = checks[c]
    BY SpentFacts DEF Kept, ChecksKept, CheckKept
  <1>2. Findings(c)' = Findings(c)
    BY <1>1, EvidenceStays
  <1> QED
    BY <1>1, <1>2 DEF SpentOn

(* A card is spent by the finalization that clears the check. *)
LEMMA SpendFacts ==
    ASSUME IInv, EInv, Kept, NEW c \in CheckId, SpentOn(c)' # SpentOn(c)
    PROVE  /\ SpentOn(c) = None /\ Finalize(c)
           /\ checks[c].state = "EVALUATING" /\ checks'[c].state = "CLEAR"
           /\ SpentOn(c)' \in CheckId
           /\ reviews[SpentOn(c)'].state = "ACCEPTED"
  <1>1. SpentOn(c) = None
    BY SpentStays
  <1>2. /\ checks'[c].state = "CLEAR" /\ Findings(c)' # {}
        /\ SpentOn(c)' = checks'[c].review
    BY <1>1 DEF SpentOn
  <1>3. CASE checks'[c] = checks[c]
    <2>1. /\ checks[c].state = "CLEAR" /\ Findings(c) # {}
          /\ SpentOn(c) = checks[c].review
      BY <1>2, <1>3, EvidenceStays DEF SpentOn
    <2>2. checks[c].review \in CheckId
      BY <2>1 DEF EInv, Vouched, VouchedBy
    <2> QED
      BY <1>1, <2>1, <2>2, NoneAssumption
  <1>4. CASE Finalize(c)
    <2>1. /\ checks[c].state = "EVALUATING" /\ Outcome(c) = "CLEAR"
          /\ checks'[c].review = checks[c].review
      BY <1>2, <1>4, FinalizeDecides
    <2>2. Findings(c) # {}
      BY <1>2, <2>1, EvidenceStays
    <2>3. Consumes(c)
      BY <2>1, <2>2, ClearOutcome
    <2>4. checks[c] \in Check
      BY DEF IInv, TypeOK
    <2>5. /\ checks[c].review \in CheckId
          /\ reviews[checks[c].review].state = "ACCEPTED"
      BY <2>3, <2>4, CheckFields DEF Consumes, Spendable
    <2> QED
      BY <1>1, <1>2, <1>4, <2>1, <2>5
  <1> QED
    BY <1>2, <1>3, <1>4 DEF Kept, ChecksKept, CheckKept

(* Nobody else has spent that card, before or in the same step. *)
LEMMA SpentOnce ==
    ASSUME IInv, EInv, Kept, NEW c \in CheckId, SpentOn(c)' # SpentOn(c),
           NEW d \in CheckId, SpentOn(d)' = SpentOn(c)'
    PROVE  d = c
  <1>1. /\ Finalize(c) /\ SpentOn(c)' \in CheckId
        /\ reviews[SpentOn(c)'].state = "ACCEPTED"
    BY SpendFacts
  <1>2. CASE SpentOn(d) # None
    <2>1. SpentOn(d) = SpentOn(c)' /\ ~IsActive(reviews[SpentOn(d)])
      BY <1>2, SpentStays, SpentFacts
    <2> QED
      BY <1>1, <2>1 DEF IsActive, ActiveStates
  <1>3. CASE SpentOn(d) = None
    <2>1. SpentOn(d)' # SpentOn(d)
      BY <1>1, <1>3, NoneAssumption
    <2>2. checks[d].state = "EVALUATING" /\ checks'[d].state = "CLEAR"
      BY <2>1, SpendFacts
    <2>3. d # c => checks'[d] = checks[d]
      BY <1>1 DEF Finalize, IInv, TypeOK
    <2> QED
      BY <2>2, <2>3
  <1> QED
    BY <1>2, <1>3

-----------------------------------------------------------------------------
(* An accepted card is not claimed, deferred or released again. *)
LEMMA AcceptedIsKept ==
    ASSUME IInv, [Next]_vars, NEW v \in CheckId, reviews[v].state = "ACCEPTED"
    PROVE  reviews'[v].state = "ACCEPTED" \/ ~IsActive(reviews'[v])
  <1>1. /\ Good(reviews[v]) /\ Record(reviews[v])
        /\ reviews \in [CheckId -> Review] /\ now \in Nat
    <2>1. Good(reviews[v]) /\ Record(reviews[v])
      BY CardHolds, ReviewFields DEF Good
    <2>2. reviews \in [CheckId -> Review] /\ now \in Nat
      BY ClockAssumption DEF IInv, TypeOK, CycleTypeOK
    <2> QED
      BY <2>1, <2>2
  <1>2. Expired(reviews[v]).state = "EXPIRED"
    BY <1>1, ExpiredFields DEF Becomes
  <1>3. CASE UNCHANGED reviews
    BY <1>3
  <1>4. CASE TickTimers
    <2>1. reviews'[v] = Ticked(reviews[v], now)
      BY <1>4 DEF TickTimers
    <2>2. reviews'[v] \in {reviews[v], Expired(reviews[v])}
      BY <1>1, <2>1, TickFiresOnce DEF Lapsed, WakeDue
    <2> QED
      BY <1>2, <2>2 DEF IsActive, ActiveStates
  <1>5. ASSUME NEW expired, ExpireReviews(expired)
        PROVE  reviews'[v].state = "ACCEPTED" \/ ~IsActive(reviews'[v])
    BY <1>2, <1>5 DEF ExpireReviews, IsActive, ActiveStates
  <1>6. ASSUME NEW c \in CheckId, Finalize(c)
        PROVE  reviews'[v].state = "ACCEPTED" \/ ~IsActive(reviews'[v])
    <2>1. CASE Outcome(c) = "OPENS"
      <3>1. c # v
        BY <1>6, CardHolds DEF Finalize, Due
      <3> QED
        BY <1>1, <1>6, <2>1, <3>1 DEF Finalize
    <2>2. CASE Outcome(c) = "CLEAR" /\ Consumes(c)
      <3>1. reviews' = [reviews EXCEPT ![checks[c].review] = Consumed(@)]
        BY <1>6, <2>2 DEF Finalize
      <3>2. Consumed(reviews[v]).state = "CONSUMED"
        BY <1>1, ConsumedFields DEF Becomes
      <3> QED
        BY <1>1, <3>1, <3>2 DEF IsActive, ActiveStates
    <2>3. CASE Outcome(c) # "OPENS" /\ ~(Outcome(c) = "CLEAR" /\ Consumes(c))
      BY <1>6, <2>3 DEF Finalize
    <2> QED
      BY <2>1, <2>2, <2>3
  <1>7. ASSUME NEW w \in CheckId, NEW p \in Principal, Claim(p, w) \/ Resolve(p, w)
        PROVE  reviews'[v].state = "ACCEPTED" \/ ~IsActive(reviews'[v])
    <2>1. PICK x \in ClaimResults(w, p) \cup ResolveResults(w, p) :
              reviews' = [reviews EXCEPT ![w] = x]
      BY <1>7 DEF Claim, Resolve
    <2>2. w = v => x = Expired(reviews[v])
      BY DEF ClaimResults, ResolveResults, Claimable, Lapsed, HeldBy
    <2> QED
      BY <1>1, <1>2, <2>1, <2>2 DEF IsActive, ActiveStates
  <1>8. CASE \E r \in Run : Close(r) \/ Quarantine(r)
    BY <1>5, <1>8 DEF Close, Quarantine
  <1>9. CASE ActivatePolicy \/ Restart
    BY <1>5, <1>9 DEF ActivatePolicy, Restart
  <1>10. CASE UNCHANGED vars \/ Take \/ Rejection \/ Drain \/ SignalDrain
    BY <1>3, <1>10 DEF vars, store, Take, Rejection, Drain, SignalDrain
  <1>11. CASE Tick
    BY <1>3, <1>4, <1>6, <1>11 DEF Tick, TickReturns, store
  <1>12. CASE \E r \in Run : OpenRun(r) \/ SourceGap(r) \/ Pause(r) \/ Resume(r)
    BY <1>3, <1>12 DEF OpenRun, SourceGap, Pause, Resume
  <1>13. CASE \E r \in Run : \E cut \in 1 .. now, s \in Snapshot : Observe(r, cut, s)
    BY <1>3, <1>13 DEF Observe
  <1>14. CASE \E r \in Run, c \in CheckId, i \in Intent, w \in CheckId \cup {None} :
                 \E n \in 1 .. Len(chain[r]) : CreateCheck(c, r, i, n, w)
    BY <1>3, <1>14 DEF CreateCheck
  <1>15. CASE \E c \in CheckId :
                 Cancel(c) \/ \E m \in Monitor : Reply(c, m) \/ Mismatch(c, m)
    BY <1>3, <1>15 DEF Cancel, Reply, Mismatch, store
  <1> QED
    BY <1>7, <1>8, <1>9, <1>10, <1>11, <1>12, <1>13, <1>14, <1>15 DEF Next

-----------------------------------------------------------------------------
(* The three clauses of a step of Approvals. *)

LEMMA StepDecides ==
    ASSUME IInv, Kept, NEW c \in CheckId, DecisionOf(c)' # DecisionOf(c)
    PROVE  <<DecisionOf(c), DecisionOf(c)'>> \in
              {<<"none", "pending">>, <<"none", "refused">>,
               <<"pending", "cleared">>, <<"pending", "held">>,
               <<"pending", "refused">>}
  <1>1. CASE checks[c].state = "EVALUATING"
    <2>1. DecisionOf(c) = "pending" /\ checks'[c].state # "ABSENT"
      BY <1>1, DecisionIs DEF Kept, ChecksKept, CheckKept
    <2>2. DecisionOf(c)' \in {"pending", "cleared", "held", "refused"}
      BY <2>1 DEF DecisionOf
    <2> QED
      BY <2>1, <2>2
  <1>2. CASE checks[c].state = "ABSENT"
    <2>1. checks'[c].state \notin {"CLEAR", "HELD"}
      <3>1. SUFFICES ASSUME checks'[c].state \in {"CLEAR", "HELD"} PROVE FALSE
        OBVIOUS
      <3>2. Finalize(c)
        BY <1>2, <3>1 DEF Kept, ChecksKept, CheckKept
      <3> QED
        BY <1>2, <3>2, FinalizeDecides
    <2>2. DecisionOf(c) = "none"
      BY <1>2, DecisionIs
    <2>3. DecisionOf(c)' \in {"none", "pending", "refused"}
      BY <2>1 DEF DecisionOf
    <2> QED
      BY <2>2, <2>3
  <1>3. CASE checks[c].state \notin {"ABSENT", "EVALUATING"}
    <2>1. checks'[c] = checks[c]
      BY <1>3 DEF Kept, ChecksKept, CheckKept
    <2> QED
      BY <2>1 DEF DecisionOf
  <1> QED
    BY <1>1, <1>2, <1>3

LEMMA StepMovesCard ==
    ASSUME IInv, EInv, Kept, EInv', [Next]_vars, NEW v \in CheckId,
           CardOf(v)' # CardOf(v)
    PROVE  /\ <<CardOf(v), CardOf(v)'>> \in
                 {<<"none", "open">>, <<"open", "accepted">>,
                  <<"open", "void">>, <<"accepted", "spent">>,
                  <<"accepted", "void">>}
           /\ CardOf(v) = "none" =>
                 DecisionOf(v) = "pending" /\ DecisionOf(v)' = "held"
           /\ CardOf(v)' = "spent" => \E d \in CheckId : SpentOn(d)' = v
  <1> DEFINE spentNext == v \in SpentCards'
             s == reviews[v].state
             t == reviews'[v].state
  <1>1. v \notin SpentCards
    <2>1. SUFFICES ASSUME v \in SpentCards PROVE FALSE
      OBVIOUS
    <2>2. PICK d \in CheckId : SpentOn(d) = v
      BY <2>1 DEF SpentCards
    <2>3. SpentOn(d)' = v
      BY <2>2, SpentStays, NoneAssumption
    <2>4. v \in SpentCards'
      BY <2>3 DEF SpentCards
    <2>5. CardOf(v) = "spent" /\ CardOf(v)' = "spent"
      BY <2>1, <2>4, CardsAre, CardsAreNext DEF CardIs
    <2> QED
      BY <2>5
  <1>2. spentNext => s = "ACCEPTED"
    BY <1>1, SpendFacts DEF SpentCards
  <1>3. /\ spentNext => CardOf(v)' = "spent"
        /\ ~spentNext =>
              /\ t = "ABSENT" => CardOf(v)' = "none"
              /\ t \in OpenStates => CardOf(v)' = "open"
              /\ t = "ACCEPTED" => CardOf(v)' = "accepted"
              /\ t \notin OpenStates \cup {"ABSENT", "ACCEPTED"} =>
                    CardOf(v)' = "void"
    BY CardsAreNext DEF CardIs
  <1>4. CardKept(v)
    BY DEF Kept, CardsKept
  <1>5. CASE s = "ABSENT"
    <2>1. CardOf(v) = "none" /\ ~spentNext
      BY <1>1, <1>2, <1>5, CardsAre DEF CardIs
    <2>2. Opens(v)
      BY <1>3, <1>4, <1>5, <2>1 DEF CardKept
    <2>3. DecisionOf(v) = "pending" /\ DecisionOf(v)' = "held"
      BY <2>2 DEF Opens, DecisionOf
    <2>4. t = "OPEN"
      BY <2>2 DEF Opens, Finalize, IInv, TypeOK, Opened, NoReview
    <2>5. CardOf(v)' = "open"
      BY <1>3, <2>1, <2>4 DEF OpenStates
    <2> QED
      BY <2>1, <2>3, <2>5
  <1>6. CASE s \in OpenStates
    <2>1. CardOf(v) = "open" /\ ~spentNext /\ t # "ABSENT"
      BY <1>1, <1>2, <1>4, <1>6, CardsAre DEF CardIs, OpenStates, CardKept
    <2>2. CardOf(v)' \in {"open", "accepted", "void"}
      BY <1>3, <2>1
    <2> QED
      BY <2>1, <2>2
  <1>7. CASE s = "ACCEPTED"
    <2>1. CardOf(v) = "accepted" /\ t # "ABSENT"
      BY <1>1, <1>4, <1>7, CardsAre DEF CardIs, CardKept
    <2>2. t \notin OpenStates
      BY <1>7, AcceptedIsKept DEF IsActive, ActiveStates, OpenStates
    <2>3. CardOf(v)' \in {"spent", "accepted", "void"}
      BY <1>3, <2>1, <2>2
    <2>4. CardOf(v)' = "spent" => spentNext
      BY <1>3, <2>1, <2>2
    <2>5. spentNext => \E d \in CheckId : SpentOn(d)' = v
      BY DEF SpentCards
    <2> QED
      BY <2>1, <2>3, <2>4, <2>5
  <1>8. CASE s \notin OpenStates \cup {"ABSENT", "ACCEPTED"}
    <2>1. CardOf(v) = "void" /\ ~spentNext /\ t # "ABSENT"
      BY <1>1, <1>2, <1>4, <1>8, CardsAre DEF CardIs, CardKept
    <2>2. ~IsActive(reviews[v])
      BY <1>8 DEF IsActive, ActiveStates, OpenStates
    <2>3. ~Opens(v)
      BY <1>8, CardGoesOn
    <2>4. ~IsActive(reviews'[v])
      BY <1>4, <2>2, <2>3 DEF CardKept
    <2>5. CardOf(v)' = "void"
      BY <1>3, <2>1, <2>4 DEF IsActive, ActiveStates, OpenStates
    <2> QED
      BY <2>1, <2>5
  <1> QED
    BY <1>5, <1>6, <1>7, <1>8

LEMMA StepSpends ==
    ASSUME IInv, EInv, Kept, EInv', NEW c \in CheckId, SpentOn(c)' # SpentOn(c)
    PROVE  /\ DecisionOf(c) = "pending" /\ DecisionOf(c)' = "cleared"
           /\ SpentOn(c)' \in CheckId
           /\ CardOf(SpentOn(c)') = "accepted"
           /\ \A d \in CheckId : SpentOn(d)' = SpentOn(c)' => d = c
  <1>1. DecisionOf(c) = "pending" /\ DecisionOf(c)' = "cleared"
    BY SpendFacts DEF DecisionOf
  <1>2. PICK v \in CheckId : v = SpentOn(c)' /\ reviews[v].state = "ACCEPTED"
    BY SpendFacts
  <1>3. v \notin SpentCards
    BY <1>2, SpentFacts, NoneAssumption DEF SpentCards, IsActive, ActiveStates
  <1>4. CardOf(v) = "accepted"
    BY <1>2, <1>3, CardsAre DEF CardIs
  <1> QED
    BY <1>1, <1>2, <1>4, SpentOnce

LEMMA StepKeepsTypes ==
    ASSUME EInv'
    PROVE  /\ \A c \in CheckId :
                 DecisionOf(c)' \in {"none", "pending", "cleared", "held", "refused"}
           /\ \A v \in CheckId :
                 CardOf(v)' \in {"none", "open", "accepted", "spent", "void"}
           /\ \A c \in CheckId : SpentOn(c)' \in CheckId \cup {None}
  <1>1. \A c \in CheckId : SpentOn(c)' \in CheckId \cup {None}
    BY DEF EInv, Vouched, VouchedBy, SpentOn
  <1>2. \A v \in CheckId :
            CardOf(v)' \in {"none", "open", "accepted", "spent", "void"}
    BY DEF CardOf
  <1>3. \A c \in CheckId :
            DecisionOf(c)' \in {"none", "pending", "cleared", "held", "refused"}
    BY DEF DecisionOf
  <1> QED
    BY <1>1, <1>2, <1>3

-----------------------------------------------------------------------------
LEMMA InitPromised == ASSUME Init PROVE Promise!Init
  <1>1. \A c \in CheckId : checks[c].state = "ABSENT" /\ reviews[c].state = "ABSENT"
    BY DEF Init, NoCheck, NoReview
  <1>2. \A c \in CheckId : DecisionOf(c) = "none" /\ SpentOn(c) = None
    BY <1>1 DEF DecisionOf, SpentOn
  <1>3. \A v \in CheckId : CardOf(v) = "none"
    BY <1>1, <1>2, CardsAre, NoneAssumption DEF CardIs, SpentCards
  <1> QED
    BY <1>2, <1>3 DEF Promise!Init

LEMMA NextPromised ==
    ASSUME IInv, EInv, [Next]_vars, EInv'
    PROVE  Promise!Next
  <1>1. Kept
    BY NextKeeps
  <1>2. /\ \A c \in CheckId :
              DecisionOf(c)' \in {"none", "pending", "cleared", "held", "refused"}
        /\ \A v \in CheckId :
              CardOf(v)' \in {"none", "open", "accepted", "spent", "void"}
        /\ \A c \in CheckId : SpentOn(c)' \in CheckId \cup {None}
    BY StepKeepsTypes
  <1>3. ASSUME NEW c \in CheckId PROVE Promise!Decide(c)
    BY <1>1, <1>3, StepDecides DEF Promise!Decide, Promise!Decisions
  <1>4. ASSUME NEW c \in CheckId PROVE Promise!MoveCard(c)
    BY <1>1, <1>4, StepMovesCard DEF Promise!MoveCard, Promise!CardMoves
  <1>5. ASSUME NEW c \in CheckId PROVE Promise!Spend(c)
    <2>1. CASE SpentOn(c)' = SpentOn(c)
      BY <2>1 DEF Promise!Spend
    <2>2. CASE SpentOn(c)' # SpentOn(c)
      <3>1. PICK v \in CheckId : v = SpentOn(c)' /\ CardOf(v) = "accepted"
        BY <1>1, <2>2, StepSpends
      <3>2. v \in SpentCards'
        BY <3>1 DEF SpentCards
      <3>3. CardOf(v)' = "spent"
        BY <3>2, CardsAreNext DEF CardIs
      <3> QED
        BY <1>1, <2>2, <3>1, <3>3, StepSpends DEF Promise!Spend
    <2> QED
      BY <2>1, <2>2
  <1> QED
    BY <1>2, <1>3, <1>4, <1>5 DEF Promise!Next

(***************************************************************************)
(* Every behaviour of the blocking path is one of Approvals: a check is    *)
(* decided once, a card opens with the decision that needs it, and an      *)
(* acceptance clears one check.                                            *)
(***************************************************************************)
THEOREM PromiseIsKept == Spec => KeepsPromise
  <1>1. Init => Promise!Init
    BY InitPromised
  <1>2. IInv /\ EInv /\ [Next]_vars /\ EInv'
            => [Promise!Next]_(Promise!approvals)
    BY NextPromised
  <1> QED
    BY <1>1, <1>2, Invariance, EvidenceInvariance, PTL
    DEF Spec, KeepsPromise, Promise!Spec

-----------------------------------------------------------------------------
(***************************************************************************)
(* The life of cards: every step of Checks moves each of them at most once *)
(* and as CardLife allows.  All cards here are blocking ones.              *)
(***************************************************************************)
AllBlocking == \A v \in CheckId : reviews[v].kind = "blocking"

LivesOn(v) == Lives(reviews[v], reviews'[v]) /\ reviews'[v].kind = "blocking"

LEMMA StayingLives ==
    ASSUME AllBlocking, NEW v \in CheckId, reviews'[v] = reviews[v]
    PROVE  LivesOn(v)
  BY DEF AllBlocking, LivesOn, Lives

LEMMA MovingLives ==
    ASSUME AllBlocking, NEW v \in CheckId, reviews[v].state # "ABSENT",
           Lives(reviews[v], reviews'[v])
    PROVE  LivesOn(v)
  BY LivingKeepsKind DEF AllBlocking, LivesOn

LEMMA PuttingLives ==
    ASSUME IInv, AllBlocking, NEW v \in CheckId, NEW x,
           reviews' = [reviews EXCEPT ![v] = x],
           reviews[v].state # "ABSENT", Lives(reviews[v], x)
    PROVE  \A w \in CheckId : LivesOn(w)
  <1>1. reviews'[v] = x /\ \A w \in CheckId : w # v => reviews'[w] = reviews[w]
    BY DEF IInv, TypeOK
  <1> QED
    BY <1>1, MovingLives, StayingLives

LEMMA TimersMoveCards ==
    ASSUME IInv, AllBlocking, TickTimers
    PROVE  \A v \in CheckId : LivesOn(v)
  <1> SUFFICES ASSUME NEW v \in CheckId PROVE LivesOn(v)
    OBVIOUS
  <1>1. now \in Nat
    BY ClockAssumption DEF IInv, TypeOK, CycleTypeOK
  <1>2. reviews'[v] = Ticked(reviews[v], now) /\ Good(reviews[v])
    BY CardHolds DEF TickTimers
  <1>3. Lives(reviews[v], reviews'[v])
    BY <1>1, <1>2, TickLives
  <1>4. reviews[v].state = "ABSENT" => reviews'[v] = reviews[v]
    BY <1>1, <1>2, TickFiresOnce
    DEF PastDue, Lapsed, WakeDue, IsActive, ActiveStates
  <1> QED
    BY <1>3, <1>4, StayingLives, MovingLives

LEMMA ExpiringMovesCards ==
    ASSUME IInv, AllBlocking, NEW expired \in SUBSET ActiveReviews,
           ExpireReviews(expired)
    PROVE  \A v \in CheckId : LivesOn(v)
  <1> SUFFICES ASSUME NEW v \in CheckId PROVE LivesOn(v)
    OBVIOUS
  <1>1. CASE v \in expired
    <2>1. reviews[v].state # "ABSENT" /\ reviews'[v] = Expired(reviews[v])
      BY <1>1 DEF ExpireReviews, ActiveReviews, IsActive, ActiveStates
    <2> QED
      BY <2>1, CardHolds, TimersLive, MovingLives
  <1>2. CASE v \notin expired
    BY <1>2, StayingLives DEF ExpireReviews
  <1> QED
    BY <1>1, <1>2

LEMMA RequestsMoveCards ==
    ASSUME IInv, AllBlocking, NEW v \in CheckId, NEW p \in Principal,
           Claim(p, v) \/ Resolve(p, v)
    PROVE  \A w \in CheckId : LivesOn(w)
  <1> DEFINE r == reviews[v]
             lease == Policies[runs[r.run].policy].lease
             accept == Policies[runs[r.run].policy].accept
  <1>1. PICK x \in ClaimResults(v, p) \cup ResolveResults(v, p) :
            reviews' = [reviews EXCEPT ![v] = x]
    BY DEF Claim, Resolve
  <1>2. r.state # "ABSENT" /\ Good(r) /\ r.kind = "blocking"
    BY CardHolds DEF Claim, Resolve, Reviewable, AllBlocking
  <1>3. \/ x = Expired(r)
        \/ Claimable(r, p) /\ x = Claimed(r, p, now, lease)
        \/ r.state = "CLAIMED" /\ x = Released(r)
        \/ r.state = "CLAIMED" /\ x \in {Accepted(r, now, accept), Rejected(r)}
        \/ r.state = "CLAIMED" /\ \E w \in Nat : x = Deferred(r, w)
    <2>1. \A w \in (now + 1) .. (r.due - 1) : w \in Nat
      <3>1. now \in Nat /\ r.due \in Nat
        BY <1>2, ReviewFields, ClockAssumption
        DEF Good, IInv, TypeOK, CycleTypeOK
      <3> QED
        BY <3>1
    <2>2. CASE x \in ClaimResults(v, p)
      BY <2>2 DEF ClaimResults
    <2>3. CASE x \in ResolveResults(v, p)
      BY <2>1, <2>3 DEF ResolveResults, HeldBy, Lapsed
    <2> QED
      BY <2>2, <2>3
  <1> HIDE DEF lease, accept
  <1>4. Lives(r, x)
    BY <1>2, <1>3, TimersLive, ClaimLives, AnswersLive
  <1> QED
    BY <1>1, <1>2, <1>4, PuttingLives

LEMMA FinalizingMovesCards ==
    ASSUME IInv, AllBlocking, NEW c \in CheckId, Finalize(c)
    PROVE  \A v \in CheckId : LivesOn(v)
  <1>1. CASE Outcome(c) = "OPENS"
    <2> DEFINE x == Opened(checks[c].run, "blocking", "warning",
                           now + PolicyOf(c).ttl)
    <2>1. reviews' = [reviews EXCEPT ![c] = x]
      BY <1>1 DEF Finalize
    <2>2. reviews[c].state = "ABSENT"
      BY CardHolds DEF Finalize, Due
    <2>3. x.kind = "blocking"
      BY DEF Opened, NoReview
    <2>4. Lives(reviews[c], x)
      BY <2>2, OpeningLives
    <2> HIDE DEF x
    <2>5. reviews'[c] = x /\ \A v \in CheckId : v # c => reviews'[v] = reviews[v]
      BY <2>1 DEF IInv, TypeOK
    <2> QED
      BY <2>3, <2>4, <2>5, StayingLives DEF LivesOn
  <1>2. CASE Outcome(c) = "CLEAR" /\ Consumes(c)
    <2> DEFINE v == checks[c].review
    <2>1. /\ v \in CheckId /\ reviews[v].state = "ACCEPTED"
          /\ reviews' = [reviews EXCEPT ![v] = Consumed(reviews[v])]
      BY <1>2, CheckFields DEF Finalize, Consumes, Spendable, IInv, TypeOK
    <2> HIDE DEF v
    <2> QED
      BY <2>1, CardHolds, SpendingLives, PuttingLives
  <1>3. CASE Outcome(c) # "OPENS" /\ ~(Outcome(c) = "CLEAR" /\ Consumes(c))
    BY <1>3, StayingLives DEF Finalize
  <1> QED
    BY <1>1, <1>2, <1>3

LEMMA StepMovesCards ==
    ASSUME IInv, AllBlocking, [Next]_vars
    PROVE  \A v \in CheckId : LivesOn(v)
  <1>1. CASE UNCHANGED reviews
    BY <1>1, StayingLives
  <1>2. CASE Restart
    BY <1>2, ExpiringMovesCards DEF Restart
  <1>3. CASE ActivatePolicy \/ \E r \in Run : Quarantine(r) \/ Close(r)
    <2>1. \E expired \in SUBSET ActiveReviews : ExpireReviews(expired)
      BY <1>3 DEF ActivatePolicy, Quarantine, Close, ActiveOf
    <2> QED
      BY <2>1, ExpiringMovesCards
  <1>4. CASE \E c \in CheckId : \E p \in Principal : Claim(p, c) \/ Resolve(p, c)
    BY <1>4, RequestsMoveCards
  <1>5. CASE Tick
    BY <1>1, <1>5, TimersMoveCards, FinalizingMovesCards
    DEF Tick, TickReturns, store
  <1>6. CASE Take \/ Rejection \/ Drain \/ SignalDrain \/ UNCHANGED vars
    BY <1>1, <1>6 DEF Take, Rejection, Drain, SignalDrain, store, vars
  <1>7. CASE \E r \in Run :
                \/ OpenRun(r) \/ SourceGap(r) \/ Pause(r) \/ Resume(r)
                \/ \E cut \in 1 .. now, s \in Snapshot : Observe(r, cut, s)
                \/ \E c \in CheckId, i \in Intent, v \in CheckId \cup {None} :
                      \E n \in 1 .. Len(chain[r]) : CreateCheck(c, r, i, n, v)
    <2>1. CASE \E r \in Run : OpenRun(r) \/ SourceGap(r) \/ Pause(r) \/ Resume(r)
      BY <1>1, <2>1 DEF OpenRun, SourceGap, Pause, Resume
    <2>2. CASE \E r \in Run : \E cut \in 1 .. now, s \in Snapshot :
                  Observe(r, cut, s)
      BY <1>1, <2>2 DEF Observe
    <2>3. CASE \E r \in Run : \E c \in CheckId, i \in Intent,
                  v \in CheckId \cup {None} :
                     \E n \in 1 .. Len(chain[r]) : CreateCheck(c, r, i, n, v)
      <3>1. UNCHANGED reviews
        BY <2>3 DEF CreateCheck
      <3> QED
        BY <1>1, <3>1
    <2> QED
      BY <1>7, <2>1, <2>2, <2>3
  <1>8. CASE \E c \in CheckId :
                Cancel(c) \/ \E m \in Monitor : Reply(c, m) \/ Mismatch(c, m)
    BY <1>1, <1>8 DEF Cancel, Reply, Mismatch, store
  <1>9. CASE \E r \in Run :
                \/ OpenRun(r) \/ SourceGap(r) \/ Quarantine(r)
                \/ Pause(r) \/ Resume(r) \/ Close(r)
                \/ \E cut \in 1 .. now, s \in Snapshot : Observe(r, cut, s)
                \/ \E c \in CheckId, i \in Intent, v \in CheckId \cup {None} :
                      \E n \in 1 .. Len(chain[r]) : CreateCheck(c, r, i, n, v)
    BY <1>3, <1>7, <1>9
  <1>10. CASE \E c \in CheckId :
                \/ Cancel(c)
                \/ \E m \in Monitor : Reply(c, m) \/ Mismatch(c, m)
                \/ \E p \in Principal : Claim(p, c) \/ Resolve(p, c)
    BY <1>4, <1>8, <1>10
  <1> QED
    BY <1>2, <1>3, <1>5, <1>6, <1>9, <1>10 DEF Next

LEMMA SameLife ==
    /\ Seen!Card = Life!Card
    /\ \A v, w : Seen!Move(v, w) <=> Life!Move(v, w)
  BY DEF Seen!Card, Seen!States, Life!Card, Life!States, Seen!Move, Life!Move,
         Seen!Opens, Life!Opens, Seen!Claims, Life!Claims, Seen!Frees, Life!Frees,
         Seen!Defers, Life!Defers, Seen!Answers, Life!Answers, Seen!Spends,
         Life!Spends, Seen!Expires, Life!Expires, Seen!Changed, Life!Changed

(***************************************************************************)
(* Checks implements CardLife: whatever opens, answers, spends and expires *)
(* cards here, each of them lives as a client of the queue expects.        *)
(***************************************************************************)
THEOREM CardsLiveOn == Spec => KeepsLife
  <1>1. Init => AllBlocking /\ Life!Init
    <2>1. ASSUME Init PROVE Shown \in [CheckId -> Life!Card]
      BY <2>1, InitHolds, CardHolds, ViewFields, SameLife DEF Shown
    <2>2. ASSUME Init, NEW v \in CheckId
          PROVE  /\ Shown[v].state = "ABSENT" /\ Shown[v].revision = 0
                 /\ Shown[v].owner = NoOwner /\ reviews[v].kind = "blocking"
      BY <2>2, ViewFields DEF Init, NoReview, Shown
    <2> QED
      BY <2>1, <2>2 DEF Life!Init, AllBlocking
  <1>2. IInv /\ AllBlocking /\ [Next]_vars => AllBlocking'
    BY StepMovesCards DEF AllBlocking, LivesOn
  <1>3. IInv /\ AllBlocking /\ [Next]_vars => [Life!Next]_Shown
    <2> SUFFICES ASSUME IInv, AllBlocking, [Next]_vars PROVE Life!Next
      OBVIOUS
    <2>1. \A v \in CheckId : /\ View(reviews[v])' \in Life!Card
                              /\ Lives(reviews[v], reviews'[v])
      BY NextKeeps, StepMovesCards, ViewFields, SameLife
      DEF Kept, CardsKept, CardKept, LivesOn, View
    <2>2. \A v \in CheckId : \/ Shown'[v] = Shown[v]
                              \/ Life!Move(Shown[v], Shown'[v])
      BY <2>1, SameLife DEF Lives, View, Shown
    <2> QED
      BY <2>1, <2>2 DEF Life!Next, Shown
  <1>4. Spec => []AllBlocking
    BY <1>1, <1>2, Invariance, PTL DEF Spec
  <1> QED
    BY <1>1, <1>3, <1>4, Invariance, PTL DEF Spec, KeepsLife, Life!Spec

=============================================================================
