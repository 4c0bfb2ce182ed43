-------------------------- MODULE ReviewQueueProofs --------------------------
(***************************************************************************)
(* The safety properties of ReviewQueue, for any number of reviews, runs   *)
(* and reviewers, any policy times and any bounds.                         *)
(*                                                                         *)
(* All of them follow from what one step may do to one card, Moves, which  *)
(* holds of every action under the inductive invariant IInv.  The rotation *)
(* of QueueFairness, last, needs where the cursor may stand as well.       *)
(***************************************************************************)
EXTENDS QueueFairness, ReviewsProofs, WellFoundedInduction

IInv ==
    /\ TypeOK
    /\ WellFormed
    /\ \A id \in ReviewId :
          reviews[id].state = "ABSENT" => reviews[id].revision = 0

Owned(r) == r.state \in {"CLAIMED", "ACCEPTED"}

Moves(r, x) ==
    /\ Good(x)
    /\ x.state = "ABSENT" => x.revision = 0
    /\ x # r => x.revision = r.revision + 1
    /\ Owned(r) /\ Owned(x) => x.owner = r.owner
    /\ Lives(r, x)

CardsMove ==
    /\ reviews' \in [ReviewId -> Review]
    /\ \A id \in ReviewId : Moves(reviews[id], reviews'[id])

-----------------------------------------------------------------------------
(* Cards under IInv, and the ways they move. *)

LEMMA CardIsGood ==
    ASSUME IInv, NEW id \in ReviewId
    PROVE  /\ Good(reviews[id])
           /\ reviews[id].state = "ABSENT" => reviews[id].revision = 0
  BY DEF IInv, TypeOK, WellFormed, Good, Sound

LEMMA NowIsNat == ASSUME IInv PROVE now \in Nat
  BY ClockAssumption DEF IInv, TypeOK, CycleTypeOK

LEMMA CursorFits == ASSUME IInv PROVE cursor \in [Levels -> Run \cup {0}]
  BY DEF IInv, TypeOK

LEMMA StayingMoves ==
    ASSUME NEW r, Good(r), r.state = "ABSENT" => r.revision = 0
    PROVE  Moves(r, r)
  BY DEF Moves, Lives

(* A good card that became another good one, without changing hands. *)
LEMMA BecomingMoves ==
    ASSUME NEW r, NEW x, Good(x), NEW state, state # "ABSENT",
           NEW owner, NEW lease, NEW wake, NEW until,
           Becomes(r, x, state, owner, lease, wake, until),
           Owned(r) /\ state \in {"CLAIMED", "ACCEPTED"} => owner = r.owner,
           Lives(r, x)
    PROVE  Moves(r, x)
  BY DEF Moves, Becomes, Owned

LEMMA ExpiringMoves ==
    ASSUME NEW r, Good(r), r.state # "ABSENT"
    PROVE  Moves(r, Expired(r))
  BY ReviewFields, ExpiredFields, ExpiredIsGood, TimersLive, BecomingMoves
  DEF Good

LEMMA ReleasingMoves ==
    ASSUME NEW r, Good(r), r.state = "CLAIMED"
    PROVE  Moves(r, Released(r))
  BY ReviewFields, ReleasedFields, ReleasedIsGood, TimersLive, BecomingMoves
  DEF Good

LEMMA TickingMoves ==
    ASSUME NEW r, Good(r), r.state = "ABSENT" => r.revision = 0,
           NEW t \in Nat
    PROVE  Moves(r, Ticked(r, t))
  <1>1. CASE Ticked(r, t) = r
    BY <1>1, StayingMoves
  <1>2. CASE Ticked(r, t) = Expired(r) /\ PastDue(r, t)
    BY <1>2, ExpiringMoves DEF PastDue, IsActive, ActiveStates
  <1>3. CASE Ticked(r, t) = Released(r) /\ Lapsed(r, t)
    BY <1>3, ReleasingMoves DEF Lapsed
  <1>4. CASE Ticked(r, t) = Woken(r) /\ WakeDue(r, t)
    BY <1>4, ReviewFields, WokenFields, WokenIsGood, TimersLive, BecomingMoves
    DEF Good, WakeDue
  <1> QED
    BY <1>1, <1>2, <1>3, <1>4, TickFiresOnce

LEMMA FinishingMoves ==
    ASSUME NEW r, Good(r)
    PROVE  /\ r.state = "ACCEPTED" => Moves(r, Consumed(r))
           /\ r.state = "CLAIMED" /\ r.kind = "blocking" => Moves(r, Rejected(r))
           /\ r.state = "CLAIMED" /\ r.kind = "trailing" => Moves(r, Closed(r))
  <1>1. Record(r)
    BY ReviewFields DEF Good
  <1>2. r.state = "ACCEPTED" => Moves(r, Consumed(r))
    BY <1>1, ConsumedFields, FinalIsGood, SpendingLives, BecomingMoves
  <1>3. r.state = "CLAIMED" /\ r.kind = "blocking" => Moves(r, Rejected(r))
    BY <1>1, RejectedFields, FinalIsGood, AnswersLive, BecomingMoves
  <1>4. r.state = "CLAIMED" /\ r.kind = "trailing" => Moves(r, Closed(r))
    BY <1>1, ClosedFields, FinalIsGood, AnswersLive, BecomingMoves
  <1> QED
    BY <1>2, <1>3, <1>4

LEMMA ClaimingMoves ==
    ASSUME NEW r, Good(r), NEW p \in Principal, NEW t \in Nat, NEW ms \in Nat,
           Claimable(r, p)
    PROVE  Moves(r, Claimed(r, p, t, ms))
  <1>1. Good(Claimed(r, p, t, ms))
    BY ClaimedIsGood
  <1>2. Becomes(r, Claimed(r, p, t, ms), "CLAIMED", p, Least(t + ms, r.due),
                r.wake, r.until)
    BY ReviewFields, ClaimedFields DEF Good
  <1>3. Owned(r) => p = r.owner
    BY DEF Claimable, Owned
  <1> QED
    BY <1>1, <1>2, <1>3, ClaimLives, BecomingMoves

LEMMA AcceptingMoves ==
    ASSUME NEW r, Good(r), NEW t \in Nat, NEW ms \in Nat, r.state = "CLAIMED",
           r.kind = "blocking"
    PROVE  Moves(r, Accepted(r, t, ms))
  <1>1. Good(Accepted(r, t, ms))
    BY AcceptedIsGood DEF Good, Sound
  <1>2. Becomes(r, Accepted(r, t, ms), "ACCEPTED", r.owner, r.lease, r.wake,
                Least(t + ms, r.due))
    BY ReviewFields, AcceptedFields DEF Good
  <1> QED
    BY <1>1, <1>2, AnswersLive, BecomingMoves

LEMMA DeferringMoves ==
    ASSUME NEW r, Good(r), NEW w \in Nat, w < r.due, r.state = "CLAIMED"
    PROVE  Moves(r, Deferred(r, w))
  BY ReviewFields, DeferredFields, DeferredIsGood, AnswersLive, BecomingMoves
  DEF Good

LEMMA OpeningMoves ==
    ASSUME NEW r, r.state = "ABSENT", r.revision = 0,
           NEW run \in Run, NEW kind \in Kinds, NEW level \in Levels,
           NEW due \in Nat
    PROVE  Moves(r, Opened(run, kind, level, due))
  <1> DEFINE x == Opened(run, kind, level, due)
  <1>1. Good(x)
    BY NewCardIsGood
  <1>2. x.state = "OPEN" /\ x.revision = 1
    BY DEF Opened, NoReview
  <1> QED
    BY <1>1, <1>2, OpeningLives DEF Moves, Owned

LEMMA PutMoves ==
    ASSUME IInv, NEW id \in ReviewId, NEW x, Moves(reviews[id], x), Put(id, x)
    PROVE  CardsMove
  <1>1. reviews \in [ReviewId -> Review] /\ x \in Review
    BY DEF IInv, TypeOK, Moves, Good
  <1>2. \A other \in ReviewId : Moves(reviews[other], reviews[other])
    BY CardIsGood, StayingMoves
  <1> QED
    BY <1>1, <1>2 DEF CardsMove, Put

LEMMA EachMoves ==
    ASSUME reviews' = [id \in ReviewId |-> reviews'[id]],
           \A id \in ReviewId : Moves(reviews[id], reviews'[id])
    PROVE  CardsMove
  BY DEF CardsMove, Moves, Good

LEMMA NoneMoves == ASSUME IInv, UNCHANGED reviews PROVE CardsMove
  <1>1. reviews \in [ReviewId -> Review]
    BY DEF IInv, TypeOK
  <1>2. \A id \in ReviewId : Moves(reviews[id], reviews[id])
    BY CardIsGood, StayingMoves
  <1> QED
    BY <1>1, <1>2 DEF CardsMove

-----------------------------------------------------------------------------
(* What a step does to the cycle, the cursor and the cards. *)

Fits ==
    /\ CycleTypeOK({"reviews", "checks"})'
    /\ cursor' \in [Levels -> Run \cup {0}]
    /\ CardsMove

LEMMA FitsIsInductive == ASSUME Fits PROVE IInv'
  BY DEF Fits, CardsMove, Moves, Good, Sound, IInv, TypeOK, WellFormed, ReviewId

LEMMA CyclesFit ==
    ASSUME IInv,
           \/ Acquire \/ Signalled \/ HandlerDone
           \/ NextStep("reviews", "checks")
           \/ TickDone("checks") \/ UNCHANGED cycle
           \/ now' \in 1 .. MaxNow /\ phase' = "idle" /\ after' = "idle"
    PROVE  CycleTypeOK({"reviews", "checks"})'
  BY ClockAssumption, StepAssumption
  DEF IInv, TypeOK, CycleTypeOK, Acquire, Signalled, HandlerDone, NextStep,
      TickDone, cycle

LEMMA TickFits == ASSUME IInv, TickReviews PROVE Fits
  <1>1. \A id \in ReviewId : Moves(reviews[id], Ticked(reviews[id], now))
    BY CardIsGood, NowIsNat, TickingMoves
  <1>2. CardsMove
    BY <1>1, EachMoves DEF TickReviews
  <1> QED
    BY <1>2, CyclesFit, CursorFits DEF Fits, TickReviews

LEMMA OpenFits ==
    ASSUME IInv, NEW id \in ReviewId, NEW run \in Run, NEW kind \in Kinds,
           NEW level \in Levels, Open(id, run, kind, level)
    PROVE  Fits
  <1>1. now + ReviewTtl \in Nat
    BY NowIsNat, QueueAssumption
  <1>2. Moves(reviews[id], Opened(run, kind, level, now + ReviewTtl))
    BY <1>1, CardIsGood, OpeningMoves DEF Open
  <1> QED
    BY <1>2, PutMoves, CyclesFit, CursorFits DEF Open, Fits, cycle

LEMMA ConsumeFits == ASSUME IInv, NEW id \in ReviewId, Consume(id) PROVE Fits
  <1>1. Moves(reviews[id], Consumed(reviews[id]))
    BY CardIsGood, FinishingMoves DEF Consume, Spendable
  <1> QED
    BY <1>1, PutMoves, CyclesFit, CursorFits DEF Consume, Fits, cycle

LEMMA LateFits ==
    ASSUME IInv, NEW id \in ReviewId, LateRequest(id) PROVE Fits
  <1>1. /\ Moves(reviews[id], Expired(reviews[id]))
        /\ Lapsed(reviews[id], now) => Moves(reviews[id], Released(reviews[id]))
    BY CardIsGood, ExpiringMoves, ReleasingMoves
    DEF LateRequest, InBounds, Lapsed
  <1>2. CASE reviews[id].due <= now
    BY <1>1, <1>2, PutMoves, CyclesFit, CursorFits DEF LateRequest, Fits
  <1>3. CASE ~ reviews[id].due <= now
    BY <1>1, <1>3, PutMoves, CyclesFit, CursorFits DEF LateRequest, Fits
  <1> QED
    BY <1>2, <1>3

LEMMA ClaimFits ==
    ASSUME IInv, NEW id \in ReviewId, NEW p \in Principal, Claim(p, id)
    PROVE  Fits
  <1>1. Moves(reviews[id], Claimed(reviews[id], p, now, ClaimLease))
    BY CardIsGood, NowIsNat, QueueAssumption, ClaimingMoves DEF Claim
  <1>2. reviews[id].run \in Run /\ reviews[id].level \in Levels
    BY CardIsGood, ReviewFields DEF Good
  <1>3. cursor' \in [Levels -> Run \cup {0}]
    BY <1>2, CursorFits DEF Claim
  <1> QED
    BY <1>1, <1>3, PutMoves, CyclesFit DEF Claim, Fits

LEMMA ResolveFits ==
    ASSUME IInv, NEW id \in ReviewId, NEW p, NEW kind, NEW x,
           Resolve(p, id, kind, x),
           reviews[id].state = "CLAIMED" /\ reviews[id].kind \in kind =>
               Moves(reviews[id], x)
    PROVE  Fits
  BY PutMoves, CyclesFit, CursorFits DEF Resolve, HeldBy, Fits

LEMMA ResolutionsFit ==
    ASSUME IInv, NEW id \in ReviewId, NEW p \in Principal,
           \/ AcceptRisk(p, id) \/ Reject(p, id) \/ Annotate(p, id)
           \/ Release(p, id) \/ Defer(p, id)
    PROVE  Fits
  <1> DEFINE r == reviews[id]
  <1>1. Good(r)
    BY CardIsGood
  <1>2. CASE AcceptRisk(p, id)
    <2>1. r.state = "CLAIMED" /\ r.kind \in {"blocking"} =>
              Moves(r, Accepted(r, now, ReviewAccept))
      BY <1>1, NowIsNat, QueueAssumption, AcceptingMoves
    <2> QED
      BY <1>2, <2>1, ResolveFits DEF AcceptRisk
  <1>3. CASE Reject(p, id) \/ Annotate(p, id) \/ Release(p, id)
    <2>1. r.state = "CLAIMED" /\ r.kind \in {"blocking"} => Moves(r, Rejected(r))
      BY <1>1, FinishingMoves
    <2>2. r.state = "CLAIMED" /\ r.kind \in {"trailing"} => Moves(r, Closed(r))
      BY <1>1, FinishingMoves
    <2>3. r.state = "CLAIMED" => Moves(r, Released(r))
      BY <1>1, ReleasingMoves
    <2> QED
      BY <1>3, <2>1, <2>2, <2>3, ResolveFits DEF Reject, Annotate, Release
  <1>4. CASE Defer(p, id)
    <2>1. PICK w \in (now + 1) .. (r.due - 1) :
              Resolve(p, id, Kinds, Deferred(r, w))
      BY <1>4 DEF Defer
    <2>2. w \in Nat /\ w < r.due
      BY <1>1, NowIsNat, ReviewFields DEF Good
    <2>3. r.state = "CLAIMED" => Moves(r, Deferred(r, w))
      BY <1>1, <2>2, DeferringMoves
    <2> QED
      BY <2>1, <2>3, ResolveFits
  <1> QED
    BY <1>2, <1>3, <1>4

(* Closing runs and restarting: each card stays as it is or expires. *)
LEMMA ExpiringSomeMoves ==
    ASSUME IInv, reviews' = [id \in ReviewId |-> reviews'[id]],
           \A id \in ReviewId :
               \/ reviews'[id] = reviews[id]
               \/ IsActive(reviews[id]) /\ reviews'[id] = Expired(reviews[id])
    PROVE  CardsMove
  <1>1. ASSUME NEW id \in ReviewId
        PROVE  Moves(reviews[id], reviews'[id])
    BY CardIsGood, ExpiringMoves, StayingMoves DEF IsActive, ActiveStates
  <1> QED
    BY <1>1, EachMoves

LEMMA ExpireRunsFits == ASSUME IInv, NEW runs, ExpireRuns(runs) PROVE Fits
  BY ExpiringSomeMoves, CyclesFit, CursorFits DEF ExpireRuns, Fits

LEMMA RestartFits == ASSUME IInv, Restart PROVE Fits
  BY ExpiringSomeMoves, CyclesFit, CursorFits DEF Restart, Fits

(* n comes no later than w when the runs are counted on from c, wrapping.  *)
Follows(c, n, w) == IF c < n THEN w <= c \/ n <= w ELSE w <= c /\ n <= w

LEMMA RunsAreNumbers == \A c \in Run \cup {0} : c \in Nat
  BY QueueAssumption

LEMMA NoneBetween ==
    ASSUME NEW c \in Run \cup {0}, NEW n \in Run, NEW w \in Run,
           IF c < n THEN w > c => n <= w ELSE ~ w > c /\ n <= w
    PROVE  Follows(c, n, w)
  <1>1. c \in Nat /\ n \in Nat /\ w \in Nat
    BY RunsAreNumbers
  <1> QED
    BY <1>1 DEF Follows

(***************************************************************************)
(* The queue position is a card: the CHOOSE of FirstOf has a witness, the  *)
(* oldest of those of the least run.                                       *)
(***************************************************************************)
LEMMA LeastNumber ==
    ASSUME NEW S, S \subseteq Nat, S # {}
    PROVE  \E m \in S : \A n \in S : m <= n
  <1> DEFINE Below == {pair \in Nat \X Nat : pair[1] < pair[2]}
  <1>1. IsWellFoundedOn(Below, Nat)
    BY NatLessThanWellFounded DEF OpToRel
  <1>2. PICK m \in S : \A n \in S : <<n, m>> \notin Below
    <2> HIDE DEF Below
    <2> QED
      BY <1>1, WFMin
  <1>3. \A n \in S : ~ n < m
    BY <1>2
  <1> QED
    BY <1>3

LEMMA FirstOfIsAMember ==
    ASSUME IInv, NEW ids \in SUBSET ReviewId, ids # {}
    PROVE  /\ FirstOf(ids) \in ids
           /\ \A other \in ids :
                 reviews[FirstOf(ids)].run <= reviews[other].run
  <1>1. ids \subseteq Nat /\ \A id \in ids : reviews[id].run \in Nat
    <2>1. ReviewId \subseteq Nat /\ Run \subseteq Nat
      BY QueueAssumption DEF ReviewId
    <2>2. \A id \in ReviewId : reviews[id].run \in Run
      BY CardIsGood, ReviewFields DEF Good
    <2> QED
      BY <2>1, <2>2
  <1> DEFINE runsOf == {reviews[id].run : id \in ids}
  <1>2. PICK run \in runsOf : \A other \in runsOf : run <= other
    <2>1. runsOf \subseteq Nat /\ runsOf # {}
      BY <1>1
    <2> HIDE DEF runsOf
    <2> QED
      BY <2>1, LeastNumber
  <1> DEFINE idsOf == {i \in ids : reviews[i].run = run}
  <1>3. PICK id \in idsOf : \A other \in idsOf : id <= other
    <2>1. idsOf \subseteq Nat /\ idsOf # {}
      BY <1>1, <1>2
    <2> HIDE DEF idsOf, runsOf
    <2> QED
      BY <2>1, LeastNumber
  <1>4. \A other \in ids :
            \/ reviews[id].run < reviews[other].run
            \/ reviews[id].run = reviews[other].run /\ id <= other
    <2> SUFFICES ASSUME NEW other \in ids
                 PROVE  \/ reviews[id].run < reviews[other].run
                        \/ reviews[id].run = reviews[other].run /\ id <= other
      OBVIOUS
    <2>1. reviews[id].run = run /\ run <= reviews[other].run
      BY <1>2, <1>3
    <2>2. run \in Nat /\ reviews[other].run \in Nat
      BY <1>1, <1>2
    <2>3. reviews[other].run = run => id <= other
      BY <1>3
    <2> HIDE DEF idsOf, runsOf
    <2> QED
      BY <2>1, <2>2, <2>3
  <1>5. id \in ids
    BY <1>3
  <1>6. \E first \in ids : \A other \in ids :
            \/ reviews[first].run < reviews[other].run
            \/ reviews[first].run = reviews[other].run /\ first <= other
    BY <1>4, <1>5, Zenon
  <1>7. /\ FirstOf(ids) \in ids
        /\ \A other \in ids :
              \/ reviews[FirstOf(ids)].run < reviews[other].run
              \/ /\ reviews[FirstOf(ids)].run = reviews[other].run
                 /\ FirstOf(ids) <= other
    BY <1>6, Zenon DEF FirstOf
  <1>8. PICK first : first = FirstOf(ids)
    OBVIOUS
  <1> HIDE DEF idsOf, runsOf
  <1>9. first \in ids
    BY <1>7, <1>8, Zenon
  <1>10. ASSUME NEW other \in ids
         PROVE  reviews[first].run <= reviews[other].run
    <2>1. \/ reviews[first].run < reviews[other].run
          \/ reviews[first].run = reviews[other].run
      BY <1>7, <1>8, Zenon
    <2>2. reviews[first].run \in Nat /\ reviews[other].run \in Nat
      BY <1>1, <1>9
    <2> QED
      BY <2>1, <2>2
  <1> QED
    BY <1>8, <1>9, <1>10

(* It is the first run after the cursor, around the circle of the runs.   *)
LEMMA NextOpenIsACard ==
    ASSUME IInv, OpenIds # {}
    PROVE  /\ NextOpen \in ReviewId /\ NextOpen \in AtLevel(BestLevel)
           /\ \A id \in AtLevel(BestLevel) :
                 Follows(cursor[BestLevel], reviews[NextOpen].run,
                         reviews[id].run)
  <1> DEFINE items == AtLevel(BestLevel)
             later == {id \in items : reviews[id].run > cursor[BestLevel]}
             ids == IF later # {} THEN later ELSE items
  <1>1. \A id \in ReviewId : reviews[id].level \in Levels
    BY CardIsGood, ReviewFields DEF Good
  <1>2. items # {}
    BY <1>1 DEF BestLevel, AtLevel, OpenIds, Levels
  <1>3. items \subseteq ReviewId
    BY DEF AtLevel, OpenIds
  <1>4. ids # {} /\ ids \in SUBSET ReviewId
    BY <1>2, <1>3
  <1>5. NextOpen = FirstOf(ids)
    BY DEF NextOpen
  <1>6. /\ FirstOf(ids) \in ids
        /\ \A other \in ids : reviews[FirstOf(ids)].run <= reviews[other].run
    <2> HIDE DEF ids
    <2> QED
      BY <1>4, FirstOfIsAMember
  <1>7. NextOpen \in items
    BY <1>5, <1>6
  <1>8. ASSUME NEW id \in items
        PROVE  Follows(cursor[BestLevel], reviews[NextOpen].run, reviews[id].run)
    <2>1. BestLevel \in Levels
      BY DEF BestLevel, Levels
    <2>2. /\ cursor[BestLevel] \in Run \cup {0}
          /\ reviews[NextOpen].run \in Run /\ reviews[id].run \in Run
      BY <1>3, <1>4, <1>5, <1>6, <2>1, CursorFits, CardIsGood, ReviewFields
      DEF Good
    <2>3. IF cursor[BestLevel] < reviews[NextOpen].run
          THEN reviews[id].run > cursor[BestLevel] =>
                  reviews[NextOpen].run <= reviews[id].run
          ELSE /\ ~ reviews[id].run > cursor[BestLevel]
               /\ reviews[NextOpen].run <= reviews[id].run
      <3>1. CASE later # {}
        BY <1>5, <1>6, <3>1
      <3>2. CASE later = {}
        BY <1>5, <1>6, <1>7, <3>2
      <3> QED
        BY <3>1, <3>2
    <2> QED
      BY <2>2, <2>3, NoneBetween
  <1> QED
    BY <1>3, <1>7, <1>8

-----------------------------------------------------------------------------
(* Every step moves the cards as it should. *)

LEMMA InitFits == ASSUME Init PROVE IInv
  <1>1. Good(NoReview) /\ NoReview.state = "ABSENT" /\ NoReview.revision = 0
    <2>1. PICK run \in Run : TRUE
      BY RunAssumption
    <2> QED
      BY <2>1, NewCardIsGood DEF NoReview, Kinds, Levels
  <1> QED
    BY <1>1, ClockAssumption
    DEF Init, CycleInit, CycleTypeOK, IInv, TypeOK, WellFormed, Good, Sound

LEMMA NextFits == ASSUME IInv, Next PROVE Fits
  <1>1. CASE Take \/ Signal \/ TickReturns \/ Rejection
    BY <1>1, NoneMoves, CyclesFit, CursorFits
    DEF Take, Signal, TickReturns, Rejection, Fits
  <1>2. CASE \E id \in ReviewId :
                \/ \E run \in Run, kind \in Kinds, l \in Levels :
                      Open(id, run, kind, l)
                \/ Consume(id) \/ LateRequest(id)
    BY <1>2, OpenFits, ConsumeFits, LateFits
  <1>3. CASE \E id \in ReviewId : \E p \in Principal :
                \/ Claim(p, id) \/ AcceptRisk(p, id) \/ Reject(p, id)
                \/ Annotate(p, id) \/ Release(p, id) \/ Defer(p, id)
    BY <1>3, ClaimFits, ResolutionsFit
  <1>4. CASE \E p \in Principal : ClaimNext(p)
    BY <1>4, NextOpenIsACard, ClaimFits DEF ClaimNext
  <1>5. CASE \E runs \in SUBSET Run \ {{}} : ExpireRuns(runs)
    BY <1>5, ExpireRunsFits
  <1> QED
    BY <1>1, <1>2, <1>3, <1>4, <1>5, TickFits, RestartFits DEF Next

LEMMA StepFits == ASSUME IInv, [Next]_vars PROVE Fits
  <1>1. CASE UNCHANGED vars
    BY <1>1, NoneMoves, CyclesFit, CursorFits DEF vars, cycle, Fits
  <1> QED
    BY <1>1, NextFits

(* IInv is an invariant: TypeOK, WellFormed and that an id nobody opened   *)
(* has revision 0, without which Open could skip a revision.               *)
THEOREM Invariance == Spec => []IInv
  <1>1. Init => IInv
    BY InitFits
  <1>2. IInv /\ [Next]_vars => IInv'
    BY StepFits, FitsIsInductive
  <1> QED
    BY <1>1, <1>2, PTL DEF Spec

(* Every variable keeps to its type, the cards to that of schema.rs. *)
THEOREM TypeCorrect == Spec => []TypeOK
  BY Invariance, PTL DEF IInv

(* A card's lease, wake and acceptance stay within its hard due, and it    *)
(* has an owner exactly while one answers for it.                          *)
THEOREM CardsWellFormed == Spec => []WellFormed
  BY Invariance, PTL DEF IInv

(* Every change to a card moves its revision by one, whatever the step:    *)
(* what a client's expected_revision names is one content of the card.     *)
THEOREM RevisionsTrackChange == Spec => RevisionTracksChange
  <1>1. IInv /\ [Next]_vars =>
          [\A id \in ReviewId : reviews'[id] # reviews[id] =>
              reviews'[id].revision = reviews[id].revision + 1]_vars
    BY StepFits DEF Fits, CardsMove, Moves
  <1> QED
    BY <1>1, Invariance, PTL DEF Spec, RevisionTracksChange

(* No step hands a claimed or accepted card from one reviewer to another. *)
THEOREM OwnersReleaseFirst == Spec => OwnershipReleased
  <1>1. IInv /\ [Next]_vars =>
          [\A id \in ReviewId :
              /\ reviews[id].state \in {"CLAIMED", "ACCEPTED"}
              /\ reviews'[id].state \in {"CLAIMED", "ACCEPTED"}
              => reviews'[id].owner = reviews[id].owner]_vars
    BY StepFits DEF Fits, CardsMove, Moves, Owned
  <1> QED
    BY <1>1, Invariance, PTL DEF Spec, OwnershipReleased

LEMMA SameLife ==
    /\ Seen!Card = Life!Card
    /\ \A v, w : Seen!Move(v, w) <=> Life!Move(v, w)
  BY DEF Seen!Card, Seen!States, Life!Card, Life!States, Seen!Move, Life!Move,
         Seen!Opens, Life!Opens, Seen!Claims, Life!Claims, Seen!Frees, Life!Frees,
         Seen!Defers, Life!Defers, Seen!Answers, Life!Answers, Seen!Spends,
         Life!Spends, Seen!Expires, Life!Expires, Seen!Changed, Life!Changed

(* ReviewQueue implements CardLife: a client that finds a card at another  *)
(* revision knows through which moves it can have got there.               *)
THEOREM LifeIsKept == Spec => KeepsLife
  <1>1. Init => Life!Init
    <2>1. ASSUME Init PROVE Shown \in [ReviewId -> Life!Card]
      BY <2>1, InitFits, CardIsGood, ViewFields, SameLife DEF Shown
    <2>2. ASSUME Init, NEW id \in ReviewId
          PROVE  /\ Shown[id].state = "ABSENT" /\ Shown[id].revision = 0
                 /\ Shown[id].owner = NoOwner
      BY <2>2, ViewFields DEF Init, NoReview, Shown
    <2> QED
      BY <2>1, <2>2 DEF Life!Init
  <1>2. IInv /\ [Next]_vars => [Life!Next]_Shown
    <2> SUFFICES ASSUME IInv, [Next]_vars PROVE Life!Next
      OBVIOUS
    <2>1. \A id \in ReviewId : /\ View(reviews[id])' \in Life!Card
                               /\ Lives(reviews[id], reviews'[id])
      BY StepFits, ViewFields, SameLife DEF Fits, CardsMove, Moves, View
    <2>2. \A id \in ReviewId :
              \/ Shown'[id] = Shown[id]
              \/ Life!Move(Shown[id], Shown'[id])
      BY <2>1, SameLife DEF Lives, View, Shown
    <2> QED
      BY <2>1, <2>2 DEF Life!Next, Shown
  <1> QED
    BY <1>1, <1>2, Invariance, PTL DEF Spec, KeepsLife, Life!Spec

-----------------------------------------------------------------------------
(***************************************************************************)
(* Timers in watchd's own cycle (Served): the lock is free or a handler    *)
(* runs only when tick() has settled the cards at this clock reading.      *)
(***************************************************************************)
Settled(r, t) == ~PastDue(r, t) /\ ~Lapsed(r, t) /\ ~WakeDue(r, t)

LEMMA InactiveIsSettled ==
    ASSUME NEW r, NEW t, ~IsActive(r)
    PROVE  Settled(r, t)
  BY DEF Settled, PastDue, Lapsed, WakeDue, IsActive, ActiveStates

(* Cards change in tick()'s later steps only by being opened or consumed. *)
LEMMA ChecksKeepSettled ==
    ASSUME IInv, TimersSettled, phase = "checks", ReviewTtl # 0, NEW id \in ReviewId,
           \/ \E run \in Run, kind \in Kinds, l \in Levels :
                 Open(id, run, kind, l)
           \/ Consume(id)
    PROVE  TimersSettled'
  <1>1. reviews \in [ReviewId -> Review] /\ now \in Nat
    BY NowIsNat DEF IInv, TypeOK
  <1>2. \A i \in ReviewId : Settled(reviews[i], now)
    BY DEF TimersSettled, Settled
  <1>3. PICK x : Put(id, x) /\ Settled(x, now) /\ now' = now
    <2>1. CASE Consume(id)
      <3>1. ~IsActive(Consumed(reviews[id]))
        BY <1>1, ReviewFields, ConsumedFields
        DEF Becomes, IsActive, ActiveStates
      <3> QED
        BY <2>1, <3>1, InactiveIsSettled DEF Consume
    <2>2. ASSUME NEW run \in Run, NEW kind \in Kinds, NEW l \in Levels,
                 Open(id, run, kind, l)
          PROVE  \E x : Put(id, x) /\ Settled(x, now) /\ now' = now
      <3> DEFINE x == Opened(run, kind, l, now + ReviewTtl)
      <3>1. x.state = "OPEN" /\ x.due = now + ReviewTtl
        BY DEF Opened, NoReview
      <3>2. Settled(x, now)
        BY <1>1, <3>1, QueueAssumption DEF Settled, PastDue, Lapsed, WakeDue
      <3> QED
        BY <2>2, <3>2 DEF Open
    <2> QED
      BY <2>1, <2>2
  <1>4. \A i \in ReviewId : Settled(reviews'[i], now')
    BY <1>1, <1>2, <1>3 DEF Put
  <1> QED
    BY <1>4 DEF TimersSettled, Settled

LEMMA TimersStaySettled ==
    ASSUME Served, ReviewTtl # 0, IInv, TimersSettled, [Next]_vars
    PROVE  TimersSettled'
  <1>1. CASE \E id \in ReviewId :
                \/ \E run \in Run, kind \in Kinds, l \in Levels :
                      Open(id, run, kind, l)
                \/ Consume(id)
    BY <1>1, ChecksKeepSettled DEF Open, Consume
  <1>2. CASE TickReviews
    <2>1. \A id \in ReviewId : Settled(Ticked(reviews[id], now), now)
      BY CardIsGood, NowIsNat, TickSettles DEF Settled
    <2> QED
      BY <1>2, <2>1 DEF TickReviews, NextStep, TimersSettled, Settled
  <1>3. CASE Take \/ Signal \/ HandlerDone
    BY <1>3, StepAssumption
    DEF Take, Acquire, Signal, Signalled, HandlerDone, TimersSettled
  <1>4. CASE TickReturns \/ UNCHANGED vars
    BY <1>4 DEF TickReturns, TickDone, TimersSettled, vars
  <1>5. CASE Restart
    <2>1. \A id \in ReviewId : ~IsActive(reviews'[id])
      <3>1. \A id \in ReviewId : ~IsActive(Expired(reviews[id]))
        BY CardIsGood, ReviewFields, ExpiredFields
        DEF Good, Becomes, IsActive, ActiveStates
      <3> QED
        BY <1>5, <3>1 DEF Restart
    <2> QED
      BY <2>1, InactiveIsSettled DEF TimersSettled, Settled
  <1> QED
    BY <1>1, <1>2, <1>3, <1>4, <1>5
    DEF Next, Rejection, LateRequest, Claim, ClaimNext,
        Resolve, AcceptRisk, Reject, Annotate, Release, Defer, ExpireRuns

(* In watchd's cycle no handler, and no client after it, meets a card      *)
(* whose hard due, lease, deferral or acceptance is over.  (schema.rs      *)
(* accepts a review_ttl_ms of 0, with which a card is due when it opens.)  *)
THEOREM HandlersSeeNoOverdueCard ==
    ASSUME Served, ReviewTtl # 0
    PROVE  Spec => []TimersSettled
  <1>1. Init => TimersSettled
    BY InactiveIsSettled DEF Init, TimersSettled, Settled, NoReview, IsActive,
                             ActiveStates
  <1>2. IInv /\ TimersSettled /\ [Next]_vars => TimersSettled'
    BY TimersStaySettled
  <1> QED
    BY <1>1, <1>2, Invariance, PTL DEF Spec

-----------------------------------------------------------------------------
(***************************************************************************)
(* The rotation.  The runs served while w waits at a level lie behind the  *)
(* cursor and ahead of w on the circle of the runs: from w, excluded, to   *)
(* the cursor.  The run that is served next lies beyond the cursor and not *)
(* beyond w, so it is none of them.                                        *)
(***************************************************************************)
Behind(w, c, s) ==
    \/ w < s /\ s <= c
    \/ c < w /\ (w < s \/ s <= c)

TurnsBehind ==
    /\ turns \in [Levels -> [Run -> SUBSET Run]]
    /\ \A l \in Levels : \A w \in Run : \A s \in turns[l][w] :
          Behind(w, cursor[l], s)

LEMMA CircleTurns ==
    ASSUME NEW w \in Nat, NEW c \in Nat, NEW n \in Nat, n # w,
           Follows(c, n, w)
    PROVE  /\ Behind(w, n, n)
           /\ \A s \in Nat : Behind(w, c, s) => Behind(w, n, s) /\ s # n
  BY DEF Follows, Behind

LEMMA RotationStepsAreSteps ==
    /\ FairInit => Init
    /\ [FairNext]_allVars => [Next]_vars
  <1>1. OtherStep => Next
    BY CardsAssumption DEF OtherStep, Next, Levels, Kinds
  <1>2. (\E p \in Principal : TakeTurn(p)) => Next
    BY DEF TakeTurn, Next
  <1> QED
    BY <1>1, <1>2 DEF FairInit, FairNext, allVars

(* Who waits and was not served keeps what it saw, the served run added. *)
LEMMA TurnCounts ==
    ASSUME NEW level \in Levels, NEW served \in SUBSET Run,
           turns \in [Levels -> [Run -> SUBSET Run]], Turn(level, served)
    PROVE  /\ turns' \in [Levels -> [Run -> SUBSET Run]]
           /\ \A l \in Levels, w \in Run : \A s \in turns'[l][w] :
                 /\ Waiting(l, w) /\ w \notin served
                 /\ s \in turns[l][w] \/ (l = level /\ s \in served)
  BY DEF Turn

LEMMA OthersKeepTurnsBehind ==
    ASSUME TurnsBehind, OtherStep
    PROVE  TurnsBehind'
  <1>1. cursor' = cursor
    BY DEF OtherStep, Take, Signal, TickReviews, TickReturns, Rejection, Restart, Open,
           Consume, LateRequest, AcceptRisk, Reject, Annotate, Release, Defer,
           Resolve, ExpireRuns
  <1>2. Turn("warning", {}) /\ "warning" \in Levels
    BY DEF OtherStep, Levels
  <1>3. turns \in [Levels -> [Run -> SUBSET Run]]
    BY DEF TurnsBehind
  <1>4. {} \in SUBSET Run
    OBVIOUS
  <1>5. /\ turns' \in [Levels -> [Run -> SUBSET Run]]
        /\ \A l \in Levels, w \in Run : \A s \in turns'[l][w] :
              s \in turns[l][w]
    BY <1>2, <1>3, <1>4, TurnCounts
  <1> QED
    BY <1>1, <1>5 DEF TurnsBehind

(* The run that is served, against one that waits at its level. *)
LEMMA ServedIsNext ==
    ASSUME IInv, TurnsBehind, NEW p \in Principal, TakeTurn(p)
    PROVE  /\ BestLevel \in Levels /\ reviews[NextOpen].run \in Run
           /\ cursor' = [cursor EXCEPT ![BestLevel] = reviews[NextOpen].run]
           /\ \A w \in Run :
                 Waiting(BestLevel, w) /\ w # reviews[NextOpen].run =>
                    /\ Behind(w, reviews[NextOpen].run, reviews[NextOpen].run)
                    /\ \A s \in turns[BestLevel][w] :
                          /\ Behind(w, reviews[NextOpen].run, s)
                          /\ s # reviews[NextOpen].run
  <1> DEFINE n == reviews[NextOpen].run
             c == cursor[BestLevel]
  <1>1. BestLevel \in Levels
    BY DEF BestLevel, Levels
  <1>2. /\ NextOpen \in ReviewId /\ NextOpen \in AtLevel(BestLevel)
        /\ \A id \in AtLevel(BestLevel) : Follows(c, n, reviews[id].run)
    BY NextOpenIsACard DEF TakeTurn, ClaimNext
  <1>3. n \in Run /\ c \in Run \cup {0} /\ Run \subseteq Nat
    BY <1>1, <1>2, CardIsGood, ReviewFields, CursorFits, QueueAssumption
    DEF Good
  <1>4. cursor' = [cursor EXCEPT ![BestLevel] = n]
    BY <1>2 DEF TakeTurn, ClaimNext, Claim, AtLevel
  <1>5. ASSUME NEW w \in Run, Waiting(BestLevel, w), w # n
        PROVE  /\ Behind(w, n, n)
               /\ \A s \in turns[BestLevel][w] : Behind(w, n, s) /\ s # n
    <2>1. Follows(c, n, w)
      BY <1>2, <1>5 DEF Waiting
    <2>2. \A s \in turns[BestLevel][w] : s \in Nat /\ Behind(w, c, s)
      BY <1>1, <1>3 DEF TurnsBehind
    <2>3. w \in Nat /\ c \in Nat /\ n \in Nat
      BY <1>3, RunsAreNumbers
    <2> HIDE DEF n, c
    <2> QED
      BY <1>5, <2>1, <2>2, <2>3, CircleTurns
  <1> QED
    BY <1>1, <1>3, <1>4, <1>5

LEMMA ServingKeepsTurnsBehind ==
    ASSUME IInv, TurnsBehind, NEW p \in Principal, TakeTurn(p)
    PROVE  TurnsBehind'
  <1>1. PICK n : n = reviews[NextOpen].run
    OBVIOUS
  <1>2. PICK level : level = BestLevel
    OBVIOUS
  <1>3. /\ level \in Levels /\ n \in Run
        /\ cursor' = [cursor EXCEPT ![level] = n]
        /\ \A w \in Run : Waiting(level, w) /\ w # n =>
              /\ Behind(w, n, n)
              /\ \A s \in turns[level][w] : Behind(w, n, s)
    BY <1>1, <1>2, ServedIsNext
  <1>4. Turn(level, {n})
    BY <1>1, <1>2 DEF TakeTurn
  <1>5. /\ turns' \in [Levels -> [Run -> SUBSET Run]]
        /\ \A l \in Levels, w \in Run : \A s \in turns'[l][w] :
              /\ Waiting(l, w) /\ w # n
              /\ s \in turns[l][w] \/ (l = level /\ s = n)
    BY <1>3, <1>4, TurnCounts DEF TurnsBehind
  <1>6. cursor \in [Levels -> Run \cup {0}]
    BY CursorFits
  <1>7. ASSUME NEW l \in Levels, NEW w \in Run, NEW s \in turns'[l][w]
        PROVE  Behind(w, cursor'[l], s)
    <2>1. CASE l = level
      BY <1>3, <1>5, <1>6, <2>1
    <2>2. CASE l # level
      BY <1>3, <1>5, <1>6, <2>2 DEF TurnsBehind
    <2> QED
      BY <2>1, <2>2
  <1> QED
    BY <1>5, <1>7 DEF TurnsBehind

(* reviews.claim without an id serves no run twice at a level while        *)
(* another one waits there for its first turn.                             *)
THEOREM NobodyIsPassedTwice == RotationSpec => NoSecondTurn
  <1>1. RotationSpec => []IInv
    <2>1. FairInit => IInv
      BY RotationStepsAreSteps, InitFits
    <2>2. IInv /\ [FairNext]_allVars => IInv'
      BY RotationStepsAreSteps, StepFits, FitsIsInductive
    <2> QED
      BY <2>1, <2>2, PTL DEF RotationSpec
  <1>2. FairInit => TurnsBehind
    BY DEF FairInit, NoTurns, TurnsBehind
  <1>3. IInv /\ TurnsBehind /\ [FairNext]_allVars => TurnsBehind'
    <2>1. CASE UNCHANGED allVars
      BY <2>1 DEF allVars, vars, TurnsBehind
    <2> QED
      BY <2>1, OthersKeepTurnsBehind, ServingKeepsTurnsBehind DEF FairNext
  <1>4. IInv /\ TurnsBehind /\ [FairNext]_allVars =>
          [\A p \in Principal : TakeTurn(p) =>
             \A run \in Run :
                (Waiting(BestLevel, run) /\ run # reviews[NextOpen].run)
                   => reviews[NextOpen].run \notin turns[BestLevel][run]]_allVars
    BY ServedIsNext
  <1> QED
    BY <1>1, <1>2, <1>3, <1>4, PTL DEF RotationSpec, NoSecondTurn

=============================================================================
