---------------------------- MODULE ReviewsProofs ----------------------------
(***************************************************************************)
(* Lemmas about the cards of Reviews: what each transition does to a       *)
(* record, field by field, and that it keeps a card sound.                 *)
(***************************************************************************)
EXTENDS Reviews, TLAPS

Field == {"state", "revision", "run", "kind", "level", "due", "owner",
          "lease", "wake", "until"}
State == ActiveStates \cup TerminalStates \cup {"ABSENT"}
Record(x) == x = [f \in Field |-> x[f]]

(* A card whose owner and deadlines fit its state; see ReviewQueue. *)
Sound(r) ==
    /\ r.state \in {"OPEN", "DEFERRED"} => r.owner = NoOwner /\ r.lease = 0
    /\ r.state \in {"CLAIMED", "ACCEPTED"} => r.owner \in Principal
    /\ r.state = "CLAIMED" => r.lease <= r.due
    /\ r.state = "ACCEPTED" => r.until <= r.due
    /\ r.state = "DEFERRED" => r.wake < r.due

Good(r) == r \in Review /\ Sound(r)

(* x is the card r after one transition: the fields that can change. *)
Becomes(r, x, state, owner, lease, wake, until) ==
    /\ Record(x)
    /\ x.state = state /\ x.revision = r.revision + 1
    /\ x.run = r.run /\ x.kind = r.kind /\ x.level = r.level /\ x.due = r.due
    /\ x.owner = owner /\ x.lease = lease /\ x.wake = wake /\ x.until = until

(* A record with all its fields in range is a review, and conversely. *)
LEMMA ReviewFromFields ==
    ASSUME NEW x, Record(x), x.state \in State, x.revision \in Nat,
           x.run \in Run, x.kind \in Kinds, x.level \in Levels, x.due \in Nat,
           x.owner \in Principal \cup {NoOwner}, x.lease \in Nat,
           x.wake \in Nat, x.until \in Nat
    PROVE  x \in Review
  BY DEF Review, State, Record, Field

LEMMA ReviewFields ==
    ASSUME NEW x \in Review
    PROVE  /\ Record(x)
           /\ x.state \in State /\ x.revision \in Nat /\ x.run \in Run
           /\ x.kind \in Kinds /\ x.level \in Levels /\ x.due \in Nat
           /\ x.owner \in Principal \cup {NoOwner}
           /\ x.lease \in Nat /\ x.wake \in Nat /\ x.until \in Nat
  BY DEF Review, State, Record, Field

LEMMA BecomesReview ==
    ASSUME NEW r \in Review, NEW x, NEW state \in State,
           NEW owner \in Principal \cup {NoOwner},
           NEW lease \in Nat, NEW wake \in Nat, NEW until \in Nat,
           Becomes(r, x, state, owner, lease, wake, until)
    PROVE  x \in Review
  BY ReviewFields, ReviewFromFields DEF Becomes

-----------------------------------------------------------------------------
(* The transitions, field by field. *)

LEMMA ExpiredFields ==
    ASSUME NEW r, Record(r)
    PROVE  Becomes(r, Expired(r), "EXPIRED", NoOwner, 0, r.wake, r.until)
  BY DEF Becomes, Record, Field, Expired

LEMMA ReleasedFields ==
    ASSUME NEW r, Record(r)
    PROVE  Becomes(r, Released(r), "OPEN", NoOwner, 0, r.wake, r.until)
  BY DEF Becomes, Record, Field, Released

LEMMA WokenFields ==
    ASSUME NEW r, Record(r)
    PROVE  Becomes(r, Woken(r), "OPEN", r.owner, r.lease, 0, r.until)
  BY DEF Becomes, Record, Field, Woken

LEMMA ConsumedFields ==
    ASSUME NEW r, Record(r)
    PROVE  Becomes(r, Consumed(r), "CONSUMED", r.owner, r.lease, r.wake, r.until)
  BY DEF Becomes, Record, Field, Consumed

LEMMA RejectedFields ==
    ASSUME NEW r, Record(r)
    PROVE  Becomes(r, Rejected(r), "REJECTED", r.owner, r.lease, r.wake, r.until)
  BY DEF Becomes, Record, Field, Rejected

LEMMA ClosedFields ==
    ASSUME NEW r, Record(r)
    PROVE  Becomes(r, Closed(r), "CLOSED", r.owner, r.lease, r.wake, r.until)
  BY DEF Becomes, Record, Field, Closed

LEMMA ClaimedFields ==
    ASSUME NEW r, Record(r), NEW p, NEW t, NEW ms
    PROVE  Becomes(r, Claimed(r, p, t, ms), "CLAIMED", p,
                   Least(t + ms, r.due), r.wake, r.until)
  BY DEF Becomes, Record, Field, Claimed

LEMMA AcceptedFields ==
    ASSUME NEW r, Record(r), NEW t, NEW ms
    PROVE  Becomes(r, Accepted(r, t, ms), "ACCEPTED", r.owner, r.lease, r.wake,
                   Least(t + ms, r.due))
  BY DEF Becomes, Record, Field, Accepted

LEMMA DeferredFields ==
    ASSUME NEW r, Record(r), NEW w
    PROVE  Becomes(r, Deferred(r, w), "DEFERRED", NoOwner, 0, w, r.until)
  BY DEF Becomes, Record, Field, Deferred

-----------------------------------------------------------------------------
(* The transitions keep a card sound. *)

LEMMA LeastIsLeast ==
    ASSUME NEW m \in Nat, NEW n \in Nat
    PROVE  Least(m, n) \in Nat /\ Least(m, n) <= n
  BY DEF Least

(* An id nobody opened, and a card just opened. *)
LEMMA NewCardIsGood ==
    ASSUME NEW run \in Run, NEW kind \in Kinds, NEW level \in Levels,
           NEW due \in Nat
    PROVE  Good(NoReview) /\ Good(Opened(run, kind, level, due))
  <1>1. NoReview \in Review /\ NoReview.state = "ABSENT"
    BY RunAssumption, OwnerAssumption
    DEF NoReview, Review, ActiveStates, TerminalStates, Kinds, Levels
  <1> DEFINE x == Opened(run, kind, level, due)
  <1>2. Record(x) /\ x.state = "OPEN" /\ x.revision = 1 /\ x.run = run
          /\ x.kind = kind /\ x.level = level /\ x.due = due
          /\ x.owner = NoOwner /\ x.lease = 0 /\ x.wake = 0 /\ x.until = 0
    BY DEF Opened, NoReview, Record, Field
  <1>3. x \in Review
    BY <1>2, ReviewFromFields DEF State, ActiveStates
  <1> QED
    BY <1>1, <1>2, <1>3 DEF Good, Sound

LEMMA ExpiredIsGood ==
    ASSUME NEW r, Good(r)
    PROVE  Good(Expired(r))
  <1>1. Becomes(r, Expired(r), "EXPIRED", NoOwner, 0, r.wake, r.until)
    BY ReviewFields, ExpiredFields DEF Good
  <1>2. Expired(r) \in Review
    BY <1>1, ReviewFields, BecomesReview DEF Good, State, TerminalStates
  <1> QED
    BY <1>1, <1>2 DEF Good, Sound, Becomes

LEMMA ReleasedIsGood ==
    ASSUME NEW r, Good(r)
    PROVE  Good(Released(r))
  <1>1. Becomes(r, Released(r), "OPEN", NoOwner, 0, r.wake, r.until)
    BY ReviewFields, ReleasedFields DEF Good
  <1>2. Released(r) \in Review
    BY <1>1, ReviewFields, BecomesReview DEF Good, State, ActiveStates
  <1> QED
    BY <1>1, <1>2 DEF Good, Sound, Becomes

LEMMA WokenIsGood ==
    ASSUME NEW r, Good(r), r.state = "DEFERRED"
    PROVE  Good(Woken(r))
  <1>1. Becomes(r, Woken(r), "OPEN", r.owner, r.lease, 0, r.until)
    BY ReviewFields, WokenFields DEF Good
  <1>2. Woken(r) \in Review
    BY <1>1, ReviewFields, BecomesReview DEF Good, State, ActiveStates
  <1> QED
    BY <1>1, <1>2 DEF Good, Sound, Becomes

(* The end of an acceptance, and the resolutions that are final. *)
LEMMA FinalIsGood ==
    ASSUME NEW r, Good(r), NEW x,
           NEW state \in {"CONSUMED", "REJECTED", "CLOSED"},
           Becomes(r, x, state, r.owner, r.lease, r.wake, r.until)
    PROVE  Good(x)
  <1>1. x \in Review
    BY ReviewFields, BecomesReview DEF Good, State, TerminalStates
  <1> QED
    BY <1>1 DEF Good, Sound, Becomes

LEMMA ClaimedIsGood ==
    ASSUME NEW r, Good(r), NEW p \in Principal, NEW t \in Nat, NEW ms \in Nat
    PROVE  Good(Claimed(r, p, t, ms))
  <1> DEFINE lease == Least(t + ms, r.due)
  <1>1. Becomes(r, Claimed(r, p, t, ms), "CLAIMED", p, lease, r.wake, r.until)
    BY ReviewFields, ClaimedFields DEF Good
  <1>2. lease \in Nat /\ lease <= r.due
    BY ReviewFields, LeastIsLeast DEF Good
  <1> HIDE DEF lease
  <1>3. Claimed(r, p, t, ms) \in Review
    BY <1>1, <1>2, ReviewFields, BecomesReview DEF Good, State, ActiveStates
  <1> QED
    BY <1>1, <1>2, <1>3 DEF Good, Sound, Becomes

LEMMA AcceptedIsGood ==
    ASSUME NEW r, Good(r), r.owner \in Principal, NEW t \in Nat, NEW ms \in Nat
    PROVE  Good(Accepted(r, t, ms))
  <1> DEFINE until == Least(t + ms, r.due)
  <1>1. Becomes(r, Accepted(r, t, ms), "ACCEPTED", r.owner, r.lease, r.wake,
                until)
    BY ReviewFields, AcceptedFields DEF Good
  <1>2. until \in Nat /\ until <= r.due
    BY ReviewFields, LeastIsLeast DEF Good
  <1> HIDE DEF until
  <1>3. Accepted(r, t, ms) \in Review
    BY <1>1, <1>2, ReviewFields, BecomesReview DEF Good, State, ActiveStates
  <1> QED
    BY <1>1, <1>2, <1>3 DEF Good, Sound, Becomes

LEMMA DeferredIsGood ==
    ASSUME NEW r, Good(r), NEW w \in Nat, w < r.due
    PROVE  Good(Deferred(r, w))
  <1>1. Becomes(r, Deferred(r, w), "DEFERRED", NoOwner, 0, w, r.until)
    BY ReviewFields, DeferredFields DEF Good
  <1>2. Deferred(r, w) \in Review
    BY <1>1, ReviewFields, BecomesReview DEF Good, State, ActiveStates
  <1> QED
    BY <1>1, <1>2 DEF Good, Sound, Becomes

-----------------------------------------------------------------------------
(***************************************************************************)
(* A tick fires at most one timer of a card: the card stays as it is, or   *)
(* expires, or is released, or wakes up, and no timer is due afterwards.   *)
(***************************************************************************)
LEMMA TickFiresOnce ==
    ASSUME NEW r, Good(r), NEW t \in Nat
    PROVE  \/ /\ Ticked(r, t) = r
              /\ ~PastDue(r, t) /\ ~Lapsed(r, t) /\ ~WakeDue(r, t)
           \/ PastDue(r, t) /\ Ticked(r, t) = Expired(r)
           \/ Lapsed(r, t) /\ ~PastDue(r, t) /\ Ticked(r, t) = Released(r)
           \/ WakeDue(r, t) /\ ~PastDue(r, t) /\ Ticked(r, t) = Woken(r)
  <1>1. CASE PastDue(r, t)
    <2>1. Expired(r).state = "EXPIRED"
      BY ReviewFields, ExpiredFields DEF Good, Becomes
    <2> QED
      BY <1>1, <2>1 DEF Ticked, AfterDue, AfterLease, AfterWake, Lapsed, WakeDue
  <1>2. CASE ~PastDue(r, t) /\ Lapsed(r, t)
    <2>1. Released(r).state = "OPEN"
      BY ReviewFields, ReleasedFields DEF Good, Becomes
    <2> QED
      BY <1>2, <2>1 DEF Ticked, AfterDue, AfterLease, AfterWake, WakeDue
  <1>3. CASE ~PastDue(r, t) /\ ~Lapsed(r, t)
    BY <1>3 DEF Ticked, AfterDue, AfterLease, AfterWake
  <1> QED
    BY <1>1, <1>2, <1>3

LEMMA TickIsGood ==
    ASSUME NEW r, Good(r), NEW t \in Nat
    PROVE  Good(Ticked(r, t))
  BY TickFiresOnce, ExpiredIsGood, ReleasedIsGood, WokenIsGood DEF WakeDue

LEMMA TickSettles ==
    ASSUME NEW r, Good(r), NEW t \in Nat
    PROVE  LET x == Ticked(r, t) IN
           ~PastDue(x, t) /\ ~Lapsed(x, t) /\ ~WakeDue(x, t)
  <1>1. Becomes(r, Expired(r), "EXPIRED", NoOwner, 0, r.wake, r.until)
    BY ReviewFields, ExpiredFields DEF Good
  <1>2. Becomes(r, Released(r), "OPEN", NoOwner, 0, r.wake, r.until)
    BY ReviewFields, ReleasedFields DEF Good
  <1>3. Becomes(r, Woken(r), "OPEN", r.owner, r.lease, 0, r.until)
    BY ReviewFields, WokenFields DEF Good
  <1>4. r.due \in Nat
    BY ReviewFields DEF Good
  <1> QED
    BY <1>1, <1>2, <1>3, <1>4, TickFiresOnce
    DEF Becomes, PastDue, Lapsed, WakeDue, IsActive, ActiveStates

LEMMA TickCountsOnce ==
    ASSUME NEW r, Good(r), NEW t \in Nat, Ticked(r, t) # r
    PROVE  Ticked(r, t).revision = r.revision + 1
  BY TickFiresOnce, ReviewFields, ExpiredFields, ReleasedFields, WokenFields
  DEF Good, Becomes

-----------------------------------------------------------------------------
(***************************************************************************)
(* Each transition is a move in the life of a card, as CardLife has it.    *)
(***************************************************************************)
Seen == INSTANCE CardLife WITH
    CardId <- {}, Reviewer <- Principal, Nobody <- NoOwner, cards <- << >>

Lives(r, x) == View(x) = View(r) \/ Seen!Move(View(r), View(x))

LEMMA ViewFields ==
    ASSUME NEW r
    PROVE  /\ View(r).state = r.state /\ View(r).revision = r.revision
           /\ View(r).owner = r.owner /\ View(r).kind = r.kind
           /\ Good(r) => View(r) \in Seen!Card
  <1>1. Good(r) => View(r) \in Seen!Card
    BY ReviewFields
    DEF View, Seen!Card, Seen!States, Good, State, ActiveStates, TerminalStates,
        Kinds, Levels
  <1> QED
    BY <1>1 DEF View

LEMMA ViewBecomes ==
    ASSUME NEW r, NEW x, NEW state, NEW owner, NEW lease, NEW wake, NEW until,
           Becomes(r, x, state, owner, lease, wake, until)
    PROVE  View(x) = Seen!Changed(View(r), state, owner)
  BY DEF Becomes, View, Seen!Changed

LEMMA TimersLive ==
    ASSUME NEW r, Good(r)
    PROVE  /\ r.state # "ABSENT" => Lives(r, Expired(r))
           /\ r.state = "CLAIMED" => Lives(r, Released(r))
           /\ r.state = "DEFERRED" => Lives(r, Woken(r))
  <1>1. Record(r)
    BY ReviewFields DEF Good
  <1>2. /\ View(Expired(r)) = Seen!Changed(View(r), "EXPIRED", NoOwner)
        /\ View(Released(r)) = Seen!Changed(View(r), "OPEN", NoOwner)
    BY <1>1, ExpiredFields, ReleasedFields, ViewBecomes
  <1>3. r.state = "DEFERRED" =>
            View(Woken(r)) = Seen!Changed(View(r), "OPEN", NoOwner)
    BY <1>1, WokenFields, ViewBecomes DEF Good, Sound
  <1>4. r.state # "ABSENT" => Seen!Expires(View(r), View(Expired(r)))
    BY <1>2, ViewFields DEF Seen!Expires
  <1>5. r.state = "CLAIMED" => Seen!Frees(View(r), View(Released(r)))
    BY <1>2, ViewFields DEF Seen!Frees
  <1>6. r.state = "DEFERRED" => Seen!Frees(View(r), View(Woken(r)))
    BY <1>3, ViewFields DEF Seen!Frees
  <1> QED
    BY <1>4, <1>5, <1>6 DEF Lives, Seen!Move

LEMMA TickLives ==
    ASSUME NEW r, Good(r), NEW t \in Nat
    PROVE  Lives(r, Ticked(r, t))
  BY TickFiresOnce, TimersLive
  DEF Lives, PastDue, Lapsed, WakeDue, IsActive, ActiveStates

LEMMA ClaimLives ==
    ASSUME NEW r, Good(r), NEW p \in Principal, NEW t, NEW ms, Claimable(r, p)
    PROVE  Lives(r, Claimed(r, p, t, ms))
  <1>1. View(Claimed(r, p, t, ms)) = Seen!Changed(View(r), "CLAIMED", p)
    BY ReviewFields, ClaimedFields, ViewBecomes DEF Good
  <1>2. Seen!Claims(View(r), View(Claimed(r, p, t, ms)))
    BY <1>1, ViewFields DEF Seen!Claims, Claimable
  <1> QED
    BY <1>2 DEF Lives, Seen!Move

LEMMA AnswersLive ==
    ASSUME NEW r, Good(r), r.state = "CLAIMED", NEW t, NEW ms, NEW w
    PROVE  /\ r.kind = "blocking" => /\ Lives(r, Accepted(r, t, ms))
                                     /\ Lives(r, Rejected(r))
           /\ r.kind = "trailing" => Lives(r, Closed(r))
           /\ Lives(r, Deferred(r, w))
  <1>1. Record(r)
    BY ReviewFields DEF Good
  <1>2. /\ View(Accepted(r, t, ms)) = Seen!Changed(View(r), "ACCEPTED", r.owner)
        /\ View(Rejected(r)) = Seen!Changed(View(r), "REJECTED", r.owner)
        /\ View(Closed(r)) = Seen!Changed(View(r), "CLOSED", r.owner)
        /\ View(Deferred(r, w)) = Seen!Changed(View(r), "DEFERRED", NoOwner)
    BY <1>1, AcceptedFields, RejectedFields, ClosedFields, DeferredFields,
       ViewBecomes
  <1>3. r.kind = "blocking" =>
            /\ Seen!Answers(View(r), View(Accepted(r, t, ms)))
            /\ Seen!Answers(View(r), View(Rejected(r)))
    BY <1>2, ViewFields DEF Seen!Answers
  <1>4. r.kind = "trailing" => Seen!Answers(View(r), View(Closed(r)))
    BY <1>2, ViewFields DEF Seen!Answers
  <1>5. Seen!Defers(View(r), View(Deferred(r, w)))
    BY <1>2, ViewFields DEF Seen!Defers
  <1> QED
    BY <1>3, <1>4, <1>5 DEF Lives, Seen!Move

LEMMA SpendingLives ==
    ASSUME NEW r, Good(r), r.state = "ACCEPTED"
    PROVE  Lives(r, Consumed(r))
  <1>1. View(Consumed(r)) = Seen!Changed(View(r), "CONSUMED", r.owner)
    BY ReviewFields, ConsumedFields, ViewBecomes DEF Good
  <1>2. Seen!Spends(View(r), View(Consumed(r)))
    BY <1>1, ViewFields DEF Seen!Spends
  <1> QED
    BY <1>2 DEF Lives, Seen!Move

LEMMA OpeningLives ==
    ASSUME NEW r, r.state = "ABSENT", NEW run, NEW kind, NEW level, NEW due
    PROVE  Lives(r, Opened(run, kind, level, due))
  <1> DEFINE x == Opened(run, kind, level, due)
  <1>1. x.state = "OPEN" /\ x.revision = 1 /\ x.owner = NoOwner
    BY DEF Opened, NoReview
  <1>2. Seen!Opens(View(r), View(x))
    BY <1>1, ViewFields DEF Seen!Opens
  <1> QED
    BY <1>2 DEF Lives, Seen!Move

LEMMA LivingKeepsKind ==
    ASSUME NEW r, NEW x, Lives(r, x), r.state # "ABSENT"
    PROVE  x.kind = r.kind
  BY ViewFields
  DEF Lives, Seen!Move, Seen!Opens, Seen!Claims, Seen!Frees, Seen!Defers,
      Seen!Answers, Seen!Spends, Seen!Expires, Seen!Changed

=============================================================================
