---------------------------- MODULE ReviewQueue -----------------------------
(***************************************************************************)
(* The human remainder queue: reviews.claim and reviews.resolve of         *)
(* methods.rs against the timers of daemon.rs, under the request cycle of  *)
(* Daemon.  Reviewers race each other, the clock (hard due, claim lease,   *)
(* deferral, acceptance window), the checks that open and consume reviews, *)
(* the runs that expire them, and restarts.                                *)
(*                                                                         *)
(* The reviews are numbered in order of creation, so an id also stands for *)
(* created_seq; run ids are numbers, standing for their string order.      *)
(***************************************************************************)
EXTENDS Reviews, Daemon, FiniteSets

CONSTANTS
    MaxReviews,     \* bound: how many reviews are ever opened
    MaxRevision,    \* bound: client requests on a review beyond it are cut
    ReviewTtl,      \* policy: review_ttl_ms
    ClaimLease,     \* policy: claim_lease_ms
    ReviewAccept    \* policy: review_accept_ms

ASSUME QueueAssumption ==
    /\ MaxReviews \in Nat
    /\ MaxRevision \in Nat
    /\ ReviewTtl \in Nat
    /\ ClaimLease \in Nat
    /\ ReviewAccept \in Nat
    /\ Run \subseteq Nat \ {0}
ASSUME StepAssumption == FirstStep = "reviews"

VARIABLES
    reviews,    \* review id -> record
    cursor      \* level -> the run last served at it, 0 before the first

vars == <<now, phase, after, reviews, cursor>>

ReviewId == 1 .. MaxReviews

TypeOK ==
    /\ CycleTypeOK({"reviews", "checks"})
    /\ reviews \in [ReviewId -> Review]
    /\ cursor \in [Levels -> Run \cup {0}]

Init ==
    /\ CycleInit
    /\ reviews = [id \in ReviewId |-> NoReview]
    /\ cursor = [l \in Levels |-> 0]

Put(id, r) == reviews' = [reviews EXCEPT ![id] = r]

-----------------------------------------------------------------------------
(* tick() *)

TickReviews ==
    /\ NextStep("reviews", "checks")
    /\ reviews' = [id \in ReviewId |-> Ticked(reviews[id], now)]
    /\ UNCHANGED cursor

(***************************************************************************)
(* A finalized check opens a blocking review, an alert a trailing one.     *)
(***************************************************************************)
Open(id, run, kind, level) ==
    /\ phase = "checks"
    /\ reviews[id].state = "ABSENT"
    /\ \A older \in 1 .. (id - 1) : reviews[older].state # "ABSENT"
    /\ kind = "blocking" => level = "warning"
    /\ Put(id, Opened(run, kind, level, now + ReviewTtl))
    /\ UNCHANGED <<now, phase, after, cursor>>

(* A finalized check consumes the acceptance it was given. *)
Consume(id) ==
    /\ phase = "checks"
    /\ Spendable(reviews[id], now)
    /\ Put(id, Consumed(reviews[id]))
    /\ UNCHANGED <<now, phase, after, cursor>>

TickReturns == TickDone("checks") /\ UNCHANGED <<reviews, cursor>>

-----------------------------------------------------------------------------
(* The queue position of reviews.claim without an id. *)

OpenIds == {id \in ReviewId : reviews[id].state = "OPEN"}

AtLevel(l) == {id \in OpenIds : reviews[id].level = l}

BestLevel == IF AtLevel("critical") # {} THEN "critical" ELSE "warning"

(* Sorted by run, then by creation: the first of them. *)
FirstOf(ids) ==
    CHOOSE id \in ids : \A other \in ids :
        \/ reviews[id].run < reviews[other].run
        \/ reviews[id].run = reviews[other].run /\ id <= other

(* Mutant: the queue without a cursor. *)
FirstOpen == FirstOf(AtLevel(BestLevel))

(* The first of the runs after the one last served, or of all, wrapping. *)
NextOpen ==
    LET items == AtLevel(BestLevel)
        later == {id \in items : reviews[id].run > cursor[BestLevel]}
    IN  FirstOf(IF later # {} THEN later ELSE items)

-----------------------------------------------------------------------------
(***************************************************************************)
(* dispatch(), one request.  A request carries the revision its client     *)
(* read (expected_revision); one that is not current is rejected, so what  *)
(* is left is the request with the current one.                            *)
(***************************************************************************)
Rejection == HandlerDone /\ UNCHANGED <<reviews, cursor>>

InBounds(id) ==
    reviews[id].state # "ABSENT" /\ reviews[id].revision < MaxRevision

(***************************************************************************)
(* The boundary comes first: at or past the due, a claim or a resolution   *)
(* expires the card.  A resolution of a claim whose lease has run out      *)
(* releases it (in watchd's cycle the tick before it already has).         *)
(***************************************************************************)
LateRequest(id) ==
    LET r == reviews[id] IN
    /\ HandlerDone
    /\ InBounds(id)
    /\ r.due <= now \/ Lapsed(r, now)
    /\ Put(id, IF r.due <= now THEN Expired(r) ELSE Released(r))
    /\ UNCHANGED cursor

(* Mutant: the cursor remembers who claimed, not the run. *)
ClaimServingReviewer(p, id) ==
    /\ HandlerDone
    /\ InBounds(id)
    /\ now < reviews[id].due
    /\ Claimable(reviews[id], p)
    /\ Put(id, Claimed(reviews[id], p, now, ClaimLease))
    /\ cursor' = [cursor EXCEPT ![reviews[id].level] = p]

Claim(p, id) ==
    /\ HandlerDone
    /\ InBounds(id)
    /\ now < reviews[id].due
    /\ Claimable(reviews[id], p)
    /\ Put(id, Claimed(reviews[id], p, now, ClaimLease))
    /\ cursor' = [cursor EXCEPT ![reviews[id].level] = reviews[id].run]

ClaimNext(p) == OpenIds # {} /\ Claim(p, NextOpen)

Resolve(p, id, kind, resolved) ==
    /\ HandlerDone
    /\ InBounds(id)
    /\ HeldBy(reviews[id], p, now)
    /\ reviews[id].kind \in kind
    /\ Put(id, resolved)
    /\ UNCHANGED cursor

AcceptRisk(p, id) ==
    Resolve(p, id, {"blocking"}, Accepted(reviews[id], now, ReviewAccept))
Reject(p, id) == Resolve(p, id, {"blocking"}, Rejected(reviews[id]))
Annotate(p, id) == Resolve(p, id, {"trailing"}, Closed(reviews[id]))
Release(p, id) == Resolve(p, id, Kinds, Released(reviews[id]))
Defer(p, id) ==
    \E w \in (now + 1) .. (reviews[id].due - 1) :
        Resolve(p, id, Kinds, Deferred(reviews[id], w))

(***************************************************************************)
(* Closing or quarantining a run expires its reviews; activating a policy  *)
(* those of every OPEN run.                                                *)
(***************************************************************************)
ExpireRuns(runs) ==
    /\ HandlerDone
    /\ reviews' = [id \in ReviewId |->
                      IF IsActive(reviews[id]) /\ reviews[id].run \in runs
                      THEN Expired(reviews[id]) ELSE reviews[id]]
    /\ UNCHANGED cursor

(***************************************************************************)
(* The process dies at any point and starts again: no active review        *)
(* survives.  The clock goes on, or starts over with the machine.          *)
(***************************************************************************)
Restart ==
    /\ now' \in 1 .. MaxNow
    /\ phase' = "idle" /\ after' = "idle"
    /\ reviews' = [id \in ReviewId |->
                      IF IsActive(reviews[id]) THEN Expired(reviews[id])
                                               ELSE reviews[id]]
    /\ UNCHANGED cursor

Take == Acquire /\ UNCHANGED <<reviews, cursor>>

Signal == Signalled /\ UNCHANGED <<reviews, cursor>>

Next ==
    \/ Take \/ Signal \/ TickReviews \/ TickReturns \/ Rejection \/ Restart
    \/ \E id \in ReviewId :
          \/ \E run \in Run, kind \in Kinds, l \in Levels : Open(id, run, kind, l)
          \/ Consume(id) \/ LateRequest(id)
          \/ \E p \in Principal :
                \/ Claim(p, id) \/ AcceptRisk(p, id) \/ Reject(p, id)
                \/ Annotate(p, id) \/ Release(p, id) \/ Defer(p, id)
    \/ \E p \in Principal : ClaimNext(p)
    \/ \E runs \in SUBSET Run \ {{}} : ExpireRuns(runs)

Spec == Init /\ [][Next]_vars

(***************************************************************************)
(* A cycle is straight-line code under the lock: it always ends.  And      *)
(* requests keep coming as time passes; without them no timer ever fires.  *)
(***************************************************************************)
Fairness ==
    /\ WF_vars(TickReviews \/ TickReturns \/ Rejection)
    /\ SF_vars(Take /\ now' > now)

FairSpec == Spec /\ Fairness

-----------------------------------------------------------------------------
(* Properties *)

(***************************************************************************)
(* The deadlines of a card are nested and its owner is known exactly while *)
(* somebody answers for it: a lease, a wake or an acceptance never reaches *)
(* past the hard due, an OPEN or DEFERRED card has no owner, a CLAIMED or  *)
(* ACCEPTED one has.                                                       *)
(***************************************************************************)
WellFormed ==
    \A id \in ReviewId : LET r == reviews[id] IN
        /\ r.state \in {"OPEN", "DEFERRED"} => r.owner = NoOwner /\ r.lease = 0
        /\ r.state \in {"CLAIMED", "ACCEPTED"} => r.owner \in Principal
        /\ r.state = "CLAIMED" => r.lease <= r.due
        /\ r.state = "ACCEPTED" => r.until <= r.due
        /\ r.state = "DEFERRED" => r.wake < r.due

(***************************************************************************)
(* In watchd's cycle a handler, and a client after it, never sees a timer  *)
(* that should have fired: once tick() has done its reviews, no active     *)
(* card is due, no acceptance or claim has lapsed, no deferral is over.    *)
(***************************************************************************)
TimersSettled ==
    phase # "reviews" =>
        \A id \in ReviewId :
            /\ ~PastDue(reviews[id], now)
            /\ ~Lapsed(reviews[id], now)
            /\ ~WakeDue(reviews[id], now)

(***************************************************************************)
(* A revision names one content of a card: every step that changes a card  *)
(* moves its revision by exactly one, also a tick that runs three timers   *)
(* over it.  The expected_revision of a request rests on it.               *)
(***************************************************************************)
RevisionTracksChange ==
    [][\A id \in ReviewId :
          reviews'[id] # reviews[id] =>
              reviews'[id].revision = reviews[id].revision + 1]_vars

(***************************************************************************)
(* Ownership never moves from one reviewer to another in one step: between *)
(* two owners a card is OPEN or DEFERRED for every client to see.          *)
(***************************************************************************)
OwnershipReleased ==
    [][\A id \in ReviewId :
          /\ reviews[id].state \in {"CLAIMED", "ACCEPTED"}
          /\ reviews'[id].state \in {"CLAIMED", "ACCEPTED"}
          => reviews'[id].owner = reviews[id].owner]_vars

(* What clients are shown of the cards. *)
Shown == [id \in ReviewId |-> View(reviews[id])]

Life == INSTANCE CardLife WITH
    CardId <- ReviewId, Reviewer <- Principal, Nobody <- NoOwner,
    cards <- Shown

(***************************************************************************)
(* A client that has read a card knows what may have become of it since:   *)
(* claims, resolutions, checks, timers and restarts together move it only  *)
(* along the life of CardLife, each move under a revision of its own.      *)
(***************************************************************************)
KeepsLife == Life!Spec

(***************************************************************************)
(* No card stays in the queue for ever: one whose due the clock reaches    *)
(* ends up resolved, consumed or expired.                                  *)
(***************************************************************************)
EventuallyDone ==
    \A id \in ReviewId :
        (IsActive(reviews[id]) /\ reviews[id].due <= MaxNow)
            ~> ~IsActive(reviews[id])

(***************************************************************************)
(* No claim outlives its lease: a CLAIMED card whose lease the clock       *)
(* reaches leaves its owner, or the owner renews or resolves it.           *)
(***************************************************************************)
EventuallyReleased ==
    \A id \in ReviewId : \A t \in 1 .. MaxNow :
        (reviews[id].state = "CLAIMED" /\ reviews[id].lease = t)
            ~> ~(reviews[id].state = "CLAIMED" /\ reviews[id].lease = t)

(***************************************************************************)
(* A rejection is final.  doctor.rs lists REJECTED with the terminal       *)
(* states; a request on the card at or past its due expires it anew.       *)
(***************************************************************************)
RejectionIsFinal ==
    [][\A id \in ReviewId :
          reviews[id].state = "REJECTED" =>
              reviews'[id].state = "REJECTED"]_vars

=============================================================================
