------------------------------ MODULE Reviews -------------------------------
(***************************************************************************)
(* One card of the human remainder queue: the review record of schema.rs   *)
(* and what daemon.rs and methods.rs do to it.  No variables: ReviewQueue  *)
(* and Checks keep functions from review ids to these records.             *)
(*                                                                         *)
(* An id that was never opened has the record NoReview.  Times are ms;     *)
(* 0 stands for the null of an optional time (the clock is never 0).  The  *)
(* basis of a blocking review is that of the check it was opened for and   *)
(* is derived from it in Checks.                                           *)
(***************************************************************************)
EXTENDS Naturals

CONSTANTS
    Run,        \* run ids
    Principal,  \* enrolled reviewers
    NoOwner     \* the null owner

ASSUME RunAssumption == Run # {}
ASSUME OwnerAssumption == NoOwner \notin Principal

ActiveStates == {"OPEN", "CLAIMED", "DEFERRED", "ACCEPTED"}
TerminalStates == {"REJECTED", "EXPIRED", "CONSUMED", "CLOSED"}
Kinds == {"blocking", "trailing"}
Levels == {"critical", "warning"}

Review ==
    [state : ActiveStates \cup TerminalStates \cup {"ABSENT"},
     revision : Nat,
     run : Run,
     kind : Kinds,
     level : Levels,
     due : Nat,
     owner : Principal \cup {NoOwner},
     lease : Nat,
     wake : Nat,
     until : Nat]

Least(m, n) == IF m <= n THEN m ELSE n

NoReview ==
    [state |-> "ABSENT", revision |-> 0, run |-> CHOOSE r \in Run : TRUE,
     kind |-> "blocking", level |-> "warning", due |-> 0, owner |-> NoOwner,
     lease |-> 0, wake |-> 0, until |-> 0]

Opened(run, kind, level, due) ==
    [NoReview EXCEPT !.state = "OPEN", !.revision = 1, !.run = run,
                     !.kind = kind, !.level = level, !.due = due]

(* What a client is shown of a card, its deadlines within the due aside. *)
View(r) ==
    [state |-> r.state, revision |-> r.revision, owner |-> r.owner,
     run |-> r.run, kind |-> r.kind, level |-> r.level, due |-> r.due]

IsActive(r) == r.state \in ActiveStates

-----------------------------------------------------------------------------
(* Transitions every caller shares. *)

Expired(r) ==
    [r EXCEPT !.state = "EXPIRED", !.revision = @ + 1, !.owner = NoOwner,
              !.lease = 0]

Released(r) ==
    [r EXCEPT !.state = "OPEN", !.revision = @ + 1, !.owner = NoOwner,
              !.lease = 0]

(* Mutant: the wake of a deferral does not count as a change. *)
WokenSilently(r) == [r EXCEPT !.state = "OPEN", !.wake = 0]

Woken(r) == [r EXCEPT !.state = "OPEN", !.revision = @ + 1, !.wake = 0]

(* Mutant: a consumed review stays ACCEPTED. *)
ConsumedKept(r) == [r EXCEPT !.revision = @ + 1]

Consumed(r) == [r EXCEPT !.state = "CONSUMED", !.revision = @ + 1]

(***************************************************************************)
(* tick(), steps 2 and 3: the hard due, then the claim lease, then the     *)
(* deferral's wake.  Reviews are independent here, so a pass over all of   *)
(* them is this function of each.                                          *)
(***************************************************************************)
(* Mutant: deferred cards do not fall due. *)
PastDueUnlessDeferred(r, t) ==
    /\ IsActive(r) /\ r.state # "DEFERRED"
    /\ r.due <= t \/ (r.state = "ACCEPTED" /\ r.until <= t)

PastDue(r, t) ==
    /\ IsActive(r)
    /\ r.due <= t \/ (r.state = "ACCEPTED" /\ r.until <= t)
Lapsed(r, t) == r.state = "CLAIMED" /\ r.lease <= t /\ t < r.due
WakeDue(r, t) == r.state = "DEFERRED" /\ r.wake <= t /\ t < r.due

AfterDue(r, t) == IF PastDue(r, t) THEN Expired(r) ELSE r
AfterLease(r, t) == IF Lapsed(r, t) THEN Released(r) ELSE r
AfterWake(r, t) == IF WakeDue(r, t) THEN Woken(r) ELSE r

(* Mutant: a tick without the pass over the leases. *)
TickedNoLease(r, t) == AfterWake(AfterDue(r, t), t)

Ticked(r, t) == AfterWake(AfterLease(AfterDue(r, t), t), t)

-----------------------------------------------------------------------------
(* reviews.claim *)

(* Mutant: anyone takes over a claim. *)
ClaimableByAnyone(r, p) == r.state \in {"OPEN", "CLAIMED"}

Claimable(r, p) == r.state = "OPEN" \/ (r.state = "CLAIMED" /\ r.owner = p)

Claimed(r, p, t, leaseMs) ==
    [r EXCEPT !.state = "CLAIMED", !.owner = p, !.revision = @ + 1,
              !.lease = Least(t + leaseMs, r.due)]

(***************************************************************************)
(* reviews.resolve: a resolution is admitted for a CLAIMED review before   *)
(* its due time, from the principal whose lease still runs.                *)
(***************************************************************************)
HeldBy(r, p, t) ==
    /\ t < r.due
    /\ r.state = "CLAIMED"
    /\ t < r.lease
    /\ r.owner = p

(* Mutant: an acceptance may outlive its card. *)
AcceptedUncapped(r, t, acceptMs) ==
    [r EXCEPT !.state = "ACCEPTED", !.revision = @ + 1, !.until = t + acceptMs]

Accepted(r, t, acceptMs) ==
    [r EXCEPT !.state = "ACCEPTED", !.revision = @ + 1,
              !.until = Least(t + acceptMs, r.due)]

Rejected(r) == [r EXCEPT !.state = "REJECTED", !.revision = @ + 1]

Closed(r) == [r EXCEPT !.state = "CLOSED", !.revision = @ + 1]

Deferred(r, w) ==
    [r EXCEPT !.state = "DEFERRED", !.revision = @ + 1, !.owner = NoOwner,
              !.lease = 0, !.wake = w]

(* What a finalization asks of the review it consumes, its basis aside. *)
Spendable(r, t) == r.state = "ACCEPTED" /\ t < r.until

=============================================================================
