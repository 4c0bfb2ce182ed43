-------------------------- MODULE ChecksApprovals ---------------------------
(***************************************************************************)
(* Checks implements CardLife, and Approvals: decisions are the states of  *)
(* the checks, cards those of the reviews.  CONSUMED is not what makes a   *)
(* card spent, since a late request can expire a consumed review anew; the *)
(* cleared check that points to it is.                                     *)
(***************************************************************************)
EXTENDS Checks

DecisionOf(c) ==
    CASE checks[c].state = "ABSENT" -> "none"
      [] checks[c].state = "EVALUATING" -> "pending"
      [] checks[c].state = "CLEAR" -> "cleared"
      [] checks[c].state = "HELD" -> "held"
      [] OTHER -> "refused"

SpentOn(c) ==
    IF checks[c].state = "CLEAR" /\ Findings(c) # {} THEN checks[c].review
                                                    ELSE None

SpentCards == {SpentOn(c) : c \in CheckId}

CardOf(r) ==
    IF r \in SpentCards THEN "spent"
    ELSE CASE reviews[r].state = "ABSENT" -> "none"
           [] reviews[r].state \in {"OPEN", "CLAIMED", "DEFERRED"} -> "open"
           [] reviews[r].state = "ACCEPTED" -> "accepted"
           [] OTHER -> "void"

Promise == INSTANCE Approvals WITH
    decision <- [c \in CheckId |-> DecisionOf(c)],
    card <- [r \in CheckId |-> CardOf(r)],
    spentOn <- [c \in CheckId |-> SpentOn(c)]

(***************************************************************************)
(* The checks of daemon.rs and methods.rs keep the promise: every step of  *)
(* theirs is a step of Approvals or changes nothing there.                 *)
(***************************************************************************)
KeepsPromise == Promise!Spec

(* What clients are shown of the cards. *)
Shown == [r \in CheckId |-> View(reviews[r])]

Life == INSTANCE CardLife WITH
    CardId <- CheckId, Reviewer <- Principal, Nobody <- NoOwner,
    cards <- Shown

(***************************************************************************)
(* The cards that checks open and consume, and that runs, policies, drains *)
(* and restarts expire in bulk, live the same life as those of             *)
(* ReviewQueue, and no transaction moves one of them twice.                *)
(***************************************************************************)
KeepsLife == Life!Spec

=============================================================================
