--------------------------- MODULE QueueFairness ----------------------------
(***************************************************************************)
(* The rotation of reviews.claim between runs, over ReviewQueue with a     *)
(* history variable: which runs had a turn while another one was waiting.  *)
(***************************************************************************)
EXTENDS ReviewQueue

CONSTANT Cards  \* bound: the levels of the cards that are opened

ASSUME CardsAssumption == Cards \subseteq Levels

VARIABLE
    turns   \* level -> waiting run -> the runs served since it waits

allVars == <<vars, turns>>

Waiting(l, run) == \E id \in AtLevel(l) : reviews[id].run = run

NoTurns == [l \in Levels |-> [run \in Run |-> {}]]

FairInit == Init /\ turns = NoTurns

(* A run that stops waiting, or is served itself, starts over. *)
Turn(level, served) ==
    turns' = [l \in Levels |-> [run \in Run |->
                 IF Waiting(l, run)' /\ Waiting(l, run) /\ run \notin served
                 THEN turns[l][run] \cup (IF l = level THEN served ELSE {})
                 ELSE {}]]

(* reviews.claim without an id serves the run it picks at its level. *)
TakeTurn(p) ==
    /\ ClaimNext(p)
    /\ Turn(BestLevel, {reviews[NextOpen].run})

(* Its owner names the claimed review again, for a new lease. *)
Renew(p, id) ==
    /\ reviews[id].state = "CLAIMED"
    /\ Claim(p, id)
    /\ Turn("warning", {})

OtherStep ==
    /\ \/ Take \/ Signal \/ TickReviews \/ TickReturns \/ Rejection \/ Restart
       \/ \E id \in ReviewId :
             \/ \E run \in Run, l \in Cards :
                   Open(id, run, IF l = "warning" THEN "blocking"
                                                  ELSE "trailing", l)
             \/ Consume(id) \/ LateRequest(id)
             \/ \E p \in Principal :
                   \/ AcceptRisk(p, id) \/ Reject(p, id)
                   \/ Annotate(p, id) \/ Release(p, id) \/ Defer(p, id)
       \/ \E runs \in SUBSET Run \ {{}} : ExpireRuns(runs)
    /\ Turn("warning", {})

FairNext ==
    \/ OtherStep
    \/ \E p \in Principal : TakeTurn(p)

RotationSpec == FairInit /\ [][FairNext]_allVars

(* The same with owners that renew their claims. *)
RenewingNext ==
    FairNext \/ \E p \in Principal, id \in ReviewId : Renew(p, id)

RenewalSpec == FairInit /\ [][RenewingNext]_allVars

(***************************************************************************)
(* Round-robin: reviews.claim without an id gives no run a second turn at  *)
(* a level while another run waits there for its first.                    *)
(***************************************************************************)
NoSecondTurn ==
    [][\A p \in Principal : TakeTurn(p) =>
          \A run \in Run :
             (Waiting(BestLevel, run) /\ run # reviews[NextOpen].run)
                => reviews[NextOpen].run \notin turns[BestLevel][run]]_allVars

=============================================================================
