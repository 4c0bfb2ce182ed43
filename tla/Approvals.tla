----------------------------- MODULE Approvals ------------------------------
(***************************************************************************)
(* What the blocking path promises about human approval, whatever the      *)
(* monitors, timers, runs and policies do: a check is decided once; the    *)
(* card of a held check is opened with that decision; an accepted card is  *)
(* spent by one check, in the step that clears it, or is void.             *)
(***************************************************************************)
CONSTANTS CheckId, None

VARIABLES
    decision,   \* check -> none, pending, cleared, held or refused
    card,       \* check -> its card: none, open, accepted, spent or void
    spentOn     \* check -> the check whose card cleared it, or None

approvals == <<decision, card, spentOn>>

Init ==
    /\ decision = [c \in CheckId |-> "none"]
    /\ card = [c \in CheckId |-> "none"]
    /\ spentOn = [c \in CheckId |-> None]

Decisions ==
    {<<"none", "pending">>, <<"none", "refused">>, <<"pending", "cleared">>,
     <<"pending", "held">>, <<"pending", "refused">>}

CardMoves ==
    {<<"none", "open">>, <<"open", "accepted">>, <<"open", "void">>,
     <<"accepted", "spent">>, <<"accepted", "void">>}

Decide(c) ==
    decision'[c] # decision[c] => <<decision[c], decision'[c]>> \in Decisions

MoveCard(c) ==
    card'[c] # card[c] =>
        /\ <<card[c], card'[c]>> \in CardMoves
        /\ card[c] = "none" => decision[c] = "pending" /\ decision'[c] = "held"
        /\ card'[c] = "spent" => \E d \in CheckId : spentOn'[d] = c

Spend(c) ==
    spentOn'[c] # spentOn[c] =>
        /\ decision[c] = "pending" /\ decision'[c] = "cleared"
        /\ spentOn'[c] \in CheckId
        /\ card[spentOn'[c]] = "accepted" /\ card'[spentOn'[c]] = "spent"
        /\ \A d \in CheckId : spentOn'[d] = spentOn'[c] => d = c

(* One transaction may decide many checks and void many cards. *)
Next ==
    /\ decision' \in [CheckId -> {"none", "pending", "cleared", "held", "refused"}]
    /\ card' \in [CheckId -> {"none", "open", "accepted", "spent", "void"}]
    /\ spentOn' \in [CheckId -> CheckId \cup {None}]
    /\ \A c \in CheckId : Decide(c) /\ MoveCard(c) /\ Spend(c)

Spec == Init /\ [][Next]_approvals

=============================================================================
