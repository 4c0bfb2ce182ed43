------------------------------ MODULE CardLife ------------------------------
(***************************************************************************)
(* What the people at the queue may rely on for a card they have read: it  *)
(* is still as it was, or its revision has moved and each move was one of  *)
(* these.  Nothing is said of times: any timer may fire at any moment.     *)
(***************************************************************************)
EXTENDS Naturals

CONSTANTS CardId, Run, Reviewer, Nobody

VARIABLE cards  \* card -> what a client reads of it

States == {"ABSENT", "OPEN", "CLAIMED", "DEFERRED", "ACCEPTED", "REJECTED",
           "CONSUMED", "CLOSED", "EXPIRED"}

Card ==
    [state : States, revision : Nat, owner : Reviewer \cup {Nobody},
     run : Run, kind : {"blocking", "trailing"},
     level : {"critical", "warning"}, due : Nat]

Init ==
    /\ cards \in [CardId -> Card]
    /\ \A c \in CardId : /\ cards[c].state = "ABSENT"
                         /\ cards[c].revision = 0
                         /\ cards[c].owner = Nobody

-----------------------------------------------------------------------------
(* Only an opening sets what a card is about and when it is due. *)
Opens(v, w) ==
    v.state = "ABSENT" /\ w.state = "OPEN" /\ w.revision = 1 /\ w.owner = Nobody

Changed(v, state, owner) ==
    [state |-> state, revision |-> v.revision + 1, owner |-> owner,
     run |-> v.run, kind |-> v.kind, level |-> v.level, due |-> v.due]

(* A free card is claimed, or its owner renews the claim. *)
Claims(v, w) ==
    \E p \in Reviewer :
        /\ v.state = "OPEN" \/ (v.state = "CLAIMED" /\ v.owner = p)
        /\ w = Changed(v, "CLAIMED", p)

(* A claim is given up or lapses, a deferral is over. *)
Frees(v, w) ==
    v.state \in {"CLAIMED", "DEFERRED"} /\ w = Changed(v, "OPEN", Nobody)

Defers(v, w) == v.state = "CLAIMED" /\ w = Changed(v, "DEFERRED", Nobody)

(* The owner of a claim answers it, in the way its kind allows. *)
Answers(v, w) ==
    /\ v.state = "CLAIMED"
    /\ \E s \in IF v.kind = "blocking" THEN {"ACCEPTED", "REJECTED"}
                                       ELSE {"CLOSED"} :
          w = Changed(v, s, v.owner)

(* A check clears on an acceptance. *)
Spends(v, w) == v.state = "ACCEPTED" /\ w = Changed(v, "CONSUMED", v.owner)

(* Also after it was answered: see RejectionIsFinal of ReviewQueue. *)
Expires(v, w) == v.state # "ABSENT" /\ w = Changed(v, "EXPIRED", Nobody)

Move(v, w) ==
    \/ Opens(v, w) \/ Claims(v, w) \/ Frees(v, w) \/ Defers(v, w)
    \/ Answers(v, w) \/ Spends(v, w) \/ Expires(v, w)

(* One transaction may move many cards, each of them once. *)
Next ==
    /\ cards' \in [CardId -> Card]
    /\ \A c \in CardId : cards'[c] = cards[c] \/ Move(cards[c], cards'[c])

Spec == Init /\ [][Next]_cards

=============================================================================
