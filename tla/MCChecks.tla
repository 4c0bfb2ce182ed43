------------------------------ MODULE MCChecks ------------------------------
(***************************************************************************)
(* Checks for TLC: small intents, snapshots and policies.  One ms of the   *)
(* model stands for the distance between two deadlines that matter.        *)
(***************************************************************************)
EXTENDS ChecksApprovals, TLC

Write == [action |-> "write", scopes |-> {}, cost |-> 5, target |-> 1]
(* Too small to need a review. *)
Read == [Write EXCEPT !.action = "read", !.cost = 4]
Grow == [Write EXCEPT !.action = "grow", !.cost = 6]

Plain == [committed |-> 1, reserved |-> 0, scopes |-> {}, replicas |-> 1,
          target |-> 1]
Reserved == [Plain EXCEPT !.reserved = 6]
Drifted == [Plain EXCEPT !.scopes = {"admin"}]
Uncounted == [Plain EXCEPT !.replicas = Unknown]

(* Every slot lives as long as its check. *)
Even ==
    [allowed |-> {}, cap |-> 10, reviewAt |-> 5, maxReplicas |-> 1,
     freshness |-> 4, evaluation |-> 2, clearance |-> 1, ttl |-> 2,
     accept |-> 2, lease |-> 2, queueCapacity |-> 2, perRunOpen |-> 1,
     deadline |-> [m \in Monitor |-> 2]]
(* Two cards for a run, and nothing lasts longer than it must. *)
Roomy == [Even EXCEPT !.perRunOpen = 2, !.evaluation = 1, !.accept = 1,
                      !.lease = 1]
(* The scope monitor has less time than the others. *)
Uneven == [Even EXCEPT !.deadline["scope"] = 1]
(* One card in all, and telemetry that soon is old. *)
Brief == [Even EXCEPT !.freshness = 2, !.evaluation = 1, !.queueCapacity = 1]

OnlyWrite == {Write}
ReadAndWrite == {Read, Write}
WriteAndGrow == {Write, Grow}
OneEven == <<Even>>
TwoEven == <<Even, Even>>
OneRoomy == <<Roomy>>
OneUneven == <<Uneven>>
TwoBrief == <<Brief, Brief>>
OnlyPlain == {Plain}
PlainAndReserved == {Plain, Reserved}
Telemetry == {Plain, Drifted, Uncounted}

AllEvents ==
    {"open", "append", "gap", "quarantine", "pause", "resume", "close",
     "activate", "drain", "create", "cancel", "claim", "resolve",
     "mismatch", "signal", "restart"}
ReviewEvents == {"open", "append", "activate", "create", "claim", "resolve"}

RunEvents == ReviewEvents \cup {"close", "pause", "resume"}

Interchangeable == Permutations(CheckId)

=============================================================================
