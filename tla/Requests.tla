------------------------------ MODULE Requests ------------------------------
(***************************************************************************)
(* What a client may rely on when it repeats a mutation under the same     *)
(* request id until it is answered: it is carried out at most once, and an *)
(* answer means that it was, in a transaction that was committed.          *)
(***************************************************************************)
EXTENDS Naturals

CONSTANTS Request, NoAnswer

VARIABLES
    times,  \* request -> how often it was carried out
    told    \* <<request, n>>: last a client was told of the n-th time

Init == times = [q \in Request |-> 0] /\ told = NoAnswer

CarryOut(q) ==
    /\ times[q] = 0
    /\ times' = [times EXCEPT ![q] = 1]
    /\ UNCHANGED told

Tell(q) ==
    /\ times[q] = 1
    /\ told' = <<q, 1>>
    /\ UNCHANGED times

Next == \E q \in Request : CarryOut(q) \/ Tell(q)

Spec == Init /\ [][Next]_<<times, told>>

=============================================================================
