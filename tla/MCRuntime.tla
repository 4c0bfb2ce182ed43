----------------------------- MODULE MCRuntime ------------------------------
(***************************************************************************)
(* Runtime for TLC: two checks of one action, and the effects a runtime    *)
(* may record of them.                                                     *)
(***************************************************************************)
EXTENDS Runtime

CONSTANTS c1, c2, act, create1, create2, declare, confirm, deny

MCActionOf == [c \in {c1, c2} |-> act]

MCCheckOf == [q \in {create1, create2} |-> IF q = create1 THEN c1 ELSE c2]

MCEffectOf ==
    [q \in {declare, confirm, deny} |->
        CASE q = declare -> [check |-> c1, state |-> "DECLARED", prior |-> 0]
          [] q = confirm -> [check |-> c1, state |-> "CONFIRMED", prior |-> 1]
          [] q = deny ->
               [check |-> c2, state |-> "NOT_DISPATCHED", prior |-> 0]]

=============================================================================
