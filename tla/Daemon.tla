------------------------------- MODULE Daemon -------------------------------
(***************************************************************************)
(* The request cycle of watchd.  A connection thread (server.rs) takes the *)
(* one mutex around the Daemon, reads the clock, and under the lock runs   *)
(*                                                                         *)
(*        now = boottime;  tick();  dispatch(request);  tick()             *)
(*                                                                         *)
(* All the daemon does happens inside such a cycle, but for one tick of    *)
(* the thread that drains it on a signal (Signalled); no thread is a timer.*)
(* tick() is a fixed list of steps; a module that models some of them      *)
(* names the first one as FirstStep and moves `phase` from each to the     *)
(* next.  Two connections race only for the lock, which Acquire stands     *)
(* for: any request may be the next one, at any later time.                *)
(*                                                                         *)
(* Served = TRUE is that cycle.  Served = FALSE is the Daemon driven       *)
(* through its public fields and methods, as the harness and the tests do: *)
(* they set `now` and call tick() or dispatch() in any order.              *)
(***************************************************************************)
EXTENDS Naturals

CONSTANTS
    MaxNow,     \* bound: the last reading of the clock
    Served,     \* TRUE: watchd's cycle; FALSE: the Daemon driven directly
    FirstStep   \* the first modelled step of tick()

ASSUME ClockAssumption == MaxNow \in Nat /\ MaxNow >= 1
ASSUME ServedAssumption == Served \in BOOLEAN

VARIABLES
    now,    \* the daemon's clock reading, in ms since boot, never 0
    phase,  \* "idle" (lock free), a step of tick(), or "handle"
    after   \* where the running tick() returns to: "handle" or "idle"

cycle == <<now, phase, after>>

Ticking == phase \notin {"idle", "handle"}

CycleTypeOK(Phase) ==
    /\ now \in 1 .. MaxNow
    /\ phase \in Phase \cup {"idle", "handle"}
    /\ after \in {"idle", "handle"}

CycleInit == now = 1 /\ phase = "idle" /\ after = "idle"

(***************************************************************************)
(* A thread takes the lock and reads the clock (CLOCK_BOOTTIME never goes  *)
(* back while the machine is up).                                          *)
(***************************************************************************)
Acquire ==
    /\ phase = "idle"
    /\ now' \in now .. MaxNow
    /\ IF Served
       THEN phase' = FirstStep /\ after' = "handle"
       ELSE \/ phase' = FirstStep /\ after' = "idle"
            \/ phase' = "handle" /\ after' = "idle"

(***************************************************************************)
(* watchd.rs: the thread that waits for the first SIGTERM or SIGINT takes  *)
(* the lock and ticks once, at the last reading.  That it puts the host to *)
(* DRAINING is for the modules that have one; the process ends soon after. *)
(***************************************************************************)
Signalled ==
    /\ phase = "idle"
    /\ phase' = FirstStep /\ after' = "idle"
    /\ UNCHANGED now

(* The running tick() goes on to its next modelled step, or returns. *)
NextStep(step, next) == phase = step /\ phase' = next /\ UNCHANGED <<now, after>>
TickDone(step) == phase = step /\ phase' = after /\ UNCHANGED <<now, after>>

(***************************************************************************)
(* The one dispatch() of the cycle is over; the second tick() follows.     *)
(***************************************************************************)
HandlerDone ==
    /\ phase = "handle"
    /\ phase' = IF Served THEN FirstStep ELSE "idle"
    /\ after' = "idle"
    /\ UNCHANGED now

=============================================================================
