------------------------------ MODULE Service -------------------------------
(***************************************************************************)
(* One watchd and its store, with what crashes, restarts and failing       *)
(* commits do to both.  The store keeps what was committed; the host state *)
(* and the reply under way are lost with the process.                      *)
(*                                                                         *)
(* A component without a specification: Runtime extends it and says what   *)
(* its transactions do.  A transaction is the n events it appends, and if  *)
(* it is a request's also the stored reply of that request.                *)
(***************************************************************************)
EXTENDS Daemon

CONSTANTS
    Request,    \* mutations, each under its own request id
    MinHead,    \* the pinned minimum head of the trust store
    Restored,   \* the head of the store that was put in place
    MaxStarts,  \* bound: processes started
    NoAnswer

ASSUME ServiceAssumption ==
    /\ Served
    /\ MinHead \in Nat /\ Restored \in 0 .. MinHead /\ MaxStarts \in Nat
    /\ NoAnswer \notin Request \X Nat

VARIABLES
    host,       \* HostState; DOWN: no process, RECOVERED: start() is not over
    epoch,      \* meta host_epoch
    head,       \* the number of audit events, counted up to MinHead
    executed,   \* request -> transactions that carried it out
    idem,       \* request -> the one its stored reply is from, 0: none
    answer,     \* the reply on its way: <<request, execution>>
    told        \* the last reply that arrived

service == <<host, epoch, head, executed, idem, answer, told>>

HostStates ==
    {"DOWN", "STARTING", "RECOVERED", "READY", "DRAINING", "FAULTED"}

ServiceTypeOK ==
    /\ host \in HostStates
    /\ epoch \in 0 .. MaxStarts /\ head \in 0 .. MinHead
    /\ executed \in [Request -> Nat] /\ idem \in [Request -> Nat]
    /\ answer \in (Request \X Nat) \cup {NoAnswer}
    /\ told \in (Request \X Nat) \cup {NoAnswer}

ServiceInit ==
    /\ host = "DOWN" /\ epoch = 0 /\ head = Restored
    /\ executed = [q \in Request |-> 0]
    /\ idem = [q \in Request |-> 0]
    /\ answer = NoAnswer /\ told = NoAnswer

Listening == host \in {"READY", "DRAINING", "FAULTED"}

(* The head with n more events; past MinHead nothing depends on it. *)
Grown(n) == IF head + n < MinHead THEN head + n ELSE MinHead

(* The host goes to s, and a transaction of n events is committed. *)
HostTo(s, n) ==
    /\ host' = s
    /\ head' = Grown(n)
    /\ UNCHANGED <<epoch, executed, idem, answer, told>>

-----------------------------------------------------------------------------
(* Daemon::start *)

(* HostStarted and the new epoch, before anything is looked at. *)
Start ==
    /\ host = "DOWN" /\ epoch < MaxStarts
    /\ host' = "STARTING"
    /\ epoch' = epoch + 1
    /\ head' = Grown(1)
    /\ UNCHANGED <<executed, idem, answer, told>>

(* HostFaulted is appended, and start() fails. *)
RefuseToStart == host = "STARTING" /\ head < MinHead /\ HostTo("DOWN", 1)

(* Mutant: the pin is looked at by the tools that restore, not here. *)
RecoveredUnpinned(n) == host = "STARTING" /\ HostTo("RECOVERED", n)

(* The recovery transaction, with n entities to pause or to expire. *)
Recovered(n) == host = "STARTING" /\ head >= MinHead /\ HostTo("RECOVERED", n)

HostReady == host = "RECOVERED" /\ HostTo("READY", 1)

(* The process dies, at any point and with whatever it was doing. *)
Dies ==
    /\ host # "DOWN"
    /\ host' = "DOWN"
    /\ answer' = NoAnswer
    /\ phase' = "idle" /\ after' = "idle"
    /\ UNCHANGED <<now, epoch, head, executed, idem, told>>

-----------------------------------------------------------------------------
(* Transactions: of a tick, and of a request. *)

Commits(n) == HostTo(host, n)

(* commit() returns an error: nothing is stored, the host is FAULTED. *)
CommitFails == HostTo("FAULTED", 0)

(* tick() looks at the host state once, when it is entered. *)
EnterTick(step) ==
    /\ IF host = "FAULTED" THEN TickDone(FirstStep)
                           ELSE NextStep(FirstStep, step)
    /\ UNCHANGED service

(* Mutant: the reply is stored when it has been written. *)
ExecuteUnrecorded(q, n) ==
    /\ idem[q] = 0
    /\ executed' = [executed EXCEPT ![q] = @ + 1]
    /\ answer' = <<q, executed[q] + 1>>
    /\ head' = Grown(n)
    /\ UNCHANGED <<host, epoch, idem, told>>

(***************************************************************************)
(* A request that is new is carried out; its reply is stored in the same   *)
(* transaction.  The caller has checked that the host state admits it.     *)
(***************************************************************************)
Execute(q, n) ==
    /\ idem[q] = 0
    /\ executed' = [executed EXCEPT ![q] = @ + 1]
    /\ idem' = [idem EXCEPT ![q] = executed[q] + 1]
    /\ answer' = <<q, executed[q] + 1>>
    /\ head' = Grown(n)
    /\ UNCHANGED <<host, epoch, told>>

(* The stored reply is repeated, in every host state. *)
Replay(q) ==
    /\ idem[q] # 0
    /\ answer' = <<q, idem[q]>>
    /\ UNCHANGED <<host, epoch, head, executed, idem, told>>

(* Mutant: the reply is written although nothing was stored. *)
AnswersAnyway(q) ==
    /\ host \in {"READY", "DRAINING"} /\ idem[q] = 0
    /\ host' = "FAULTED"
    /\ answer' = <<q, executed[q] + 1>>
    /\ UNCHANGED <<head, epoch, executed, idem, told>>

(* Mutant: the reply is stored in a transaction of its own. *)
RemembersAnyway(q) ==
    /\ host \in {"READY", "DRAINING"} /\ idem[q] = 0
    /\ host' = "FAULTED"
    /\ idem' = [idem EXCEPT ![q] = executed[q] + 1]
    /\ UNCHANGED <<epoch, head, executed, answer, told>>

(* The transaction of q fails: the connection is closed without a reply. *)
Breaks(q) == host \in {"READY", "DRAINING"} /\ idem[q] = 0 /\ CommitFails

-----------------------------------------------------------------------------
(* write_reply, after the second tick and before the lock is released. *)

Idle == phase = "idle" /\ answer # NoAnswer /\ answer' = NoAnswer

Deliver ==
    /\ Idle
    /\ told' = answer
    /\ UNCHANGED <<cycle, host, epoch, head, executed, idem>>

LoseReply ==
    /\ Idle
    /\ UNCHANGED <<cycle, host, epoch, head, executed, idem, told>>

=============================================================================
