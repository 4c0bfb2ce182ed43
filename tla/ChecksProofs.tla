---------------------------- MODULE ChecksProofs -----------------------------
(***************************************************************************)
(* Theorems about Checks, for any sets of checks, runs and reviewers, any  *)
(* intents, snapshots and policies, and any bounds.                        *)
(***************************************************************************)
EXTENDS Checks, ReviewsProofs

CheckField == {"state", "run", "intent", "observation", "policy", "created",
               "review", "expires"}

(* x is the check k in another state, with another review and expiry. *)
Decides(k, x, state, review, expires) ==
    /\ x = [f \in CheckField |-> x[f]]
    /\ x.state = state /\ x.run = k.run /\ x.intent = k.intent
    /\ x.observation = k.observation /\ x.policy = k.policy
    /\ x.created = k.created /\ x.review = review /\ x.expires = expires

LEMMA CheckFields ==
    ASSUME NEW k \in Check
    PROVE  /\ k = [f \in CheckField |-> k[f]]
           /\ k.state \in CheckStates /\ k.run \in Run \cup {None}
           /\ k.intent \in Intent \cup {None} /\ k.observation \in Nat
           /\ k.policy \in Nat /\ k.created \in Nat
           /\ k.review \in CheckId \cup {None} /\ k.expires \in Nat
  BY DEF Check, CheckField

LEMMA DecidesCheck ==
    ASSUME NEW k \in Check, NEW x, NEW state \in CheckStates,
           NEW review \in CheckId \cup {None}, NEW expires \in Nat,
           Decides(k, x, state, review, expires)
    PROVE  x \in Check
  BY CheckFields DEF Decides, Check, CheckField

LEMMA EndedDecides ==
    ASSUME NEW k \in Check, NEW state
    PROVE  Decides(k, [k EXCEPT !.state = state], state, k.review, k.expires)
  BY CheckFields DEF Decides, CheckField

LEMMA HeldDecides ==
    ASSUME NEW k \in Check, NEW review
    PROVE  Decides(k, [k EXCEPT !.state = "HELD", !.review = review], "HELD",
                   review, k.expires)
  <1> DEFINE y == [k EXCEPT !.state = "HELD"]
             x == [k EXCEPT !.state = "HELD", !.review = review]
  <1>1. DOMAIN k = CheckField /\ x = [f \in CheckField |-> x[f]]
    <2>1. k = [f \in CheckField |-> k[f]]
      BY CheckFields
    <2>2. y = [f \in CheckField |-> y[f]]
      BY <2>1
    <2>3. x = [y EXCEPT !.review = review]
      OBVIOUS
    <2> HIDE DEF y, x
    <2> QED
      BY <2>1, <2>2, <2>3
  <1>2. /\ x.state = "HELD" /\ x.review = review /\ x.expires = k.expires
        /\ x.run = k.run /\ x.intent = k.intent /\ x.policy = k.policy
        /\ x.observation = k.observation /\ x.created = k.created
    BY <1>1 DEF CheckField
  <1>3. Decides(k, x, "HELD", review, k.expires)
    <2> HIDE DEF x
    <2> QED
      BY <1>1, <1>2 DEF Decides
  <1> QED
    BY <1>3

LEMMA ClearedDecides ==
    ASSUME NEW k \in Check, NEW expires
    PROVE  Decides(k, [k EXCEPT !.state = "CLEAR", !.expires = expires],
                   "CLEAR", k.review, expires)
  <1> DEFINE y == [k EXCEPT !.state = "CLEAR"]
             x == [k EXCEPT !.state = "CLEAR", !.expires = expires]
  <1>1. DOMAIN k = CheckField /\ x = [f \in CheckField |-> x[f]]
    <2>1. k = [f \in CheckField |-> k[f]]
      BY CheckFields
    <2>2. y = [f \in CheckField |-> y[f]]
      BY <2>1
    <2>3. x = [y EXCEPT !.expires = expires]
      OBVIOUS
    <2> HIDE DEF y, x
    <2> QED
      BY <2>1, <2>2, <2>3
  <1>2. /\ x.state = "CLEAR" /\ x.review = k.review /\ x.expires = expires
        /\ x.run = k.run /\ x.intent = k.intent /\ x.policy = k.policy
        /\ x.observation = k.observation /\ x.created = k.created
    BY <1>1 DEF CheckField
  <1>3. Decides(k, x, "CLEAR", k.review, expires)
    <2> HIDE DEF x
    <2> QED
      BY <1>1, <1>2 DEF Decides
  <1> QED
    BY <1>3

-----------------------------------------------------------------------------
RunRecord == [state : {"ABSENT"}, policy : {0}, received : {0}]
               \cup [state : RunStates \ {"ABSENT"}, policy : Generation,
                     received : Nat]

LEMMA RunFields ==
    ASSUME NEW r \in RunRecord
    PROVE  /\ r.state \in RunStates /\ r.policy \in Nat
           /\ r.state # "ABSENT" => r.policy \in Generation
  BY DEF RunRecord, RunStates, Generation

LEMMA RunChanges ==
    ASSUME NEW r \in RunRecord, r.state # "ABSENT",
           NEW state \in RunStates \ {"ABSENT"}, NEW t \in Nat
    PROVE  /\ [r EXCEPT !.state = state] \in RunRecord
           /\ [r EXCEPT !.state = state].state = state
           /\ [r EXCEPT !.state = state].policy = r.policy
           /\ [r EXCEPT !.received = t] \in RunRecord
           /\ [r EXCEPT !.received = t].state = r.state
           /\ [r EXCEPT !.received = t].policy = r.policy
  BY DEF RunRecord, RunStates

-----------------------------------------------------------------------------
(***************************************************************************)
(* The inductive invariant.  What a check points to exists, and keeps      *)
(* existing: its run, its observation, its policy; a card was opened for a *)
(* check, in a run that was opened.                                        *)
(***************************************************************************)
CheckFits(c) ==
    checks[c].state # "ABSENT" =>
        /\ checks[c].run \in Run
        /\ checks[c].intent \in Intent
        /\ checks[c].policy \in Generation
        /\ checks[c].observation \in 1 .. Len(chain[checks[c].run])

CardFits(v) ==
    /\ Sound(reviews[v])
    /\ reviews[v].state # "ABSENT" =>
          /\ checks[v].state = "HELD"
          /\ reviews[v].run = checks[v].run
          /\ runs[reviews[v].run].state # "ABSENT"

IInv ==
    /\ TypeOK
    /\ EvaluatingIsLive
    /\ \A c \in CheckId : CheckFits(c) /\ CardFits(c)

(* What a step does to each variable. *)
Observation == [cut : Nat, snapshot : Snapshot]

CycleKept == CycleTypeOK({"timers", "settle"})'

RunsKept ==
    /\ runs' \in [Run -> RunRecord]
    /\ \A r \in Run : runs[r].state # "ABSENT" => runs'[r].state # "ABSENT"

ChainKept ==
    /\ chain' \in [Run -> Seq(Observation)]
    /\ \A r \in Run :
          /\ Len(chain[r]) <= Len(chain'[r])
          /\ \A n \in 1 .. Len(chain[r]) : chain'[r][n] = chain[r][n]

SameRequest(k, x) ==
    /\ x.run = k.run /\ x.intent = k.intent
    /\ x.observation = k.observation /\ x.policy = k.policy

CheckKept(c) ==
    /\ checks'[c] \in Check
    /\ checks[c].state # "ABSENT" =>
          checks'[c].state # "ABSENT" /\ SameRequest(checks[c], checks'[c])
    /\ CheckFits(c)'
    /\ checks[c].state \notin {"ABSENT", "EVALUATING"} =>
          checks'[c] = checks[c] /\ slots'[c] = slots[c]
    /\ checks'[c].state \in {"HELD", "CLEAR"} =>
          checks'[c] = checks[c] \/ Finalize(c)

ChecksKept ==
    /\ checks' = [c \in CheckId |-> checks'[c]]
    /\ \A c \in CheckId : CheckKept(c)

(* A card is opened by the finalization of its check, and only then does   *)
(* one become active.                                                      *)
Opens(v) ==
    /\ Finalize(v) /\ Outcome(v) = "OPENS"
    /\ checks[v].state = "EVALUATING" /\ checks'[v].state = "HELD"
    /\ reviews'[v].run = checks[v].run
    /\ runs[checks[v].run].state # "ABSENT"

CardKept(v) ==
    /\ Good(reviews'[v])
    /\ reviews'[v].state # "ABSENT" =>
          \/ reviews[v].state # "ABSENT" /\ reviews'[v].run = reviews[v].run
          \/ Opens(v)
    /\ reviews[v].state # "ABSENT" => reviews'[v].state # "ABSENT"
    /\ IsActive(reviews'[v]) => IsActive(reviews[v]) \/ Opens(v)

CardsKept ==
    /\ reviews' = [v \in CheckId |-> reviews'[v]]
    /\ \A v \in CheckId : CardKept(v)

RestKept ==
    /\ host' \in {"READY", "DRAINING", "FAULTED"}
    /\ active' \in 0 .. Len(Policies)
    /\ slots' \in [CheckId -> [Monitor -> {"none", "pending", "done", "timeout"}]]
    /\ bound' \in [Run -> [Action -> Intent \cup {None}]]
    /\ rejected' \subseteq Run \X Action

Kept ==
    CycleKept /\ RunsKept /\ ChainKept /\ ChecksKept /\ CardsKept /\ RestKept
        /\ EvaluatingIsLive'

LEMMA KeptIsInductive == ASSUME IInv, Kept PROVE IInv'
  <1>1. checks' \in [CheckId -> Check] /\ \A c \in CheckId : CheckFits(c)'
    BY DEF Kept, ChecksKept, CheckKept
  <1>2. reviews' \in [CheckId -> Review]
    BY DEF Kept, CardsKept, CardKept, Good
  <1>3. ASSUME NEW v \in CheckId PROVE CardFits(v)'
    <2>1. /\ Sound(reviews'[v]) /\ reviews'[v].run \in Run
          /\ reviews'[v].state # "ABSENT" =>
                \/ reviews[v].state # "ABSENT" /\ reviews'[v].run = reviews[v].run
                \/ Opens(v)
      BY ReviewFields DEF Kept, CardsKept, CardKept, Good
    <2>2. CASE reviews'[v].state = "ABSENT"
      BY <2>1, <2>2 DEF CardFits
    <2>3. CASE reviews[v].state # "ABSENT" /\ reviews'[v].run = reviews[v].run
      <3>1. /\ checks[v].state = "HELD" /\ reviews[v].run = checks[v].run
            /\ runs[reviews[v].run].state # "ABSENT"
        BY <2>3 DEF IInv, CardFits
      <3>2. checks'[v] = checks[v]
        BY <3>1 DEF Kept, ChecksKept, CheckKept
      <3>3. runs'[reviews'[v].run].state # "ABSENT"
        BY <2>1, <2>3, <3>1 DEF Kept, RunsKept
      <3> QED
        BY <2>1, <2>3, <3>1, <3>2, <3>3 DEF CardFits
    <2>4. CASE Opens(v)
      <3>1. checks'[v].run = checks[v].run /\ checks'[v].state = "HELD"
        BY <2>4 DEF Opens, Kept, ChecksKept, CheckKept, SameRequest
      <3>2. runs'[reviews'[v].run].state # "ABSENT"
        BY <2>1, <2>4 DEF Kept, RunsKept, Opens
      <3> QED
        BY <2>1, <2>4, <3>1, <3>2 DEF CardFits, Opens
    <2> QED
      BY <2>1, <2>2, <2>3, <2>4
  <1>4. TypeOK'
    BY <1>1, <1>2
    DEF Kept, CycleKept, RunsKept, RunRecord, ChainKept, Observation, RestKept,
        TypeOK
  <1> QED
    BY <1>1, <1>3, <1>4 DEF Kept, IInv

-----------------------------------------------------------------------------
(* Variables that stay as they are. *)

LEMMA RunsStay == ASSUME IInv, UNCHANGED runs PROVE RunsKept
  BY DEF IInv, TypeOK, RunsKept, RunRecord

LEMMA ChainLengths == ASSUME IInv PROVE \A r \in Run : Len(chain[r]) \in Nat
  BY DEF IInv, TypeOK

LEMMA ChainStays == ASSUME IInv, UNCHANGED chain PROVE ChainKept
  <1>1. chain \in [Run -> Seq(Observation)]
    BY DEF IInv, TypeOK, Observation
  <1>2. \A r \in Run : Len(chain[r]) <= Len(chain[r])
    BY ChainLengths
  <1> QED
    BY <1>1, <1>2 DEF ChainKept

LEMMA ChecksStay ==
    ASSUME IInv, ChainKept, UNCHANGED checks,
           \A c \in CheckId : checks[c].state # "EVALUATING" =>
               slots'[c] = slots[c]
    PROVE  ChecksKept
  <1>1. ASSUME NEW c \in CheckId PROVE CheckFits(c)'
    <2>1. checks[c].state # "ABSENT" =>
             /\ checks[c].run \in Run
             /\ checks[c].observation \in 1 .. Len(chain[checks[c].run])
             /\ Len(chain[checks[c].run]) <= Len(chain'[checks[c].run])
      BY DEF IInv, CheckFits, ChainKept
    <2>2. checks[c].state # "ABSENT" =>
             Len(chain[checks[c].run]) \in Nat /\ Len(chain'[checks[c].run]) \in Nat
      BY <2>1 DEF IInv, TypeOK, ChainKept
    <2> QED
      BY <2>1, <2>2 DEF IInv, CheckFits
  <1>2. checks \in [CheckId -> Check]
    BY DEF IInv, TypeOK
  <1> QED
    BY <1>1, <1>2 DEF ChecksKept, CheckKept, SameRequest

LEMMA CardHolds ==
    ASSUME IInv, NEW v \in CheckId
    PROVE  /\ Good(reviews[v])
           /\ reviews[v].run \in Run
           /\ reviews[v].state # "ABSENT" =>
                 /\ checks[v].state = "HELD"
                 /\ reviews[v].run = checks[v].run
                 /\ runs[reviews[v].run].state # "ABSENT"
  BY ReviewFields DEF IInv, TypeOK, CardFits, Good

(* A card that only went through a transition of Reviews. *)
LEMMA CardMoves ==
    ASSUME IInv, NEW v \in CheckId, Good(reviews'[v]),
           reviews[v].state # "ABSENT", reviews'[v].state # "ABSENT",
           reviews'[v].run = reviews[v].run,
           IsActive(reviews'[v]) => IsActive(reviews[v])
    PROVE  CardKept(v)
  BY CardHolds DEF CardKept

LEMMA CardStays ==
    ASSUME IInv, NEW v \in CheckId, reviews'[v] = reviews[v]
    PROVE  CardKept(v)
  BY CardHolds DEF CardKept

LEMMA CardsStay == ASSUME IInv, UNCHANGED reviews PROVE CardsKept
  <1>1. \A v \in CheckId : CardKept(v)
    BY CardStays
  <1> QED
    BY <1>1 DEF IInv, TypeOK, CardsKept

LEMMA RestStays ==
    ASSUME IInv, UNCHANGED <<active, bound, rejected, slots>>,
           host' \in {"READY", "DRAINING", "FAULTED"}
    PROVE  RestKept
  BY DEF IInv, TypeOK, RestKept

LEMMA CycleKeeps ==
    ASSUME IInv,
           \/ Acquire \/ Signalled \/ HandlerDone \/ NextStep("timers", "settle")
           \/ UNCHANGED <<now, phase, after>>
           \/ UNCHANGED <<now, after>> /\ phase' \in {after, "idle"}
           \/ now' \in now .. MaxNow /\ phase' = "idle" /\ after' = "idle"
    PROVE  CycleKept
  BY ClockAssumption, CheckStepAssumption
  DEF IInv, TypeOK, CycleTypeOK, CycleKept, Acquire, Signalled, HandlerDone,
      NextStep

(* One card changes, by a transition of Reviews. *)
LEMMA CardPut ==
    ASSUME IInv, NEW v \in CheckId, NEW x, Good(x), x.run = reviews[v].run,
           reviews[v].state # "ABSENT", x.state # "ABSENT",
           IsActive(x) => IsActive(reviews[v]), reviews' = [reviews EXCEPT ![v] = x]
    PROVE  CardsKept
  <1>1. reviews \in [CheckId -> Review]
    BY DEF IInv, TypeOK
  <1>2. ASSUME NEW w \in CheckId PROVE CardKept(w)
    BY <1>1, CardMoves, CardStays
  <1> QED
    BY <1>1, <1>2 DEF CardsKept

-----------------------------------------------------------------------------
(* The bulk effects. *)

LEMMA EndedChecksKept ==
    ASSUME IInv, ChainKept, NEW ended \in SUBSET Evaluating,
           NEW state \in {"EXPIRED", "STALE", "CANCELLED"},
           EndChecks(ended, state), UNCHANGED slots
    PROVE  /\ ChecksKept
           /\ \A c \in CheckId :
                 /\ c \in ended => checks'[c].state = state
                 /\ c \notin ended => checks'[c] = checks[c]
  <1>1. checks \in [CheckId -> Check] /\ ended \subseteq CheckId
    BY DEF IInv, TypeOK, Evaluating
  <1>2. ASSUME NEW c \in CheckId
        PROVE  CheckKept(c) /\ (c \in ended => checks'[c].state = state)
                            /\ (c \notin ended => checks'[c] = checks[c])
    <2>1. CASE c \in ended
      <3>1. Decides(checks[c], checks'[c], state, checks[c].review,
                    checks[c].expires)
        BY <1>1, <2>1, EndedDecides DEF EndChecks
      <3>2. checks'[c] \in Check
        <4>1. checks[c] \in Check /\ state \in CheckStates
          BY <1>1 DEF CheckStates
        <4>2. checks[c].review \in CheckId \cup {None} /\ checks[c].expires \in Nat
          BY <4>1, CheckFields
        <4> QED
          BY <3>1, <4>1, <4>2, DecidesCheck
      <3>3. checks[c].state = "EVALUATING"
        BY <2>1 DEF Evaluating
      <3>4. /\ checks[c].run \in Run /\ checks[c].intent \in Intent
            /\ checks[c].policy \in Generation
            /\ checks[c].observation \in 1 .. Len(chain[checks[c].run])
        BY <3>3 DEF IInv, CheckFits
      <3>5. checks[c].observation \in 1 .. Len(chain'[checks[c].run])
        BY <3>4 DEF IInv, TypeOK, ChainKept
      <3> QED
        BY <2>1, <3>1, <3>2, <3>3, <3>4, <3>5 DEF CheckKept, CheckFits, Decides,
                                                           SameRequest
    <2>2. CASE c \notin ended
      <3>1. checks'[c] = checks[c]
        BY <2>2 DEF EndChecks
      <3>2. checks[c].state # "ABSENT" =>
              /\ checks[c].run \in Run /\ checks[c].intent \in Intent
              /\ checks[c].policy \in Generation
              /\ checks[c].observation \in 1 .. Len(chain[checks[c].run])
        BY DEF IInv, CheckFits
      <3>3. checks[c].state # "ABSENT" =>
              checks[c].observation \in 1 .. Len(chain'[checks[c].run])
        BY <3>2 DEF IInv, TypeOK, ChainKept
      <3> QED
        BY <1>1, <2>2, <3>1, <3>2, <3>3 DEF CheckKept, CheckFits, SameRequest
    <2> QED
      BY <2>1, <2>2
  <1>3. checks' = [c \in CheckId |-> checks'[c]]
    BY DEF EndChecks
  <1> QED
    BY <1>2, <1>3 DEF ChecksKept

LEMMA ExpiredReviewsKept ==
    ASSUME IInv, NEW expired \in SUBSET ActiveReviews, ExpireReviews(expired)
    PROVE  CardsKept
  <1>1. ASSUME NEW v \in CheckId PROVE CardKept(v)
    <2>1. CASE v \in expired
      <3>1. reviews[v].state # "ABSENT" /\ reviews'[v] = Expired(reviews[v])
        BY <2>1 DEF ActiveReviews, IsActive, ActiveStates, ExpireReviews
      <3>2. Becomes(reviews[v], reviews'[v], "EXPIRED", NoOwner, 0,
                    reviews[v].wake, reviews[v].until)
        BY <3>1, CardHolds, ReviewFields, ExpiredFields DEF Good
      <3> QED
        BY <3>1, <3>2, CardHolds, ExpiredIsGood, CardMoves
        DEF Becomes, IsActive, ActiveStates
    <2>2. CASE v \notin expired
      BY <2>2, CardStays DEF ExpireReviews
    <2> QED
      BY <2>1, <2>2
  <1> QED
    BY <1>1 DEF ExpireReviews, CardsKept

LEMMA SetRunsKept ==
    ASSUME IInv, NEW changed \in SUBSET Run,
           \A r \in changed : runs[r].state # "ABSENT",
           NEW state \in RunStates \ {"ABSENT"}, SetRuns(changed, state)
    PROVE  /\ RunsKept
           /\ \A r \in Run :
                 /\ runs'[r].policy = runs[r].policy
                 /\ r \in changed => runs'[r].state = state
                 /\ r \notin changed => runs'[r] = runs[r]
  <1>1. \A r \in Run : runs[r] \in RunRecord
    BY DEF IInv, TypeOK, RunRecord
  <1>2. ASSUME NEW r \in Run
        PROVE  /\ runs'[r] \in RunRecord /\ runs'[r].policy = runs[r].policy
               /\ runs[r].state # "ABSENT" => runs'[r].state # "ABSENT"
               /\ r \in changed => runs'[r].state = state
               /\ r \notin changed => runs'[r] = runs[r]
    <2>1. runs'[r] = IF r \in changed THEN [runs[r] EXCEPT !.state = state]
                                     ELSE runs[r]
      BY DEF SetRuns
    <2>2. CASE r \in changed
      <3>1. runs[r] \in RunRecord /\ runs[r].state # "ABSENT"
        BY <1>1, <2>2
      <3>2. /\ [runs[r] EXCEPT !.state = state] \in RunRecord
            /\ [runs[r] EXCEPT !.state = state].state = state
            /\ [runs[r] EXCEPT !.state = state].policy = runs[r].policy
        BY <3>1, RunChanges, 0 \in Nat
      <3>3. state # "ABSENT"
        OBVIOUS
      <3> QED
        BY <2>1, <2>2, <3>2, <3>3
    <2>3. CASE r \notin changed
      BY <1>1, <2>1, <2>3
    <2> QED
      BY <2>2, <2>3
  <1> QED
    BY <1>2 DEF SetRuns, RunsKept

-----------------------------------------------------------------------------
(* What is still under evaluation after a step was so before, and its run *)
(* and policy are as they were.                                            *)
LEMMA StillLive ==
    ASSUME IInv,
           \A c \in CheckId : checks'[c].state = "EVALUATING" =>
               /\ checks'[c] = checks[c]
               /\ active' = active
               /\ runs'[checks[c].run].state = "OPEN"
               /\ runs'[checks[c].run].policy = runs[checks[c].run].policy
    PROVE  EvaluatingIsLive'
  BY DEF IInv, EvaluatingIsLive, Evaluating

(* Runs leave OPEN, or the policy goes on, and take their checks along. *)
LEMMA LeavingRuns ==
    ASSUME IInv, NEW changed \in SUBSET Run,
           \A r \in changed : runs[r].state # "ABSENT",
           NEW runState \in RunStates \ {"ABSENT"}, SetRuns(changed, runState),
           NEW state \in {"EXPIRED", "STALE", "CANCELLED"},
           EndChecks(UNION {EvaluatingOf(r) : r \in changed}, state),
           \/ active' = active
           \/ \A r \in Run : runs[r].state = "OPEN" => r \in changed,
           UNCHANGED <<chain, slots>>
    PROVE  RunsKept /\ ChainKept /\ ChecksKept /\ EvaluatingIsLive'
  <1> DEFINE ended == UNION {EvaluatingOf(r) : r \in changed}
  <1>1. ended \in SUBSET Evaluating
    BY DEF EvaluatingOf
  <1>2. ChainKept
    BY ChainStays
  <1>3. /\ RunsKept
        /\ \A r \in Run : r \notin changed => runs'[r] = runs[r]
    BY SetRunsKept
  <1> HIDE DEF ended
  <1>4. /\ ChecksKept
        /\ \A c \in CheckId : /\ c \in ended => checks'[c].state = state
                              /\ c \notin ended => checks'[c] = checks[c]
    <2>1. EndChecks(ended, state)
      BY DEF ended
    <2> QED
      BY <1>1, <1>2, <2>1, EndedChecksKept
  <1>5. ASSUME NEW c \in CheckId, checks'[c].state = "EVALUATING"
        PROVE  /\ checks'[c] = checks[c]
               /\ active' = active
               /\ runs'[checks[c].run].state = "OPEN"
               /\ runs'[checks[c].run].policy = runs[checks[c].run].policy
    <2>1. c \notin ended /\ checks'[c] = checks[c]
      BY <1>4, <1>5
    <2>2. /\ c \in Evaluating /\ checks[c].run \in Run
          /\ runs[checks[c].run].state = "OPEN"
      BY <1>5, <2>1 DEF Evaluating, IInv, EvaluatingIsLive, CheckFits
    <2>3. checks[c].run \notin changed
      BY <2>1, <2>2 DEF ended, EvaluatingOf
    <2> QED
      BY <1>3, <2>1, <2>2, <2>3
  <1> QED
    BY <1>2, <1>3, <1>4, <1>5, StillLive

LEMMA LeavingRun ==
    ASSUME IInv, NEW r \in Run, runs[r].state # "ABSENT",
           NEW runState \in RunStates \ {"ABSENT"}, SetRuns({r}, runState),
           NEW state \in {"EXPIRED", "STALE", "CANCELLED"},
           EndChecks(EvaluatingOf(r), state), UNCHANGED <<active, chain, slots>>
    PROVE  RunsKept /\ ChainKept /\ ChecksKept /\ EvaluatingIsLive'
  <1>1. EvaluatingOf(r) = UNION {EvaluatingOf(x) : x \in {r}}
    OBVIOUS
  <1> QED
    BY <1>1, LeavingRuns

(* Nothing happens to the checks or to what keeps them alive. *)
LEMMA LiveStays ==
    ASSUME IInv, UNCHANGED <<active, runs, checks>>
    PROVE  EvaluatingIsLive'
  BY StillLive DEF IInv, EvaluatingIsLive, Evaluating

LEMMA HostKnown == ASSUME IInv PROVE host \in {"READY", "DRAINING", "FAULTED"}
  BY DEF IInv, TypeOK

-----------------------------------------------------------------------------
(* tick() *)

LEMMA TickTimersKeeps == ASSUME IInv, TickTimers PROVE Kept
  <1> DEFINE silent == {r \in Run : Silent(r)}
  <1>1. silent \in SUBSET Run /\ \A r \in silent : runs[r].state # "ABSENT"
    BY DEF Silent
  <1>2. RunsKept /\ ChainKept /\ ChecksKept /\ EvaluatingIsLive'
    <2> HIDE DEF silent
    <2>1. /\ SetRuns(silent, "PAUSED")
          /\ EndChecks(UNION {EvaluatingOf(r) : r \in silent}, "STALE")
          /\ active' = active /\ UNCHANGED <<chain, slots>>
      BY DEF TickTimers, silent
    <2> QED
      BY <1>1, <2>1, LeavingRuns DEF RunStates
  <1>3. CardsKept
    <2>1. now \in Nat
      BY ClockAssumption DEF IInv, TypeOK, CycleTypeOK
    <2>2. ASSUME NEW v \in CheckId PROVE CardKept(v)
      <3>1. reviews'[v] = Ticked(reviews[v], now)
        BY DEF TickTimers
      <3>2. Good(reviews[v]) /\ Good(reviews'[v])
        BY <2>1, <3>1, CardHolds, TickIsGood
      <3>3. CASE reviews'[v] = reviews[v]
        BY <3>3, CardStays
      <3>4. CASE \/ PastDue(reviews[v], now) /\ reviews'[v] = Expired(reviews[v])
                 \/ Lapsed(reviews[v], now) /\ reviews'[v] = Released(reviews[v])
                 \/ WakeDue(reviews[v], now) /\ reviews'[v] = Woken(reviews[v])
        <4>1. Record(reviews[v])
          BY <3>2, ReviewFields DEF Good
        <4>2. reviews[v].state # "ABSENT"
          BY <3>4 DEF PastDue, Lapsed, WakeDue, IsActive, ActiveStates
        <4>3. /\ reviews'[v].run = reviews[v].run
              /\ reviews'[v].state \in {"EXPIRED", "OPEN"}
          BY <3>4, <4>1, ExpiredFields, ReleasedFields, WokenFields DEF Becomes
        <4>4. IsActive(reviews[v])
          BY <3>4 DEF PastDue, Lapsed, WakeDue, IsActive, ActiveStates
        <4> QED
          BY <3>2, <4>2, <4>3, <4>4, CardMoves
      <3> QED
        BY <2>1, <3>1, <3>2, <3>3, <3>4, TickFiresOnce
    <2> QED
      BY <2>2 DEF TickTimers, CardsKept
  <1> QED
    BY <1>2, <1>3, CycleKeeps, RestStays, HostKnown DEF TickTimers, Kept

LEMMA RepliesKeep ==
    ASSUME IInv, NEW c \in CheckId, NEW m \in Monitor,
           Reply(c, m) \/ Mismatch(c, m)
    PROVE  Kept
  <1>1. UNCHANGED <<active, runs, chain, checks, reviews, bound, rejected>>
    BY DEF Reply, Mismatch, store
  <1>2. /\ slots' \in [CheckId -> [Monitor -> {"none", "pending", "done", "timeout"}]]
        /\ \A d \in CheckId : checks[d].state # "EVALUATING" => slots'[d] = slots[d]
    <2>1. CASE Mismatch(c, m)
      BY <2>1 DEF Mismatch, store, IInv, TypeOK
    <2>2. CASE Reply(c, m)
      <3>1. PICK s \in {"timeout", "done"} : slots' = [slots EXCEPT ![c][m] = s]
        BY <2>2 DEF Reply
      <3>2. slots \in [CheckId -> [Monitor -> {"none", "pending", "done", "timeout"}]]
        BY DEF IInv, TypeOK
      <3>3. checks[c].state = "EVALUATING"
        BY <2>2 DEF Reply, Awaited
      <3> QED
        BY <3>1, <3>2, <3>3
    <2> QED
      BY <2>1, <2>2
  <1>3. host' \in {"READY", "DRAINING", "FAULTED"}
    BY HostKnown DEF Reply, Mismatch
  <1>4. RestKept
    BY <1>1, <1>2, <1>3 DEF RestKept, IInv, TypeOK
  <1>5. CycleKept
    BY CycleKeeps DEF Reply, Mismatch
  <1> QED
    BY <1>1, <1>2, <1>3, <1>4, <1>5, RunsStay, ChainStays, ChecksStay, CardsStay,
       LiveStays
    DEF Kept

LEMMA TickReturnsKeeps == ASSUME IInv, TickReturns PROVE Kept
  <1>1. CycleKept
    BY CycleKeeps DEF TickReturns
  <1> QED
    BY <1>1, RunsStay, ChainStays, ChecksStay, CardsStay, RestStays, LiveStays,
       HostKnown
    DEF Kept, TickReturns, store

-----------------------------------------------------------------------------
(* Requests that change runs, and what they take along. *)

LEMMA StaysKeep ==
    ASSUME IInv, CycleKept, UNCHANGED <<host, store>>
    PROVE  Kept
  BY RunsStay, ChainStays, ChecksStay, CardsStay, RestStays, LiveStays, HostKnown
  DEF Kept, store

LEMMA LeavingRequestsKeep ==
    ASSUME IInv, NEW r \in Run,
           SourceGap(r) \/ Quarantine(r) \/ Pause(r) \/ Close(r)
    PROVE  Kept
  <1>1. CycleKept
    BY CycleKeeps DEF SourceGap, Quarantine, Pause, Close, Admitted,
                      AdmittedDraining
  <1>2. RunsKept /\ ChainKept /\ ChecksKept /\ EvaluatingIsLive'
    BY LeavingRun DEF SourceGap, Quarantine, Pause, Close, RunStates
  <1>3. CardsKept
    BY CardsStay, ExpiredReviewsKept
    DEF SourceGap, Quarantine, Pause, Close, ActiveOf
  <1> QED
    BY <1>1, <1>2, <1>3, RestStays, HostKnown
    DEF Kept, SourceGap, Quarantine, Pause, Close

LEMMA ActivateKeeps == ASSUME IInv, ActivatePolicy PROVE Kept
  <1> DEFINE open == {r \in Run : runs[r].state = "OPEN"}
  <1>1. open \in SUBSET Run /\ \A r \in open : runs[r].state # "ABSENT"
    OBVIOUS
  <1>2. RunsKept /\ ChainKept /\ ChecksKept /\ EvaluatingIsLive'
    <2>1. /\ SetRuns(open, "PAUSED")
          /\ EndChecks(UNION {EvaluatingOf(r) : r \in open}, "STALE")
          /\ \A r \in Run : runs[r].state = "OPEN" => r \in open
          /\ UNCHANGED <<chain, slots>>
      BY DEF ActivatePolicy
    <2> HIDE DEF open
    <2> QED
      BY <1>1, <2>1, LeavingRuns DEF RunStates
  <1>3. CardsKept
    <2>1. UNION {ActiveOf(r) : r \in open} \in SUBSET ActiveReviews
      BY DEF ActiveOf
    <2> QED
      BY <2>1, ExpiredReviewsKept DEF ActivatePolicy
  <1>4. active' \in 0 .. Len(Policies)
    BY DEF ActivatePolicy, IInv, TypeOK
  <1>5. RestKept
    BY <1>4, HostKnown DEF ActivatePolicy, RestKept, IInv, TypeOK
  <1>6. CycleKept
    BY CycleKeeps DEF ActivatePolicy, Admitted
  <1> QED
    BY <1>2, <1>3, <1>5, <1>6 DEF Kept

LEMMA DrainKeeps == ASSUME IInv, Drain PROVE Kept
  <1>1. CycleKept /\ RunsKept /\ ChainKept /\ CardsKept
    BY CycleKeeps, RunsStay, ChainStays, CardsStay DEF Drain, AdmittedDraining
  <1>2. CASE host = "DRAINING"
    BY <1>1, <1>2, ChecksStay, RestStays, LiveStays DEF Kept, Drain
  <1>3. CASE host # "DRAINING"
    <2>1. /\ ChecksKept
          /\ \A c \in CheckId :
                /\ c \in Evaluating => checks'[c].state = "EXPIRED"
                /\ c \notin Evaluating => checks'[c] = checks[c]
      BY <1>1, <1>3, EndedChecksKept DEF Drain
    <2>2. EvaluatingIsLive'
      BY <2>1, StillLive DEF Evaluating
    <2> QED
      BY <1>1, <2>1, <2>2, RestStays DEF Kept, Drain
  <1> QED
    BY <1>2, <1>3

(* A signal only drains the host: the checks go on with what they are. *)
LEMMA SignalKeeps == ASSUME IInv, SignalDrain PROVE Kept
  <1>1. CycleKept
    BY CycleKeeps DEF SignalDrain
  <1> QED
    BY <1>1, RunsStay, ChainStays, ChecksStay, CardsStay, RestStays, LiveStays
    DEF Kept, SignalDrain, store

LEMMA RestartKeeps == ASSUME IInv, Restart PROVE Kept
  <1>1. CycleKept /\ ChainKept
    BY CycleKeeps, ChainStays DEF Restart
  <1>2. RunsKept
    BY SetRunsKept DEF Restart, RunStates
  <1>3. /\ ChecksKept
        /\ \A c \in CheckId :
              /\ c \in Evaluating => checks'[c].state = "EXPIRED"
              /\ c \notin Evaluating => checks'[c] = checks[c]
    BY <1>1, EndedChecksKept DEF Restart
  <1>4. EvaluatingIsLive'
    BY <1>3, StillLive DEF Evaluating
  <1>5. CardsKept
    BY ExpiredReviewsKept DEF Restart
  <1> QED
    BY <1>1, <1>2, <1>3, <1>4, <1>5, RestStays DEF Kept, Restart

-----------------------------------------------------------------------------
(* Requests that open runs, append observations and resume. *)

LEMMA OpenRunKeeps == ASSUME IInv, NEW r \in Run, OpenRun(r) PROVE Kept
  <1>1. runs \in [Run -> RunRecord] /\ active \in Generation
    BY DEF OpenRun, IInv, TypeOK, RunRecord, Generation
  <1>2. [state |-> "OPEN", policy |-> active, received |-> 0] \in RunRecord
    BY <1>1 DEF RunRecord, RunStates
  <1>3. RunsKept
    BY <1>1, <1>2 DEF OpenRun, RunsKept
  <1>4. EvaluatingIsLive'
    BY StillLive DEF OpenRun, IInv, EvaluatingIsLive, Evaluating, CheckFits, TypeOK
  <1>5. CycleKept
    BY CycleKeeps DEF OpenRun, Admitted
  <1> QED
    BY <1>3, <1>4, <1>5, ChainStays, ChecksStay, CardsStay, RestStays, HostKnown
    DEF Kept, OpenRun

LEMMA ObserveKeeps ==
    ASSUME IInv, NEW r \in Run, NEW cut \in Nat, NEW s \in Snapshot,
           Observe(r, cut, s)
    PROVE  Kept
  <1>1. /\ runs \in [Run -> RunRecord] /\ runs[r].state # "ABSENT"
        /\ chain \in [Run -> Seq(Observation)] /\ now \in Nat
    <2>1. runs \in [Run -> RunRecord] /\ chain \in [Run -> Seq(Observation)]
      BY DEF IInv, TypeOK, RunRecord, Observation
    <2>2. now \in Nat
      BY ClockAssumption DEF IInv, TypeOK, CycleTypeOK
    <2>3. runs[r].state # "ABSENT"
      BY DEF Observe
    <2> QED
      BY <2>1, <2>2, <2>3
  <1>2. RunsKept /\ \A q \in Run : /\ runs'[q].state = runs[q].state
                                 /\ runs'[q].policy = runs[q].policy
    <2>1. /\ runs'[r] \in RunRecord /\ runs'[r].state = runs[r].state
          /\ runs'[r].policy = runs[r].policy
      BY <1>1, RunChanges, "OPEN" \in RunStates \ {"ABSENT"} DEF Observe, RunStates
    <2>2. \A q \in Run : q # r => runs'[q] = runs[q]
      BY <1>1 DEF Observe
    <2>3. runs' = [q \in Run |-> runs'[q]]
      BY <1>1 DEF Observe
    <2> QED
      BY <1>1, <2>1, <2>2, <2>3 DEF RunsKept
  <1>3. ChainKept
    <2>1. [cut |-> cut, snapshot |-> s] \in Observation
      BY DEF Observation
    <2>2. /\ Append(chain[r], [cut |-> cut, snapshot |-> s]) \in Seq(Observation)
          /\ Len(Append(chain[r], [cut |-> cut, snapshot |-> s]))
               = Len(chain[r]) + 1
      BY <1>1, <2>1
    <2>3. \A q \in Run : Len(chain[q]) \in Nat
      BY ChainLengths
    <2>4. \A n \in 1 .. Len(chain[r]) :
             Append(chain[r], [cut |-> cut, snapshot |-> s])[n] = chain[r][n]
      BY <1>1, <2>1
    <2>5. chain' = [chain EXCEPT ![r] = Append(chain[r], [cut |-> cut,
                                                         snapshot |-> s])]
      BY DEF Observe
    <2>6. /\ \A q \in Run : q # r => chain'[q] = chain[q]
          /\ chain'[r] = Append(chain[r], [cut |-> cut, snapshot |-> s])
          /\ chain' = [q \in Run |-> chain'[q]]
      BY <1>1, <2>5
    <2>7. chain' \in [Run -> Seq(Observation)]
      BY <1>1, <2>2, <2>6
    <2>8. ASSUME NEW q \in Run
          PROVE  /\ Len(chain[q]) <= Len(chain'[q])
                 /\ \A n \in 1 .. Len(chain[q]) : chain'[q][n] = chain[q][n]
      BY <2>2, <2>3, <2>4, <2>6
    <2> QED
      BY <2>7, <2>8 DEF ChainKept
  <1>4. EvaluatingIsLive'
    BY <1>2, StillLive
    DEF Observe, IInv, EvaluatingIsLive, Evaluating, CheckFits
  <1>5. CycleKept
    BY CycleKeeps DEF Observe, Admitted
  <1> QED
    BY <1>2, <1>3, <1>4, <1>5, ChecksStay, CardsStay, RestStays, HostKnown
    DEF Kept, Observe

LEMMA ResumeKeeps == ASSUME IInv, NEW r \in Run, Resume(r) PROVE Kept
  <1>1. /\ RunsKept
        /\ \A q \in Run : /\ runs'[q].policy = runs[q].policy
                          /\ runs[q].state = "OPEN" => runs'[q].state = "OPEN"
    BY SetRunsKept DEF Resume, RunStates
  <1>2. EvaluatingIsLive'
    BY <1>1, StillLive DEF Resume, IInv, EvaluatingIsLive, Evaluating, CheckFits
  <1>3. CycleKept
    BY CycleKeeps DEF Resume, AdmittedDraining
  <1> QED
    BY <1>1, <1>2, <1>3, ChainStays, ChecksStay, CardsStay, RestStays, HostKnown
    DEF Kept, Resume

-----------------------------------------------------------------------------
(* Checks begin and end. *)

(* One check changes. *)
LEMMA CheckPut ==
    ASSUME IInv, ChainKept, NEW c \in CheckId, NEW x \in Check,
           checks' = [checks EXCEPT ![c] = x], CheckKept(c),
           \A d \in CheckId : d # c => slots'[d] = slots[d]
    PROVE  ChecksKept
  <1>1. checks \in [CheckId -> Check]
    BY DEF IInv, TypeOK
  <1>2. ASSUME NEW d \in CheckId, d # c PROVE CheckKept(d)
    <2>1. checks'[d] = checks[d] /\ slots'[d] = slots[d]
      BY <1>1, <1>2
    <2>2. checks[d].state # "ABSENT" =>
            /\ checks[d].run \in Run /\ checks[d].intent \in Intent
            /\ checks[d].policy \in Generation
            /\ checks[d].observation \in 1 .. Len(chain[checks[d].run])
      BY DEF IInv, CheckFits
    <2>3. checks[d].state # "ABSENT" =>
            checks[d].observation \in 1 .. Len(chain'[checks[d].run])
      BY <2>2, ChainLengths DEF ChainKept
    <2> QED
      BY <1>1, <2>1, <2>2, <2>3 DEF CheckKept, CheckFits, SameRequest
  <1>3. checks' = [d \in CheckId |-> checks'[d]]
    BY <1>1
  <1> QED
    BY <1>2, <1>3 DEF ChecksKept

LEMMA CancelKeeps == ASSUME IInv, NEW c \in CheckId, Cancel(c) PROVE Kept
  <1>1. CycleKept /\ ChainKept /\ RunsKept /\ CardsKept
    BY CycleKeeps, ChainStays, RunsStay, CardsStay DEF Cancel, AdmittedDraining
  <1>2. {c} \in SUBSET Evaluating
    BY DEF Cancel, Evaluating
  <1>3. /\ ChecksKept
        /\ \A d \in CheckId : /\ d = c => checks'[d].state = "CANCELLED"
                              /\ d # c => checks'[d] = checks[d]
    BY <1>1, <1>2, EndedChecksKept DEF Cancel
  <1>4. EvaluatingIsLive'
    BY <1>3, StillLive DEF Cancel, IInv, EvaluatingIsLive, Evaluating
  <1> QED
    BY <1>1, <1>3, <1>4, RestStays, HostKnown DEF Kept, Cancel

LEMMA CreateKeeps ==
    ASSUME IInv, NEW c \in CheckId, NEW r \in Run, NEW i \in Intent,
           NEW n \in 1 .. Len(chain[r]), NEW v \in CheckId \cup {None},
           CreateCheck(c, r, i, n, v)
    PROVE  Kept
  <1> DEFINE state == IF <<r, i.action>> \in rejected THEN "DENY" ELSE "EVALUATING"
             x == [state |-> state, run |-> r, intent |-> i, observation |-> n,
                   policy |-> active, created |-> now, review |-> v,
                   expires |-> 0]
  <1>1. /\ now \in Nat /\ active \in Generation /\ n \in Nat
        /\ checks \in [CheckId -> Check]
    BY ClockAssumption, ChainLengths
    DEF CreateCheck, IInv, TypeOK, CycleTypeOK, Generation
  <1>2. state \in CheckStates
    BY DEF CheckStates
  <1>3. /\ x \in Check /\ x.state = state /\ x.run = r /\ x.intent = i
        /\ x.observation = n /\ x.policy = active
    <2> HIDE DEF state
    <2> QED
      BY <1>1, <1>2 DEF Check, Generation
  <1>4. checks' = [checks EXCEPT ![c] = x] /\ checks[c].state = "ABSENT"
    BY DEF CreateCheck
  <1>5. checks'[c] = x /\ \A d \in CheckId : d # c => checks'[d] = checks[d]
    BY <1>1, <1>4
  <1>6. ChainKept
    BY ChainStays DEF CreateCheck
  <1>7. state # "ABSENT"
    OBVIOUS
  <1> HIDE DEF x, state
  <1>8. ChecksKept
    <2>1. CheckKept(c)
      BY <1>1, <1>3, <1>4, <1>5, <1>7 DEF CheckKept, CheckFits, CreateCheck
    <2>2. \A d \in CheckId : d # c => slots'[d] = slots[d]
      BY DEF CreateCheck, IInv, TypeOK
    <2> QED
      BY <1>3, <1>4, <1>6, <2>1, <2>2, CheckPut
  <1>9. EvaluatingIsLive'
    <2>1. /\ host' = "READY" /\ active' = active /\ runs' = runs
          /\ runs[r].state = "OPEN" /\ runs[r].policy = active
      BY DEF CreateCheck, Admitted
    <2> QED
      BY <1>3, <1>5, <2>1 DEF IInv, EvaluatingIsLive, Evaluating
  <1>10. RestKept
    <2>1. slots' \in [CheckId -> [Monitor -> {"none", "pending", "done", "timeout"}]]
      BY DEF CreateCheck, IInv, TypeOK
    <2>2. bound' \in [Run -> [Action -> Intent \cup {None}]]
      BY DEF CreateCheck, IInv, TypeOK, Action
    <2> QED
      BY <2>1, <2>2, HostKnown DEF CreateCheck, RestKept, IInv, TypeOK
  <1>11. CycleKept
    BY CycleKeeps DEF CreateCheck, Admitted
  <1> QED
    BY <1>6, <1>8, <1>9, <1>10, <1>11, RunsStay, CardsStay DEF Kept, CreateCheck

-----------------------------------------------------------------------------
(* Requests on reviews. *)

LEMMA PolicyTimes ==
    ASSUME NEW g \in Generation
    PROVE  /\ Policies[g].lease \in Nat /\ Policies[g].accept \in Nat
           /\ Policies[g].ttl \in Nat /\ Policies[g].clearance \in Nat
           /\ Policies[g].freshness \in Nat
  BY PoliciesAssumption

(* What a request makes of a card. *)
LEMMA CardResults ==
    ASSUME IInv, NEW v \in CheckId, NEW p \in Principal,
           reviews[v].state # "ABSENT",
           NEW x \in ClaimResults(v, p) \cup ResolveResults(v, p)
    PROVE  /\ Good(x) /\ x.run = reviews[v].run /\ x.state # "ABSENT"
           /\ IsActive(x) => IsActive(reviews[v])
  <1> DEFINE r == reviews[v]
             g == runs[r.run].policy
  <1>1. /\ Good(r) /\ Record(r) /\ r.due \in Nat /\ now \in Nat
        /\ Policies[g].lease \in Nat /\ Policies[g].accept \in Nat
    <2>1. now \in Nat
      BY ClockAssumption DEF IInv, TypeOK, CycleTypeOK
    <2>2. runs[r.run] \in RunRecord /\ runs[r.run].state # "ABSENT"
      BY CardHolds DEF IInv, TypeOK, RunRecord
    <2> QED
      BY <2>1, <2>2, CardHolds, ReviewFields, RunFields, PolicyTimes DEF Good
  <1> HIDE DEF g
  <1> DEFINE Fine(y) == /\ Good(y) /\ y.run = r.run /\ y.state # "ABSENT"
                        /\ IsActive(y) => IsActive(r)
  <1>2. CASE x = Expired(r)
    BY <1>1, <1>2, ExpiredIsGood, ExpiredFields
    DEF Becomes, IsActive, ActiveStates
  <1>3. CASE IsActive(r) /\ x = Released(r)
    BY <1>1, <1>3, ReleasedIsGood, ReleasedFields DEF Becomes
  <1>4. CASE IsActive(r) /\ x = Claimed(r, p, now, Policies[g].lease)
    <2> DEFINE lease == Policies[g].lease
    <2>1. lease \in Nat
      BY <1>1
    <2> HIDE DEF lease
    <2>2. Good(Claimed(r, p, now, lease))
      BY <1>1, <2>1, ClaimedIsGood
    <2>3. /\ Claimed(r, p, now, lease).run = r.run
          /\ Claimed(r, p, now, lease).state = "CLAIMED"
      BY <1>1, ClaimedFields DEF Becomes
    <2> QED
      BY <1>4, <2>2, <2>3 DEF lease
  <1>5. CASE r.state = "CLAIMED" /\ x = Accepted(r, now, Policies[g].accept)
    <2> DEFINE accept == Policies[g].accept
    <2>1. r.owner \in Principal /\ accept \in Nat
      BY <1>1, <1>5 DEF Good, Sound
    <2> HIDE DEF accept
    <2>2. Good(Accepted(r, now, accept))
      BY <1>1, <2>1, AcceptedIsGood
    <2>3. /\ Accepted(r, now, accept).run = r.run
          /\ Accepted(r, now, accept).state = "ACCEPTED"
      BY <1>1, AcceptedFields DEF Becomes
    <2> QED
      BY <1>5, <2>2, <2>3 DEF accept, IsActive, ActiveStates
  <1>6. CASE x = Rejected(r)
    BY <1>1, <1>6, FinalIsGood, RejectedFields
    DEF Becomes, IsActive, ActiveStates
  <1>7. ASSUME IsActive(r), NEW w \in (now + 1) .. (r.due - 1), x = Deferred(r, w)
        PROVE  Fine(x)
    <2>1. w \in Nat /\ w < r.due
      BY <1>1
    <2>2. Deferred(r, w).state = "DEFERRED" /\ Deferred(r, w).run = r.run
      BY <1>1, DeferredFields DEF Becomes
    <2> QED
      BY <1>1, <1>7, <2>1, <2>2, DeferredIsGood
  <1>8. /\ r.state \in {"OPEN", "CLAIMED"} => IsActive(r)
        /\ Claimable(r, p) => r.state \in {"OPEN", "CLAIMED"}
    BY DEF Claimable, IsActive, ActiveStates
  <1> QED
    BY <1>2, <1>3, <1>4, <1>5, <1>6, <1>7, <1>8
    DEF ClaimResults, ResolveResults, HeldBy, Lapsed, g

LEMMA ReviewRequestsKeep ==
    ASSUME IInv, NEW v \in CheckId, NEW p \in Principal,
           Claim(p, v) \/ Resolve(p, v)
    PROVE  Kept
  <1>1. CycleKept
    BY CycleKeeps DEF Claim, Resolve, Admitted, AdmittedDraining
  <1>2. PICK x \in ClaimResults(v, p) \cup ResolveResults(v, p) :
            reviews' = [reviews EXCEPT ![v] = x]
    BY DEF Claim, Resolve
  <1>3. CardsKept
    BY <1>2, CardResults, CardPut DEF Claim, Resolve, Reviewable
  <1>4. rejected' \subseteq Run \X Action
    <2>1. checks[v].run \in Run /\ IntentOf(v) \in Intent
      BY CardHolds DEF Claim, Resolve, Reviewable, IInv, CheckFits, IntentOf
    <2>2. <<checks[v].run, IntentOf(v).action>> \in Run \X Action
      BY <2>1 DEF Action
    <2> QED
      BY <2>2 DEF Claim, Resolve, IInv, TypeOK
  <1>5. RestKept
    BY <1>4, HostKnown DEF Claim, Resolve, RestKept, IInv, TypeOK
  <1> QED
    BY <1>1, <1>3, <1>5, RunsStay, ChainStays, ChecksStay, LiveStays
    DEF Kept, Claim, Resolve

-----------------------------------------------------------------------------
(* Finalization. *)

LEMMA OutcomeIsOne ==
    ASSUME NEW c
    PROVE  Outcome(c) \in {"STALE", "EXPIRED", "DENY", "CLEAR", "OPENS", "HELD"}
  BY DEF Outcome

LEMMA HeldFindsCard ==
    ASSUME NEW c, Outcome(c) = "HELD"
    PROVE  SameBasis(c) # {}
  BY DEF Outcome

LEMMA FinalizeKeeps == ASSUME IInv, NEW c \in CheckId, Finalize(c) PROVE Kept
  <1> DEFINE k == checks[c]
             x == Finalized(c)
             s == Outcome(c)
  <1>1. /\ checks \in [CheckId -> Check] /\ k.state = "EVALUATING"
        /\ k.run \in Run /\ k.intent \in Intent /\ k.policy \in Generation
        /\ k.observation \in 1 .. Len(chain[k.run])
        /\ now \in Nat /\ runs[k.run].state = "OPEN"
    <2>1. checks \in [CheckId -> Check] /\ k.state = "EVALUATING"
      BY DEF Finalize, Due, IInv, TypeOK
    <2>2. now \in Nat
      BY ClockAssumption DEF IInv, TypeOK, CycleTypeOK
    <2>3. runs[k.run].state = "OPEN"
      BY <2>1 DEF IInv, EvaluatingIsLive, Evaluating
    <2>4. CheckFits(c)
      BY DEF IInv
    <2> QED
      BY <2>1, <2>2, <2>3, <2>4 DEF CheckFits
  <1>2. k \in Check /\ k.review \in CheckId \cup {None} /\ k.expires \in Nat
    BY <1>1, CheckFields
  <1>3. \E state \in CheckStates \ {"ABSENT", "EVALUATING"},
           review \in CheckId \cup {None}, expires \in Nat :
           Decides(k, x, state, review, expires)
    <2>1. CASE s = "OPENS"
      BY <1>2, <2>1, HeldDecides DEF Finalized, CheckStates
    <2>2. CASE s = "HELD"
      <3> DEFINE v == CHOOSE r \in SameBasis(c) : TRUE
      <3>1. v \in CheckId
        BY <2>2, HeldFindsCard DEF SameBasis, ActiveReviews
      <3>2. x = [k EXCEPT !.state = "HELD", !.review = v]
        BY <2>2 DEF Finalized
      <3> HIDE DEF v, x
      <3> QED
        BY <1>2, <3>1, <3>2, HeldDecides DEF CheckStates
    <2>3. CASE s = "CLEAR"
      <3> DEFINE e == Least(now + PolicyOf(c).clearance,
                            ObservationOf(c).cut + PolicyOf(c).freshness)
      <3>1. e \in Nat
        <4>1. chain[k.run] \in Seq(Observation)
          BY <1>1 DEF IInv, TypeOK, Observation
        <4>2. ObservationOf(c) \in Observation
          BY <1>1, <4>1 DEF ObservationOf
        <4>3. ObservationOf(c).cut \in Nat
          BY <4>2 DEF Observation
        <4>4. PolicyOf(c).clearance \in Nat /\ PolicyOf(c).freshness \in Nat
          BY <1>1, PolicyTimes DEF PolicyOf
        <4>5. /\ now + PolicyOf(c).clearance \in Nat
              /\ ObservationOf(c).cut + PolicyOf(c).freshness \in Nat
          BY <1>1, <4>3, <4>4
        <4> QED
          BY <4>5, LeastIsLeast
      <3>2. x = [k EXCEPT !.state = "CLEAR", !.expires = e]
        BY <2>3 DEF Finalized
      <3> HIDE DEF e, x
      <3> QED
        BY <1>2, <3>1, <3>2, ClearedDecides DEF CheckStates
    <2>4. CASE s \in {"STALE", "EXPIRED", "DENY"}
      <3>1. x = [k EXCEPT !.state = s]
        BY <2>4 DEF Finalized
      <3> HIDE DEF x, s
      <3> QED
        BY <1>2, <2>4, <3>1, EndedDecides DEF CheckStates
    <2> QED
      BY <2>1, <2>2, <2>3, <2>4, OutcomeIsOne
  <1>4. /\ x \in Check /\ x.state \notin {"ABSENT", "EVALUATING"}
        /\ x.run = k.run /\ x.intent = k.intent /\ x.policy = k.policy
        /\ x.observation = k.observation
    BY <1>2, <1>3, DecidesCheck DEF Decides
  <1>5. checks' = [checks EXCEPT ![c] = x] /\ UNCHANGED <<chain, slots>>
    BY DEF Finalize
  <1> HIDE DEF x, s
  <1>6. checks'[c] = x /\ \A d \in CheckId : d # c => checks'[d] = checks[d]
    BY <1>1, <1>5
  <1>7. ChainKept
    BY <1>5, ChainStays
  <1>8. ChecksKept
    <2>1. CheckKept(c)
      BY <1>1, <1>4, <1>5, <1>6 DEF CheckKept, CheckFits, SameRequest
    <2> QED
      BY <1>4, <1>5, <1>7, <2>1, CheckPut
  <1>9. EvaluatingIsLive'
    BY <1>4, <1>6, StillLive
    DEF Finalize, IInv, EvaluatingIsLive, Evaluating
  <1>10. CardsKept
    <2>1. CASE s = "OPENS"
      <3> DEFINE y == Opened(k.run, "blocking", "warning", now + PolicyOf(c).ttl)
      <3>1. reviews' = [reviews EXCEPT ![c] = y]
        BY <2>1 DEF Finalize, s
      <3>2. now + PolicyOf(c).ttl \in Nat
        BY <1>1, PolicyTimes DEF PolicyOf
      <3>3. Good(y) /\ y.run = k.run /\ y.state = "OPEN"
        <4>1. Good(y)
          BY <1>1, <3>2, NewCardIsGood DEF Kinds, Levels
        <4> QED
          BY <4>1 DEF Opened, NoReview
      <3>4. reviews \in [CheckId -> Review]
        BY DEF IInv, TypeOK
      <3> HIDE DEF y
      <3>5. CardKept(c)
        <4>1. x.state = "HELD"
          <5>1. x = [k EXCEPT !.state = "HELD", !.review = c]
            BY <2>1 DEF Finalized, x, s
          <5> HIDE DEF k
          <5>2. Decides(k, x, "HELD", c, k.expires)
            BY <1>2, <5>1, HeldDecides
          <5> QED
            BY <5>2 DEF Decides
        <4>2. reviews'[c] = y /\ checks'[c].state = "HELD"
          BY <1>6, <3>1, <3>4, <4>1
        <4>3. Opens(c)
          BY <1>1, <1>6, <2>1, <3>3, <4>2 DEF Opens, s
        <4> QED
          BY <3>1, <3>3, <3>4, <4>3 DEF CardKept
      <3>6. \A v \in CheckId : v # c => CardKept(v)
        BY <3>1, <3>4, CardStays
      <3> QED
        BY <3>1, <3>4, <3>5, <3>6 DEF CardsKept
    <2>2. CASE s = "CLEAR" /\ Consumes(c)
      <3> DEFINE v == k.review
      <3>1. /\ v \in CheckId /\ reviews[v].state = "ACCEPTED"
            /\ reviews' = [reviews EXCEPT ![v] = Consumed(reviews[v])]
        BY <1>2, <2>2 DEF Finalize, Consumes, Spendable, s
      <3>2. Good(reviews[v]) /\ Record(reviews[v])
        BY <3>1, CardHolds, ReviewFields DEF Good
      <3>3. /\ Good(Consumed(reviews[v]))
            /\ Consumed(reviews[v]).run = reviews[v].run
            /\ Consumed(reviews[v]).state = "CONSUMED"
        BY <3>2, FinalIsGood, ConsumedFields DEF Becomes
      <3> QED
        BY <3>1, <3>3, CardPut DEF IsActive, ActiveStates
    <2>3. CASE s # "OPENS" /\ ~(s = "CLEAR" /\ Consumes(c))
      BY <2>3, CardsStay DEF Finalize, s
    <2> QED
      BY <2>1, <2>2, <2>3
  <1>11. CycleKept
    BY CycleKeeps DEF Finalize
  <1> QED
    BY <1>7, <1>8, <1>9, <1>10, <1>11, RunsStay, RestStays, HostKnown
    DEF Kept, Finalize

-----------------------------------------------------------------------------
LEMMA InitHolds == ASSUME Init PROVE IInv
  <1>1. NoCheck \in Check
    BY DEF NoCheck, Check, CheckStates
  <1>2. Good(NoReview)
    <2>1. PICK r \in Run : TRUE
      BY RunAssumption
    <2> QED
      BY <2>1, NewCardIsGood DEF Kinds, Levels
  <1>3. CycleTypeOK({"timers", "settle"})
    BY ClockAssumption DEF Init, CycleInit, CycleTypeOK
  <1>4. << >> \in Seq([cut : Nat, snapshot : Snapshot])
    OBVIOUS
  <1>5. active \in 0 .. Len(Policies)
    BY BoundsAssumption DEF Init
  <1> QED
    BY <1>1, <1>2, <1>3, <1>4, <1>5
    DEF Init, IInv, TypeOK, EvaluatingIsLive, Evaluating, CheckFits, CardFits,
        Good, NoCheck, NoReview

LEMMA NextKeeps == ASSUME IInv, [Next]_vars PROVE Kept
  <1>1. CASE Take \/ Rejection \/ UNCHANGED vars
    <2>1. CycleKept /\ UNCHANGED <<host, store>>
      BY <1>1, CycleKeeps DEF Take, Rejection, vars
    <2> QED
      BY <2>1, StaysKeep
  <1>2. CASE Tick
    BY <1>2, TickTimersKeeps, TickReturnsKeeps, FinalizeKeeps DEF Tick
  <1>3. CASE Restart \/ ActivatePolicy \/ Drain \/ SignalDrain
    BY <1>3, RestartKeeps, ActivateKeeps, DrainKeeps, SignalKeeps
  <1>4. CASE \E r \in Run :
                \/ OpenRun(r) \/ SourceGap(r) \/ Quarantine(r)
                \/ Pause(r) \/ Resume(r) \/ Close(r)
    BY <1>4, OpenRunKeeps, LeavingRequestsKeep, ResumeKeeps
  <1>5. CASE \E r \in Run : \E cut \in 1 .. now, s \in Snapshot : Observe(r, cut, s)
    BY <1>5, ObserveKeeps
  <1>6. CASE \E r \in Run : \E c \in CheckId, i \in Intent,
                v \in CheckId \cup {None} :
                   \E n \in 1 .. Len(chain[r]) : CreateCheck(c, r, i, n, v)
    BY <1>6, CreateKeeps
  <1>7. CASE \E c \in CheckId :
                \/ Cancel(c)
                \/ \E m \in Monitor : Reply(c, m) \/ Mismatch(c, m)
                \/ \E p \in Principal : Claim(p, c) \/ Resolve(p, c)
    BY <1>7, CancelKeeps, RepliesKeep, ReviewRequestsKeep
  <1> QED
    BY <1>1, <1>2, <1>3, <1>4, <1>5, <1>6, <1>7 DEF Next

(***************************************************************************)
(* What a check or a card points to is there, at every step of the daemon. *)
(***************************************************************************)
THEOREM Invariance == Spec => []IInv
  <1>1. Init => IInv
    BY InitHolds
  <1>2. IInv /\ [Next]_vars => IInv'
    BY NextKeeps, KeptIsInductive
  <1> QED
    BY <1>1, <1>2, PTL DEF Spec

(* Every variable of the blocking path keeps to its type. *)
THEOREM TypeCorrect == Spec => []TypeOK
  BY Invariance, PTL DEF IInv

(***************************************************************************)
(* expire_run_checks and its callers: whatever takes a run out of OPEN or  *)
(* replaces the policy ends what is under evaluation for it, on a host     *)
(* that drains after a signal as on one that is READY.                     *)
(***************************************************************************)
THEOREM ChecksEndWithTheirRun == Spec => []EvaluatingIsLive
  BY Invariance, PTL DEF IInv

(* A decided check, and its evidence, never changes again. *)
THEOREM DecisionsAreFinal == Spec => DecidedOnce
  <1>1. IInv /\ [Next]_vars =>
          [\A c \in CheckId :
              checks[c].state \notin {"ABSENT", "EVALUATING"} =>
                  checks'[c] = checks[c] /\ slots'[c] = slots[c]]_vars
    BY NextKeeps DEF Kept, ChecksKept, CheckKept
  <1> QED
    BY <1>1, Invariance, PTL DEF Spec, DecidedOnce

=============================================================================
