---------------------------- MODULE WindowsProofs ----------------------------
(***************************************************************************)
(* The safety properties of Windows, for any number of runs, any policy    *)
(* and any bounds.                                                         *)
(*                                                                         *)
(* All of them follow from one invariant per run.  Windows are evaluated   *)
(* in order because behind the last evaluated one none is left unattempted *)
(* (Behind), so a window that is due lies after all of them, and because a *)
(* tick takes up the earliest of these (Collected).  That gives each new   *)
(* alert a first window of its own, and makes the streak counters of the   *)
(* drift record count the end of the trail (Streaks).  Two more invariants *)
(* rest on it: what the alerts count (Tallies), and which windows have a   *)
(* row without counts (MarkersReviewed).                                   *)
(***************************************************************************)
EXTENDS Windows, ReviewsProofs, SequenceTheorems, FiniteSetTheorems

Entry == [start : Start, counts : Counts \cup {Missing}, flags : SUBSET Trailing]

Ordered(t) == \A i, j \in DOMAIN t : i < j => t[i].start < t[j].start

(* No window up to an evaluated one is left unattempted. *)
Behind(run, row, t) ==
    /\ run.state = "ABSENT" => t = << >>
    /\ \A i \in DOMAIN t : \A s \in Start :
          run.opened <= s /\ s <= t[i].start => row[s] # NoRow

(* An alert began with an evaluated window, and no two with the same one. *)
Known(t, as) == \A i \in DOMAIN as : \E j \in DOMAIN t : t[j].start = as[i].first
Apart(as) ==
    \A i, j \in DOMAIN as :
        \/ as[i].state # "RESOLVED" /\ as[j].state # "RESOLVED"
        \/ as[i].first = as[j].first
        => i = j

Agrees(d, as) == \A i \in DOMAIN as : as[i].state # "RESOLVED" => d.state = "DRIFT"

(* LastAll, with the counts that satisfy P as a set. *)
LastIn(t, k, S) ==
    /\ Len(t) >= k
    /\ \A i \in 1 .. k : t[Len(t) - i + 1].counts \in S
    /\ \A i \in 1 .. k - 1 :
          t[Len(t) - i + 1].start = t[Len(t) - i].start + Window

HighCounts == {k \in Counts : High(k)}
LowCounts == {k \in Counts : Low(k)}

(* The drift record counts the end of the trail. *)
Streaks(d, t) ==
    /\ d.last = IF t = << >> THEN 0 ELSE t[Len(t)].start
    /\ d.state = "SUSPECT" => LastIn(t, d.high, HighCounts)
    /\ d.state = "DRIFT" => LastIn(t, d.low, LowCounts)

RunInv(run, row, d, t, as) ==
    /\ Behind(run, row, t)
    /\ Ordered(t)
    /\ \A m \in Trailing : Known(t, as[m]) /\ Apart(as[m])
    /\ Agrees(d, as["distribution"])
    /\ Streaks(d, t)

(* While a tick evaluates, its batch is what it was but for what is done,  *)
(* and what is due and not in it comes later: the batch is full.           *)
Collected ==
    phase = "evaluating" =>
        \A r \in Run :
            /\ \A d \in batch[r] :
                  d \in DueWindows(r) \/ (Attempted(r, d) /\ Evaluated(r, d))
            /\ \A s \in DueWindows(r) \ batch[r] :
                  Cardinality(batch[r]) = Batch /\ \A d \in batch[r] : d < s

IInv ==
    /\ TypeOK
    /\ \A r \in Run : RunInv(runs[r], rows[r], drift[r], trail[r], alerts[r])
    /\ Collected

-----------------------------------------------------------------------------
(* The trail. *)

LEMMA StartIsNat == ASSUME NEW s \in Start PROVE s \in Nat /\ s >= 1
  BY WindowsAssumption DEF Start

LEMMA NextStart ==
    ASSUME NEW a \in Start, NEW b \in Start, a < b, b <= a + Window
    PROVE  b = a + Window
  <1>1. a \in Nat /\ b \in Nat /\ a % Window = 0 /\ b % Window = 0
    BY StartIsNat DEF Start
  <1>2. Window \in Nat /\ Window > 0
    BY DriftAssumption
  <1> DEFINE p == a \div Window
             q == b \div Window
  <1>3. p \in Int /\ q \in Int /\ a = Window * p /\ b = Window * q
    BY <1>1, <1>2
  <1> HIDE DEF p, q
  <1>4. p < q
    <2> SUFFICES ASSUME q <= p PROVE FALSE
      BY <1>3
    <2>1. Window * q <= Window * p
      BY <1>2, <1>3
    <2>. QED  BY <2>1, <1>1, <1>3
  <1>5. q < p + 2
    <2> SUFFICES ASSUME p + 2 <= q PROVE FALSE
      BY <1>3
    <2>1. Window * (p + 2) <= Window * q
      BY <1>2, <1>3
    <2>2. Window * (p + 2) = Window * p + Window + Window
      BY <1>2, <1>3
    <2>. QED  BY <2>1, <2>2, <1>1, <1>2, <1>3
  <1>6. q = p + 1 /\ Window * (p + 1) = Window * p + Window
    BY <1>2, <1>3, <1>4, <1>5
  <1>. QED  BY <1>3, <1>6

LEMMA AppendFields ==
    ASSUME NEW S, NEW t \in Seq(S), NEW e \in S
    PROVE  /\ Append(t, e) \in Seq(S)
           /\ Len(t) \in Nat /\ DOMAIN t = 1 .. Len(t)
           /\ Len(Append(t, e)) = Len(t) + 1
           /\ DOMAIN Append(t, e) = 1 .. Len(t) + 1
           /\ \A i \in DOMAIN t : Append(t, e)[i] = t[i]
           /\ Append(t, e)[Len(t) + 1] = e
           /\ t = << >> <=> Len(t) = 0
           /\ Append(t, e) # << >>
  BY AppendProperties, EmptySeq

(* One more window at the end of a streak. *)
LEMMA StreakGrows ==
    ASSUME NEW t \in Seq(Entry), NEW e \in Entry, NEW k \in Nat, NEW S,
           LastIn(t, k, S), e.counts \in S,
           k > 0 => e.start = t[Len(t)].start + Window
    PROVE  LastIn(Append(t, e), k + 1, S)
  <1> DEFINE x == Append(t, e)
             n == Len(t)
  <1>1. /\ n \in Nat /\ Len(x) = n + 1 /\ x[n + 1] = e /\ n >= k
        /\ \A i \in 1 .. n : x[i] = t[i]
    BY AppendFields, DOMAIN t = 1 .. n DEF LastIn
  <1> HIDE DEF x
  <1>2. \A i \in 1 .. k + 1 : x[n + 1 - i + 1].counts \in S
    <2> TAKE i \in 1 .. k + 1
    <2>1. CASE i = 1
      BY <2>1, <1>1
    <2>2. CASE i # 1
      <3>1. i - 1 \in 1 .. k /\ n - (i - 1) + 1 = n + 1 - i + 1
            /\ n + 1 - i + 1 \in 1 .. n
        BY <2>2, <1>1
      <3>. QED  BY <3>1, <1>1 DEF LastIn
    <2>. QED  BY <2>1, <2>2
  <1>3. \A i \in 1 .. k :
            x[n + 1 - i + 1].start = x[n + 1 - i].start + Window
    <2> TAKE i \in 1 .. k
    <2>1. CASE i = 1
      BY <2>1, <1>1
    <2>2. CASE i # 1
      <3>1. /\ i - 1 \in 1 .. k - 1 /\ n - (i - 1) + 1 = n + 1 - i + 1
            /\ n - (i - 1) = n + 1 - i
            /\ n + 1 - i + 1 \in 1 .. n /\ n + 1 - i \in 1 .. n
        BY <2>2, <1>1
      <3>. QED  BY <3>1, <1>1 DEF LastIn
    <2>. QED  BY <2>1, <2>2
  <1>4. LastIn(x, k + 1, S)
    BY <1>1, <1>2, <1>3 DEF LastIn
  <1>. QED  BY <1>4 DEF x

LEMMA StreakShrinks ==
    ASSUME NEW t \in Seq(Entry), NEW k \in Nat, NEW S, LastIn(t, k, S),
           NEW n \in Nat, n <= k
    PROVE  LastIn(t, n, S)
  BY Len(t) \in Nat DEF LastIn

LEMMA NoStreak == ASSUME NEW t \in Seq(Entry), NEW S PROVE LastIn(t, 0, S)
  BY Len(t) \in Nat DEF LastIn

LEMMA HighLast ==
    ASSUME NEW t, NEW k, LastIn(t, k, HighCounts)
    PROVE  LastAll(t, k, High)
  BY DEF LastIn, LastAll, HighCounts

LEMMA LowLast ==
    ASSUME NEW t, NEW k, LastIn(t, k, LowCounts)
    PROVE  LastAll(t, k, Low)
  BY DEF LastIn, LastAll, LowCounts

-----------------------------------------------------------------------------
(* The drift reducer. *)

LEMMA StepType ==
    ASSUME NEW d \in DriftRecord, NEW start \in Start, NEW k
    PROVE  Step(d, start, k) \in DriftRecord
  <1>1. start \in Nat /\ HighWindows \in Nat
    BY StartIsNat, DriftAssumption
  <1>2. /\ Reset(d, start) \in DriftRecord
        /\ AfterHigh(d, start) \in DriftRecord
        /\ AfterMiddle(d, start) \in DriftRecord
        /\ AfterLow(d, start) \in DriftRecord
    BY <1>1 DEF Reset, AfterHigh, AfterMiddle, AfterLow, To, DriftRecord, DriftStates
  <1>. QED  BY <1>2 DEF Step

(* A window after the last one resets the record or counts. *)
LEMMA StepCases ==
    ASSUME NEW d \in DriftRecord, NEW start \in Start, NEW k, start > d.last
    PROVE  LET x == Step(d, start, k) IN
           \/ x = Reset(d, start)
           \/ Follows(d, start) /\ High(k) /\ x = AfterHigh(d, start)
           \/ Follows(d, start) /\ Low(k) /\ x = AfterLow(d, start)
           \/ Follows(d, start) /\ x = AfterMiddle(d, start)
  <1>1. ~(start <= d.last)
    BY StartIsNat DEF DriftRecord
  <1>. QED  BY <1>1 DEF Step

(***************************************************************************)
(* One evaluated window keeps the streaks, and moves the record in or out  *)
(* of DRIFT only with a full streak behind it.                             *)
(***************************************************************************)
LEMMA StepStreaks ==
    ASSUME NEW d \in DriftRecord, NEW t \in Seq(Entry), NEW e \in Entry,
           Streaks(d, t), t # << >> => d.last < e.start
    PROVE  LET x == Step(d, e.start, e.counts)
               u == Append(t, e)
           IN  /\ Streaks(x, u)
               /\ d.state # "DRIFT" /\ x.state = "DRIFT" =>
                     LastIn(u, HighWindows, HighCounts)
               /\ d.state = "DRIFT" /\ x.state # "DRIFT" =>
                     LastIn(u, LowWindows, LowCounts)
  <1> DEFINE x == Step(d, e.start, e.counts)
             u == Append(t, e)
             s == e.start
             Good2 == /\ Streaks(x, u)
                      /\ d.state # "DRIFT" /\ x.state = "DRIFT" =>
                            LastIn(u, HighWindows, HighCounts)
                      /\ d.state = "DRIFT" /\ x.state # "DRIFT" =>
                            LastIn(u, LowWindows, LowCounts)
  <1>1. /\ u \in Seq(Entry) /\ u # << >> /\ u[Len(u)] = e
        /\ u[Len(u)].start = s
        /\ Len(t) \in Nat /\ (t # << >> => Len(t) \in 1 .. Len(t))
    BY AppendFields
  <1>2. /\ s \in Start /\ s \in Nat /\ s >= 1
        /\ e.counts \in Counts \cup {Missing}
    BY StartIsNat DEF Entry
  <1>3. d.last \in Nat /\ d.high \in Nat /\ d.low \in Nat /\ d.last < s
    BY <1>2 DEF DriftRecord, Streaks
  <1>4. HighWindows \in Nat \ {0} /\ LowWindows \in Nat \ {0}
    BY DriftAssumption
  <1>5. LastIn(u, 0, LowCounts) /\ LastIn(u, 0, HighCounts)
    BY <1>1, NoStreak
  <1>6. ASSUME Follows(d, s), t # << >>
        PROVE  s = t[Len(t)].start + Window
    <2>1. d.last = t[Len(t)].start /\ d.last \in Start
      <3>1. t[Len(t)] \in Entry
        BY <1>1, <1>6, ElementOfSeq
      <3>. QED  BY <3>1, <1>6 DEF Streaks, Entry
    <2>2. d.last # 0 /\ s <= d.last + Window
      BY <2>1, StartIsNat, <1>6 DEF Follows
    <2>. QED  BY <2>1, <2>2, <1>2, <1>3, NextStart
  <1>7. ASSUME NEW S, NEW n \in Nat, LastIn(t, n, S), e.counts \in S,
               Follows(d, s)
        PROVE  LastIn(u, n + 1, S)
    <2>1. n > 0 => t # << >>
      BY <1>7, <1>1, EmptySeq DEF LastIn
    <2>. QED  BY <2>1, <1>6, <1>7, StreakGrows
  <1> HIDE DEF u, s, x
  <1>8. x = Reset(d, s) => Good2
    BY <1>1, <1>5 DEF Reset, To, Streaks
  <1>9. Follows(d, s) /\ High(e.counts) /\ x = AfterHigh(d, s) => Good2
    <2> SUFFICES ASSUME Follows(d, s), High(e.counts), x = AfterHigh(d, s)
                 PROVE  Good2
      OBVIOUS
    <2>1. e.counts \in HighCounts
      BY <1>2 DEF HighCounts, High
    <2>2. LastIn(u, 1, HighCounts)
      BY <2>1, <1>7, NoStreak
    <2>3. d.state = "SUSPECT" => LastIn(u, d.high + 1, HighCounts)
      BY <2>1, <1>3, <1>7 DEF Streaks
    <2>4. d.state = "SUSPECT" /\ d.high + 1 >= HighWindows =>
             LastIn(u, HighWindows, HighCounts)
      BY <2>3, <1>1, <1>3, <1>4, StreakShrinks
    <2>. QED  BY <2>2, <2>3, <2>4, <1>1, <1>5 DEF AfterHigh, To, Streaks
  <1>10. Follows(d, s) /\ Low(e.counts) /\ x = AfterLow(d, s) => Good2
    <2> SUFFICES ASSUME Follows(d, s), Low(e.counts), x = AfterLow(d, s)
                 PROVE  Good2
      OBVIOUS
    <2>1. e.counts \in LowCounts
      BY <1>2 DEF LowCounts, Low
    <2>2. d.state = "DRIFT" => LastIn(u, d.low + 1, LowCounts)
      BY <2>1, <1>3, <1>7 DEF Streaks
    <2>3. d.state = "DRIFT" /\ ~(d.low + 1 < LowWindows) =>
             LastIn(u, LowWindows, LowCounts)
      BY <2>2, <1>1, <1>3, <1>4, StreakShrinks
    <2>. QED  BY <2>2, <2>3, <1>1, <1>5 DEF AfterLow, To, Streaks
  <1>11. x = AfterMiddle(d, s) => Good2
    BY <1>1, <1>5 DEF AfterMiddle, To, Streaks
  <1>12. Good2
    BY <1>8, <1>9, <1>10, <1>11, <1>2, <1>3, StepCases DEF x, s
  <1>. QED  BY <1>12 DEF x, u, s

-----------------------------------------------------------------------------
(* Alerts. *)

AlertList(as) == as \in Seq(Alert)

LEMMA NowIsNat == ASSUME TypeOK PROVE now \in Nat /\ now >= 1
  BY ClockAssumption DEF TypeOK, CycleTypeOK

LEMMA RepeatedType ==
    ASSUME NEW a \in Alert, NEW s \in Start
    PROVE  /\ Repeated(a, s) \in Alert
           /\ Repeated(a, s).first = a.first /\ Repeated(a, s).state = a.state
  <1> DEFINE x == [a EXCEPT !.occurrences = @ + 1]
             y == [x EXCEPT !.last = s]
             z == [y EXCEPT !.revision = @ + 1]
  <1>1. x \in Alert /\ x.first = a.first /\ x.state = a.state
    BY DEF Alert
  <1> HIDE DEF x
  <1>2. y \in Alert /\ y.first = a.first /\ y.state = a.state
    BY <1>1 DEF Alert
  <1> HIDE DEF y
  <1>3. z \in Alert /\ z.first = a.first /\ z.state = a.state
    BY <1>2 DEF Alert
  <1>4. Repeated(a, s) = z
    BY DEF Repeated, x, y, Alert
  <1>. QED  BY <1>3, <1>4

LEMMA ResolvedType ==
    ASSUME NEW a \in Alert
    PROVE  /\ Resolved(a) \in Alert
           /\ Resolved(a).first = a.first /\ Resolved(a).state = "RESOLVED"
  <1> DEFINE x == [a EXCEPT !.state = "RESOLVED"]
             y == [x EXCEPT !.revision = @ + 1]
  <1>1. x \in Alert /\ x.first = a.first /\ x.state = "RESOLVED"
    BY DEF Alert
  <1> HIDE DEF x
  <1>2. y \in Alert /\ y.first = a.first /\ y.state = "RESOLVED"
    BY <1>1 DEF Alert
  <1>3. Resolved(a) = y
    BY DEF Resolved, x, Alert
  <1>. QED  BY <1>2, <1>3

LEMMA NewAlertType ==
    ASSUME TypeOK, NEW r \in Run, NEW m \in Trailing, NEW s \in Start
    PROVE  /\ NewAlert(r, m, s) \in Alert
           /\ NewAlert(r, m, s).first = s /\ NewAlert(r, m, s).state = "OPEN"
  <1>1. /\ now + ReviewTtl \in Nat /\ Level(m) \in Levels
        /\ "trailing" \in Kinds
    BY NowIsNat, WindowsAssumption DEF Level, Levels, Kinds
  <1>2. Opened(r, "trailing", Level(m), now + ReviewTtl) \in Review
    BY <1>1, NewCardIsGood DEF Good
  <1>. QED  BY <1>2 DEF NewAlert, Alert

(* Alerts that keep their first window, and are at most resolved. *)
Aged(as, bs) ==
    /\ DOMAIN bs = DOMAIN as
    /\ \A i \in DOMAIN as :
          /\ bs[i].first = as[i].first
          /\ bs[i].state # "RESOLVED" => as[i].state # "RESOLVED"

LEMMA AgedInv ==
    ASSUME NEW t, NEW as, NEW bs, Aged(as, bs), Known(t, as), Apart(as)
    PROVE  Known(t, bs) /\ Apart(bs)
  BY DEF Aged, Known, Apart

(* One alert more, when all are resolved and none began with its window. *)
LEMMA NewEpisode ==
    ASSUME NEW t, NEW as \in Seq(Alert), NEW a \in Alert,
           Known(t, as), Apart(as),
           \A i \in DOMAIN as : as[i].state = "RESOLVED",
           \A i \in DOMAIN as : as[i].first # a.first,
           \E j \in DOMAIN t : t[j].start = a.first
    PROVE  /\ Append(as, a) \in Seq(Alert)
           /\ Known(t, Append(as, a)) /\ Apart(Append(as, a))
  <1> DEFINE n == Len(as)
             bs == Append(as, a)
  <1>1. /\ n \in Nat /\ DOMAIN as = 1 .. n
        /\ bs \in Seq(Alert) /\ DOMAIN bs = 1 .. n + 1
        /\ \A i \in DOMAIN as : bs[i] = as[i]
        /\ bs[n + 1] = a
    <2>1. n \in Nat /\ DOMAIN as = 1 .. n
      BY LenProperties
    <2>2. bs \in Seq(Alert)
      BY AppendFields
    <2>3. DOMAIN bs = 1 .. n + 1
      BY AppendFields
    <2>4. \A i \in DOMAIN as : bs[i] = as[i]
      BY <2>1, AppendProperties
    <2>5. bs[n + 1] = a
      BY AppendProperties
    <2>. QED  BY <2>1, <2>2, <2>3, <2>4, <2>5
  <1> HIDE DEF n, bs
  <1>2. \A i \in DOMAIN bs : i # n + 1 => i \in DOMAIN as
    BY <1>1
  <1>3. n + 1 \notin DOMAIN as
    BY <1>1
  <1>4. \A i \in DOMAIN bs : i = n + 1 \/ (i \in DOMAIN as /\ bs[i] = as[i])
    BY <1>1, <1>2
  <1>5. Known(t, bs)
    BY <1>1, <1>4 DEF Known
  <1>6. Apart(bs)
    <2> SUFFICES ASSUME NEW i \in DOMAIN bs, NEW j \in DOMAIN bs,
                        \/ bs[i].state # "RESOLVED" /\ bs[j].state # "RESOLVED"
                        \/ bs[i].first = bs[j].first
                 PROVE  i = j
      BY DEF Apart
    <2>1. CASE i \in DOMAIN as /\ j \in DOMAIN as
      BY <2>1, <1>1 DEF Apart
    <2>2. CASE i \in DOMAIN as /\ j = n + 1
      BY <2>2, <1>1
    <2>3. CASE i = n + 1 /\ j \in DOMAIN as
      BY <2>3, <1>1
    <2>. QED  BY <2>1, <2>2, <2>3, <1>4
  <1>. QED  BY <1>1, <1>5, <1>6 DEF bs

LEMMA SameLength ==
    ASSUME NEW as \in Seq(Alert), NEW bs,
           bs = [i \in DOMAIN as |-> bs[i]], \A i \in DOMAIN as : bs[i] \in Alert
    PROVE  bs \in Seq(Alert) /\ DOMAIN bs = DOMAIN as
  <1>1. Len(as) \in Nat /\ DOMAIN as = 1 .. Len(as)
    BY LenProperties
  <1>2. bs \in [1 .. Len(as) -> Alert]
    BY <1>1
  <1>. QED  BY <1>1, <1>2, SeqDef

LEMMA KnownLonger ==
    ASSUME NEW t \in Seq(Entry), NEW e \in Entry, NEW as, Known(t, as)
    PROVE  Known(Append(t, e), as)
  <1>1. \A j \in DOMAIN t : j \in DOMAIN Append(t, e) /\ Append(t, e)[j] = t[j]
    BY AppendFields
  <1>. QED  BY <1>1 DEF Known

LEMMA AlertsAfterInv ==
    ASSUME TypeOK, NEW r \in Run, NEW m \in Trailing, NEW e \in Entry,
           Known(trail[r], alerts[r][m]), Apart(alerts[r][m]),
           m = "distribution" => Agrees(drift[r], alerts[r][m]),
           \A j \in DOMAIN trail[r] : trail[r][j].start < e.start
    PROVE  LET bs == AlertsAfter(r, e.start, e.counts, m) IN
           /\ bs \in Seq(Alert)
           /\ Known(Append(trail[r], e), bs) /\ Apart(bs)
           /\ m = "distribution" =>
                 Agrees(Step(drift[r], e.start, e.counts), bs)
  <1> DEFINE t == trail[r]
             u == Append(t, e)
             as == alerts[r][m]
             bs == AlertsAfter(r, e.start, e.counts, m)
             x == Step(drift[r], e.start, e.counts)
  <1>1. /\ e.start \in Start /\ e.start \in Nat /\ e.counts \in Counts \cup {Missing}
        /\ t \in Seq(Entry) /\ as \in Seq(Alert)
    BY StartIsNat DEF Entry, TypeOK
  <1>2. /\ Len(as) \in Nat /\ DOMAIN as = 1 .. Len(as)
        /\ \A i \in DOMAIN as : as[i] \in Alert
    BY <1>1, LenProperties, ElementOfSeq
  <1>3. \A a \in Alert : ActiveAlert(a) <=> a.state # "RESOLVED"
    BY DEF ActiveAlert, Alert
  <1>4. Known(u, as)
    BY <1>1, KnownLonger
  <1>5. m = "distribution" /\ m \in Flags(r, e.start, e.counts) => x.state = "DRIFT"
    BY DEF Flags
  <1>6. CASE m \in Flags(r, e.start, e.counts) /\ HasEpisode(r, m)
    <2>1. bs = [i \in DOMAIN as |->
                  IF ActiveAlert(as[i]) THEN Repeated(as[i], e.start) ELSE as[i]]
      BY <1>6 DEF AlertsAfter, ChangeActive
    <2> HIDE DEF bs, as
    <2>2. \A i \in DOMAIN as : /\ bs[i] \in Alert /\ bs[i].first = as[i].first
                              /\ bs[i].state = as[i].state
      BY <1>1, <1>2, <2>1, RepeatedType
    <2>3. bs = [i \in DOMAIN as |-> bs[i]]
      BY <2>1
    <2>4. bs \in Seq(Alert) /\ Aged(as, bs)
      BY <1>1, <2>2, <2>3, SameLength DEF Aged
    <2>5. Known(u, bs) /\ Apart(bs)
      BY <2>4, <1>4, AgedInv DEF as
    <2>. QED  BY <2>4, <2>5, <1>5, <1>6 DEF Agrees, bs
  <1>7. CASE m \in Flags(r, e.start, e.counts) /\ ~HasEpisode(r, m)
    <2> DEFINE a == NewAlert(r, m, e.start)
    <2>1. bs = Append(as, a)
      BY <1>7 DEF AlertsAfter
    <2>2. a \in Alert /\ a.first = e.start /\ a.state = "OPEN"
      BY <1>1, NewAlertType
    <2>3. \A i \in DOMAIN as : as[i].state = "RESOLVED"
      BY <1>7, <1>2, <1>3 DEF HasEpisode
    <2>4. \A i \in DOMAIN as : as[i].first # e.start
      <3> TAKE i \in DOMAIN as
      <3>1. PICK j \in DOMAIN t : t[j].start = as[i].first
        BY DEF Known
      <3>2. t[j] \in Entry
        BY <1>1, ElementOfSeq, LenProperties
      <3>. QED  BY <3>1, <3>2, <1>1, StartIsNat DEF Entry
    <2>5. \E j \in DOMAIN u : u[j].start = a.first
      <3>1. Len(t) + 1 \in DOMAIN u /\ u[Len(t) + 1] = e
        BY <1>1, AppendFields
      <3>. QED  BY <3>1, <2>2
    <2>. HIDE DEF a, as, u
    <2>6. /\ Append(as, a) \in Seq(Alert)
          /\ Known(u, Append(as, a)) /\ Apart(Append(as, a))
      BY <1>1, <1>4, <2>2, <2>3, <2>4, <2>5, NewEpisode DEF as
    <2>. QED  BY <2>1, <2>6, <1>5, <1>7 DEF Agrees, u
  <1>8. CASE m \notin Flags(r, e.start, e.counts) /\ Clears(r, e.start, e.counts, m)
    <2>1. bs = [i \in DOMAIN as |->
                  IF ActiveAlert(as[i]) THEN Resolved(as[i]) ELSE as[i]]
      BY <1>8 DEF AlertsAfter, ChangeActive
    <2> HIDE DEF bs, as
    <2>2. \A i \in DOMAIN as : /\ bs[i] \in Alert /\ bs[i].first = as[i].first
                              /\ bs[i].state = "RESOLVED"
      BY <1>1, <1>2, <1>3, <2>1, ResolvedType
    <2>3. bs = [i \in DOMAIN as |-> bs[i]]
      BY <2>1
    <2>4. bs \in Seq(Alert) /\ Aged(as, bs) /\ DOMAIN bs = DOMAIN as
      BY <1>1, <2>2, <2>3, SameLength DEF Aged
    <2>5. Known(u, bs) /\ Apart(bs)
      BY <2>4, <1>4, AgedInv DEF as
    <2>. QED  BY <2>2, <2>4, <2>5 DEF Agrees, bs
  <1>9. CASE m \notin Flags(r, e.start, e.counts) /\ ~Clears(r, e.start, e.counts, m)
    <2>1. bs = as
      BY <1>9 DEF AlertsAfter
    <2>2. m = "distribution" /\ drift[r].state = "DRIFT" => x.state = "DRIFT"
      BY <1>9 DEF Clears
    <2>3. m = "distribution" => Agrees(x, as)
      BY <2>2 DEF Agrees
    <2>. QED  BY <2>1, <2>3, <1>1, <1>4
  <1>. QED  BY <1>6, <1>7, <1>8, <1>9

-----------------------------------------------------------------------------
(***************************************************************************)
(* The count of an episode.  Only the latest alert of a monitor can be     *)
(* active, and every flagged window so far lies within some alert, so the  *)
(* windows between the end of the active one and the window that is        *)
(* flagged next are unflagged: it is one flag more for that alert.         *)
(***************************************************************************)
FlaggedIn(t, m, a) ==
    {j \in DOMAIN t :
        m \in t[j].flags /\ a.first <= t[j].start /\ t[j].start <= a.last}

Tally(t, m, as) ==
    /\ \A i \in DOMAIN as :
          /\ as[i].first <= as[i].last
          /\ \E j \in DOMAIN t : t[j].start = as[i].last
          /\ as[i].occurrences = Cardinality(FlaggedIn(t, m, as[i]))
          /\ i # Len(as) => as[i].state = "RESOLVED"
    /\ \A i, j \in DOMAIN as : i < j => as[i].last < as[j].first
    /\ \A j \in DOMAIN t : m \in t[j].flags =>
          \E i \in DOMAIN as : j \in FlaggedIn(t, m, as[i])

Tallies == \A r \in Run, m \in Trailing : Tally(trail[r], m, alerts[r][m])

(* Alerts that are at most resolved. *)
AtMostResolved(as, bs) ==
    /\ DOMAIN bs = DOMAIN as /\ Len(bs) = Len(as)
    /\ \A i \in DOMAIN as :
          /\ bs[i].first = as[i].first /\ bs[i].last = as[i].last
          /\ bs[i].occurrences = as[i].occurrences
          /\ as[i].state = "RESOLVED" => bs[i].state = "RESOLVED"

LEMMA TallyKept ==
    ASSUME NEW t, NEW m, NEW as, NEW bs, Tally(t, m, as), AtMostResolved(as, bs)
    PROVE  Tally(t, m, bs)
  <1>1. \A i \in DOMAIN as : FlaggedIn(t, m, bs[i]) = FlaggedIn(t, m, as[i])
    BY DEF AtMostResolved, FlaggedIn
  <1>. QED  BY <1>1 DEF AtMostResolved, Tally

(* A window after all the others, and the alerts that it concerns. *)
LEMMA FlaggedLater ==
    ASSUME NEW t \in Seq(Entry), NEW e \in Entry, NEW m,
           NEW a, a.first \in Nat, a.last \in Nat,
           \A j \in DOMAIN t : t[j].start < e.start
    PROVE  /\ m \notin e.flags \/ a.last < e.start =>
                 FlaggedIn(Append(t, e), m, a) = FlaggedIn(t, m, a)
           /\ m \in e.flags /\ a.first <= e.start /\ e.start <= a.last =>
                 FlaggedIn(Append(t, e), m, a) =
                    FlaggedIn(t, m, a) \cup {Len(t) + 1}
           /\ FlaggedIn(t, m, a) \subseteq FlaggedIn(Append(t, e), m, a)
  <1> DEFINE u == Append(t, e)
             n == Len(t)
  <1>1. /\ n \in Nat /\ DOMAIN t = 1 .. n /\ DOMAIN u = 1 .. n + 1
        /\ u[n + 1] = e
    BY AppendFields
  <1>2. \A i \in 1 .. n : u[i] = t[i]
    BY <1>1, AppendProperties
  <1>3. e.start \in Nat
    BY StartIsNat DEF Entry
  <1> HIDE DEF u, n
  <1>4. n + 1 \notin 1 .. n /\ 1 .. n + 1 = (1 .. n) \cup {n + 1}
    BY <1>1
  <1>5. \A i \in 1 .. n : i \in FlaggedIn(u, m, a) <=> i \in FlaggedIn(t, m, a)
    BY <1>1, <1>2, <1>4 DEF FlaggedIn
  <1>6. n + 1 \in FlaggedIn(u, m, a) <=>
           m \in e.flags /\ a.first <= e.start /\ e.start <= a.last
    BY <1>1, <1>4 DEF FlaggedIn
  <1>7. /\ FlaggedIn(t, m, a) \subseteq 1 .. n
        /\ FlaggedIn(u, m, a) \subseteq (1 .. n) \cup {n + 1}
    BY <1>1, <1>4 DEF FlaggedIn
  <1>8. a.last < e.start => ~(e.start <= a.last)
    BY <1>3
  <1>9. /\ m \notin e.flags \/ a.last < e.start =>
              FlaggedIn(u, m, a) = FlaggedIn(t, m, a)
        /\ m \in e.flags /\ a.first <= e.start /\ e.start <= a.last =>
              FlaggedIn(u, m, a) = FlaggedIn(t, m, a) \cup {n + 1}
        /\ FlaggedIn(t, m, a) \subseteq FlaggedIn(u, m, a)
    BY <1>5, <1>6, <1>7, <1>8
  <1>. QED  BY <1>9 DEF u, n

LEMMA FlaggedIsFinite ==
    ASSUME NEW t \in Seq(Entry), NEW m, NEW a
    PROVE  /\ IsFiniteSet(FlaggedIn(t, m, a))
           /\ Cardinality(FlaggedIn(t, m, a)) \in Nat
           /\ Cardinality(FlaggedIn(t, m, a) \cup {Len(t) + 1}) =
                 Cardinality(FlaggedIn(t, m, a)) + 1
  <1> DEFINE n == Len(t)
  <1>1. n \in Nat /\ DOMAIN t = 1 .. n
    BY LenProperties
  <1> HIDE DEF n
  <1>2. IsFiniteSet(1 .. n) /\ FlaggedIn(t, m, a) \in SUBSET (1 .. n)
    BY <1>1, FS_Interval DEF FlaggedIn
  <1>3. IsFiniteSet(FlaggedIn(t, m, a)) /\ n + 1 \notin FlaggedIn(t, m, a)
    <2>1. n + 1 \notin 1 .. n
      BY <1>1
    <2>. QED  BY <1>2, <2>1, FS_Subset
  <1>4. /\ Cardinality(FlaggedIn(t, m, a)) \in Nat
        /\ Cardinality(FlaggedIn(t, m, a) \cup {n + 1}) =
              Cardinality(FlaggedIn(t, m, a)) + 1
    BY <1>3, FS_AddElement, FS_CardinalityType
  <1>. QED  BY <1>3, <1>4 DEF n

(* What the lemmas below start from: the sequences and their numbers. *)
Setting(t, e, as) ==
    /\ t \in Seq(Entry) /\ e \in Entry /\ as \in Seq(Alert)
    /\ \A j \in DOMAIN t : t[j].start < e.start

(* u is t with e at its end, after n windows, and l the number of alerts. *)
Facts(t, e, as, m, u, n, l) ==
    /\ n \in Nat /\ DOMAIN t = 1 .. n /\ DOMAIN u = 1 .. n + 1
    /\ u[n + 1] = e /\ e.start \in Nat
    /\ \A j \in DOMAIN t :
          j \in DOMAIN u /\ u[j] = t[j] /\ t[j].start \in Nat
    /\ l \in Nat /\ DOMAIN as = 1 .. l
    /\ \A i \in DOMAIN as :
          /\ as[i].first \in Nat /\ as[i].last \in Nat
          /\ as[i].last < e.start
          /\ FlaggedIn(u, m, as[i]) = FlaggedIn(t, m, as[i])
          /\ \E j \in DOMAIN u : u[j].start = as[i].last

LEMMA SettingFacts ==
    ASSUME NEW t, NEW e, NEW as, NEW m, Setting(t, e, as), Tally(t, m, as)
    PROVE  Facts(t, e, as, m, Append(t, e), Len(t), Len(as))
  <1>1. /\ t \in Seq(Entry) /\ e \in Entry /\ as \in Seq(Alert)
        /\ \A j \in DOMAIN t : t[j].start < e.start
    BY DEF Setting
  <1>2. /\ Len(t) \in Nat /\ DOMAIN t = 1 .. Len(t)
        /\ DOMAIN Append(t, e) = 1 .. Len(t) + 1
        /\ Append(t, e)[Len(t) + 1] = e
    BY <1>1, AppendFields
  <1>3. Len(as) \in Nat /\ DOMAIN as = 1 .. Len(as)
    BY <1>1, LenProperties
  <1>4. ASSUME NEW j \in DOMAIN t
        PROVE  /\ j \in DOMAIN Append(t, e) /\ Append(t, e)[j] = t[j]
               /\ t[j].start \in Nat
    <2>1. t[j] \in Entry
      BY <1>1, <1>2, ElementOfSeq
    <2>2. j \in DOMAIN Append(t, e)
      BY <1>2
    <2>3. Append(t, e)[j] = t[j]
      BY <1>1, <1>2, AppendProperties
    <2>. QED  BY <2>1, <2>2, <2>3, StartIsNat DEF Entry
  <1>5. e.start \in Nat
    BY <1>1, StartIsNat DEF Entry
  <1>6. ASSUME NEW i \in DOMAIN as
        PROVE  /\ as[i].first \in Nat /\ as[i].last \in Nat
               /\ as[i].last < e.start
               /\ FlaggedIn(Append(t, e), m, as[i]) = FlaggedIn(t, m, as[i])
               /\ \E j \in DOMAIN Append(t, e) :
                     Append(t, e)[j].start = as[i].last
    <2>1. as[i] \in Alert
      BY <1>1, <1>3, ElementOfSeq
    <2>2. as[i].first \in Nat /\ as[i].last \in Nat
      BY <2>1, StartIsNat DEF Alert
    <2>3. PICK j \in DOMAIN t : t[j].start = as[i].last
      BY DEF Tally
    <2>4. as[i].last < e.start
      BY <2>3, <1>1
    <2>5. FlaggedIn(Append(t, e), m, as[i]) = FlaggedIn(t, m, as[i])
      BY <1>1, <2>2, <2>4, FlaggedLater
    <2>. QED  BY <2>2, <2>3, <2>4, <2>5, <1>4
  <1>. QED  BY <1>2, <1>3, <1>4, <1>5, <1>6 DEF Facts

LEMMA AlertAppended ==
    ASSUME NEW as \in Seq(Alert), NEW a \in Alert
    PROVE  /\ DOMAIN Append(as, a) = 1 .. Len(as) + 1
           /\ Len(Append(as, a)) = Len(as) + 1
           /\ Append(as, a)[Len(as) + 1] = a
           /\ \A i \in DOMAIN as : Append(as, a)[i] = as[i]
  <1>1. \A i \in DOMAIN as : i \in 1 .. Len(as)
    BY LenProperties
  <1>2. Len(Append(as, a)) = Len(as) + 1 /\ Append(as, a)[Len(as) + 1] = a
    BY AppendProperties
  <1>3. DOMAIN Append(as, a) = 1 .. Len(as) + 1
    BY AppendFields
  <1>4. \A i \in 1 .. Len(as) : Append(as, a)[i] = as[i]
    BY AppendProperties
  <1>. QED  BY <1>1, <1>2, <1>3, <1>4

(* A window that is not flagged. *)
LEMMA TallyUnflagged ==
    ASSUME NEW t, NEW e, NEW as, NEW m, Setting(t, e, as), Tally(t, m, as),
           m \notin e.flags
    PROVE  Tally(Append(t, e), m, as)
  <1> DEFINE u == Append(t, e)
             n == Len(t)
  <1>1. Facts(t, e, as, m, u, n, Len(as))
    BY SettingFacts
  <1> HIDE DEF u, n
  <1>2. /\ n \in Nat /\ DOMAIN t = 1 .. n /\ DOMAIN u = 1 .. n + 1
        /\ u[n + 1] = e
        /\ \A j \in DOMAIN t : u[j] = t[j]
        /\ \A i \in DOMAIN as :
              /\ FlaggedIn(u, m, as[i]) = FlaggedIn(t, m, as[i])
              /\ \E j \in DOMAIN u : u[j].start = as[i].last
    BY <1>1 DEF Facts
  <1>3. ASSUME NEW j \in DOMAIN u, m \in u[j].flags
        PROVE  \E i \in DOMAIN as : j \in FlaggedIn(u, m, as[i])
    <2>1. j \in DOMAIN t /\ m \in t[j].flags
      BY <1>2, <1>3
    <2>. QED  BY <2>1, <1>2 DEF Tally
  <1>4. Tally(u, m, as)
    BY <1>2, <1>3 DEF Tally
  <1>. QED  BY <1>4 DEF u

(* A flagged window while no alert is active: the first of a new one. *)
LEMMA TallyNew ==
    ASSUME NEW t, NEW e, NEW as, NEW m, NEW a \in Alert,
           Setting(t, e, as), Tally(t, m, as), m \in e.flags,
           a.first = e.start, a.last = e.start, a.occurrences = 1,
           \A i \in DOMAIN as : as[i].state = "RESOLVED"
    PROVE  Tally(Append(t, e), m, Append(as, a))
  <1> DEFINE u == Append(t, e)
             n == Len(t)
             l == Len(as)
             bs == Append(as, a)
  <1>1. Facts(t, e, as, m, u, n, l)
    BY SettingFacts
  <1> HIDE DEF u, n
  <1>2. /\ n \in Nat /\ DOMAIN t = 1 .. n /\ DOMAIN u = 1 .. n + 1
        /\ u[n + 1] = e /\ e.start \in Nat
        /\ \A j \in DOMAIN t : u[j] = t[j] /\ t[j].start \in Nat
    BY <1>1 DEF Facts
  <1>3. l \in Nat /\ DOMAIN as = 1 .. l
    BY <1>1 DEF Facts
  <1>4. \A i \in DOMAIN as :
           /\ as[i].last < e.start
           /\ FlaggedIn(u, m, as[i]) = FlaggedIn(t, m, as[i])
           /\ \E j \in DOMAIN u : u[j].start = as[i].last
    BY <1>1 DEF Facts
  <1>5. /\ DOMAIN bs = 1 .. l + 1 /\ Len(bs) = l + 1 /\ bs[l + 1] = a
        /\ \A i \in DOMAIN as : bs[i] = as[i]
    BY AlertAppended DEF Setting
  <1>6. t \in Seq(Entry) /\ \A j \in DOMAIN t : t[j].start < e.start
    BY DEF Setting
  <1> HIDE DEF l, bs
  <1>7. FlaggedIn(u, m, a) = {n + 1}
    <2>1. n + 1 \in FlaggedIn(u, m, a)
      BY <1>2 DEF FlaggedIn
    <2>2. ASSUME NEW j \in FlaggedIn(u, m, a)
          PROVE  j = n + 1
      <3>1. j \in 1 .. n + 1 /\ e.start <= u[j].start
        BY <1>2, <2>2 DEF FlaggedIn
      <3>2. j \notin DOMAIN t
        BY <3>1, <1>2, <1>6
      <3>. QED  BY <3>1, <3>2, <1>2
    <2>. QED  BY <2>1, <2>2
  <1>8. Cardinality({n + 1}) = 1
    BY FS_Singleton
  <1>9. /\ \A i \in DOMAIN bs : i = l + 1 \/ (i \in DOMAIN as /\ bs[i] = as[i])
        /\ \A i \in DOMAIN as : i \in DOMAIN bs /\ bs[i] = as[i]
        /\ \A i, j \in DOMAIN bs : i < j => i \in DOMAIN as /\ bs[i] = as[i]
        /\ l + 1 \in DOMAIN bs
    <2>1. \A i \in 1 .. l + 1 : i = l + 1 \/ i \in 1 .. l
      BY <1>3
    <2>2. \A i \in 1 .. l : i \in 1 .. l + 1
      BY <1>3
    <2>3. \A i, j \in 1 .. l + 1 : i < j => i \in 1 .. l
      BY <1>3
    <2>4. l + 1 \in 1 .. l + 1
      BY <1>3
    <2>. QED  BY <2>1, <2>2, <2>3, <2>4, <1>3, <1>5
  <1>10. ASSUME NEW i \in DOMAIN bs
        PROVE  /\ bs[i].first <= bs[i].last
               /\ \E j \in DOMAIN u : u[j].start = bs[i].last
               /\ bs[i].occurrences = Cardinality(FlaggedIn(u, m, bs[i]))
               /\ i # Len(bs) => bs[i].state = "RESOLVED"
    <2>1. CASE i = l + 1
      <3>1. n + 1 \in DOMAIN u
        BY <1>2
      <3>. QED  BY <2>1, <3>1, <1>2, <1>5, <1>7, <1>8
    <2>2. CASE i \in DOMAIN as /\ bs[i] = as[i]
      <3>. QED  BY <2>2, <1>3, <1>4 DEF Tally
    <2>. QED  BY <2>1, <2>2, <1>9
  <1>11. ASSUME NEW i \in DOMAIN bs, NEW j \in DOMAIN bs, i < j
        PROVE  bs[i].last < bs[j].first
    <2>1. i \in DOMAIN as /\ bs[i] = as[i]
      BY <1>9, <1>11
    <2>2. CASE j = l + 1
      BY <2>1, <2>2, <1>4, <1>5
    <2>3. CASE j \in DOMAIN as /\ bs[j] = as[j]
      BY <2>1, <2>3, <1>11 DEF Tally
    <2>. QED  BY <2>2, <2>3, <1>9
  <1>12. ASSUME NEW j \in DOMAIN u, m \in u[j].flags
        PROVE  \E i \in DOMAIN bs : j \in FlaggedIn(u, m, bs[i])
    <2>1. CASE j = n + 1
      BY <2>1, <1>9, <1>5, <1>7
    <2>2. CASE j # n + 1
      <3>1. j \in DOMAIN t /\ u[j] = t[j]
        BY <2>2, <1>2
      <3>2. PICK i \in DOMAIN as : j \in FlaggedIn(t, m, as[i])
        BY <3>1, <1>12 DEF Tally
      <3>3. i \in DOMAIN bs /\ bs[i] = as[i]
        BY <1>9
      <3>. QED  BY <3>2, <3>3, <1>4
    <2>. QED  BY <2>1, <2>2
  <1>13. Tally(u, m, bs)
    BY <1>10, <1>11, <1>12 DEF Tally
  <1>. QED  BY <1>13 DEF u, bs

(* A flagged window while the latest alert is active: one more of it. *)
LastRepeated(e, as, bs, l, a) ==
    /\ l = Len(as) /\ l \in DOMAIN as /\ DOMAIN bs = DOMAIN as /\ Len(bs) = l
    /\ \A i \in DOMAIN as : i # l => bs[i] = as[i]
    /\ bs[l] = a /\ a.first = as[l].first /\ a.last = e.start
    /\ a.occurrences = as[l].occurrences + 1

LEMMA TallyRepeated ==
    ASSUME NEW t, NEW e, NEW as, NEW m, NEW l, NEW bs, NEW a,
           Setting(t, e, as), Tally(t, m, as), m \in e.flags,
           LastRepeated(e, as, bs, l, a)
    PROVE  Tally(Append(t, e), m, bs)
  <1> DEFINE u == Append(t, e)
             n == Len(t)
  <1>1. Facts(t, e, as, m, u, n, l)
    BY SettingFacts DEF LastRepeated
  <1> HIDE DEF u, n
  <1>2. /\ n \in Nat /\ DOMAIN t = 1 .. n /\ DOMAIN u = 1 .. n + 1
        /\ u[n + 1] = e /\ e.start \in Nat
        /\ \A j \in DOMAIN t : u[j] = t[j] /\ t[j].start \in Nat
    BY <1>1 DEF Facts
  <1>3. l \in Nat /\ DOMAIN as = 1 .. l
    BY <1>1 DEF Facts
  <1>4. \A i \in DOMAIN as :
           /\ as[i].first \in Nat /\ as[i].last \in Nat
           /\ as[i].last < e.start
    BY <1>1 DEF Facts
  <1>5. \A i \in DOMAIN as :
           /\ FlaggedIn(u, m, as[i]) = FlaggedIn(t, m, as[i])
           /\ \E j \in DOMAIN u : u[j].start = as[i].last
    BY <1>1 DEF Facts
  <1>6. /\ t \in Seq(Entry) /\ e \in Entry
        /\ \A j \in DOMAIN t : t[j].start < e.start
    BY DEF Setting
  <1>7. l \in DOMAIN as /\ DOMAIN bs = DOMAIN as /\ Len(bs) = l
    BY DEF LastRepeated
  <1>8. \A i \in DOMAIN as : i # l => bs[i] = as[i]
    BY DEF LastRepeated
  <1>9. /\ bs[l] = a /\ a.first = as[l].first /\ a.last = e.start
        /\ a.occurrences = as[l].occurrences + 1
    BY DEF LastRepeated
  <1>10. as[l].first <= as[l].last
    BY <1>7 DEF Tally
  <1>11. PICK f \in Nat, g \in Nat, z \in Nat :
            as[l].first = f /\ as[l].last = g /\ e.start = z /\ f <= g /\ g < z
    BY <1>2, <1>4, <1>7, <1>10
  <1>12. /\ f <= z /\ a.first = f /\ a.last = z
         /\ \A x \in Nat : x <= g => x <= z
         /\ \A x, y \in Nat : x <= y /\ y < f => x <= g
    <2>1. f <= z
      BY <1>11
    <2>. QED  BY <1>9, <1>11, <2>1
  <1>13. FlaggedIn(u, m, a) = FlaggedIn(t, m, a) \cup {n + 1}
    <2>1. a.first \in Nat /\ a.last \in Nat /\ a.first <= e.start /\ e.start <= a.last
      BY <1>11, <1>12
    <2>. QED  BY <2>1, <1>6, FlaggedLater DEF u, n
  <1>14. Cardinality(FlaggedIn(u, m, a)) = Cardinality(FlaggedIn(t, m, a)) + 1
    BY <1>6, <1>13, FlaggedIsFinite DEF n
  (* Between the old end of the alert and the window nothing was flagged. *)
  <1>15. FlaggedIn(t, m, a) = FlaggedIn(t, m, as[l])
    <2>1. ASSUME NEW j \in FlaggedIn(t, m, a)
          PROVE  t[j].start <= as[l].last
      <3>1. j \in DOMAIN t /\ m \in t[j].flags
        BY <2>1 DEF FlaggedIn
      <3>2. PICK i \in DOMAIN as : j \in FlaggedIn(t, m, as[i])
        BY <3>1 DEF Tally
      <3>3. t[j].start <= as[i].last /\ t[j].start \in Nat
        BY <3>1, <3>2, <1>2 DEF FlaggedIn
      <3>4. i = l \/ as[i].last < as[l].first
        <4>1. i = l \/ i < l
          BY <1>3
        <4>. QED  BY <4>1, <1>7 DEF Tally
      <3>5. as[i].last \in Nat
        BY <1>4
      <3>6. CASE i = l
        BY <3>3, <3>6
      <3>7. CASE as[i].last < f
        BY <3>3, <3>5, <3>7, <1>11, <1>12
      <3>. QED  BY <3>4, <3>6, <3>7, <1>11
    <2>2. \A j \in DOMAIN t :
            t[j].start <= as[l].last => t[j].start <= a.last
      BY <1>2, <1>11, <1>12
    <2>. QED  BY <2>1, <2>2, <1>9 DEF FlaggedIn
  <1>16. ASSUME NEW i \in DOMAIN bs
        PROVE  /\ bs[i].first <= bs[i].last
               /\ \E j \in DOMAIN u : u[j].start = bs[i].last
               /\ bs[i].occurrences = Cardinality(FlaggedIn(u, m, bs[i]))
               /\ i # Len(bs) => bs[i].state = "RESOLVED"
    <2>1. CASE i = l
      <3>1. n + 1 \in DOMAIN u
        BY <1>2
      <3>2. as[l].occurrences = Cardinality(FlaggedIn(t, m, as[l]))
        BY <1>7 DEF Tally
      <3>4. a.first <= a.last
        BY <1>12
      <3>5. a.occurrences = Cardinality(FlaggedIn(u, m, a))
        BY <3>2, <1>14, <1>15, <1>9
      <3>6. u[n + 1].start = a.last
        BY <1>2, <1>9
      <3>. QED  BY <2>1, <3>1, <3>4, <3>5, <3>6, <1>7, <1>9
    <2>2. CASE i # l
      <3>1. i \in DOMAIN as /\ bs[i] = as[i] /\ i # Len(as) /\ i # Len(bs)
        BY <2>2, <1>7, <1>8 DEF LastRepeated
      <3>2. /\ as[i].first <= as[i].last
            /\ as[i].occurrences = Cardinality(FlaggedIn(t, m, as[i]))
            /\ as[i].state = "RESOLVED"
        BY <3>1 DEF Tally
      <3>. QED  BY <3>1, <3>2, <1>5
    <2>. QED  BY <2>1, <2>2
  <1>17. ASSUME NEW i \in DOMAIN bs, NEW j \in DOMAIN bs, i < j
        PROVE  bs[i].last < bs[j].first
    <2>1. i # l /\ as[i].last < as[j].first
      <3>1. i # l
        BY <1>3, <1>7, <1>17
      <3>. QED  BY <3>1, <1>17, <1>7 DEF Tally
    <2>2. bs[j].first = as[j].first
      BY <1>7, <1>8, <1>9
    <2>3. bs[i] = as[i]
      BY <2>1, <1>7, <1>8
    <2>. QED  BY <2>1, <2>2, <2>3
  <1>18. ASSUME NEW j \in DOMAIN u, m \in u[j].flags
        PROVE  \E i \in DOMAIN bs : j \in FlaggedIn(u, m, bs[i])
    <2>1. CASE j = n + 1
      BY <2>1, <1>13, <1>7, <1>9
    <2>2. CASE j # n + 1
      <3>1. j \in DOMAIN t /\ u[j] = t[j]
        BY <2>2, <1>2
      <3>2. PICK i \in DOMAIN as : j \in FlaggedIn(t, m, as[i])
        BY <3>1, <1>18 DEF Tally
      <3>3. CASE i = l
        BY <3>2, <3>3, <1>13, <1>15, <1>7, <1>9
      <3>4. CASE i # l
        BY <3>2, <3>4, <1>5, <1>7, <1>8
      <3>. QED  BY <3>3, <3>4
    <2>. QED  BY <2>1, <2>2
  <1>19. Tally(u, m, bs)
    BY <1>16, <1>17, <1>18 DEF Tally
  <1>. QED  BY <1>19 DEF u

LEMMA SameCount ==
    ASSUME NEW as \in Seq(Alert), NEW bs \in Seq(Alert), DOMAIN bs = DOMAIN as
    PROVE  Len(bs) = Len(as)
  <1> DEFINE k == Len(as)
             n == Len(bs)
  <1>1. k \in Nat /\ n \in Nat /\ 1 .. k = 1 .. n
    BY LenProperties
  <1> HIDE DEF k, n
  <1>2. (k > 0 => k \in 1 .. n) /\ (n > 0 => n \in 1 .. k)
    BY <1>1
  <1>3. k = n
    BY <1>1, <1>2
  <1>. QED  BY <1>3 DEF k, n

LEMMA AlertFields ==
    ASSUME NEW a \in Alert, NEW s
    PROVE  /\ Repeated(a, s).first = a.first /\ Repeated(a, s).last = s
           /\ Repeated(a, s).occurrences = a.occurrences + 1
           /\ Resolved(a).first = a.first /\ Resolved(a).last = a.last
           /\ Resolved(a).occurrences = a.occurrences
           /\ Resolved(a).state = "RESOLVED"
  BY DEF Repeated, Resolved, Alert

(* The alerts of a monitor after a window, counted. *)
LEMMA AlertsAfterTally ==
    ASSUME TypeOK, NEW r \in Run, NEW m \in Trailing, NEW e \in Entry,
           m \in e.flags <=> m \in Flags(r, e.start, e.counts),
           \A j \in DOMAIN trail[r] : trail[r][j].start < e.start,
           Tally(trail[r], m, alerts[r][m])
    PROVE  Tally(Append(trail[r], e), m, AlertsAfter(r, e.start, e.counts, m))
  <1> DEFINE t == trail[r]
             as == alerts[r][m]
             bs == AlertsAfter(r, e.start, e.counts, m)
  <1>1. Setting(t, e, as) /\ e.start \in Start
    BY DEF Setting, TypeOK, Entry
  <1>2. /\ Len(as) \in Nat /\ DOMAIN as = 1 .. Len(as)
        /\ \A i \in DOMAIN as : as[i] \in Alert
    BY <1>1, LenProperties, ElementOfSeq DEF Setting
  <1>3. \A a \in Alert : ActiveAlert(a) <=> a.state # "RESOLVED"
    BY DEF ActiveAlert, Alert
  <1>4. CASE m \in Flags(r, e.start, e.counts) /\ HasEpisode(r, m)
    <2>1. bs = [i \in DOMAIN as |->
                  IF ActiveAlert(as[i]) THEN Repeated(as[i], e.start) ELSE as[i]]
      BY <1>4 DEF AlertsAfter, ChangeActive
    <2>2. \A i \in DOMAIN as : i # Len(as) => ~ActiveAlert(as[i])
      BY <1>2, <1>3 DEF Tally
    <2>3. Len(as) \in DOMAIN as /\ ActiveAlert(as[Len(as)])
      BY <1>4, <2>2 DEF HasEpisode
    <2> DEFINE l == Len(as)
    <2> HIDE DEF bs, as
    <2>4. DOMAIN bs = DOMAIN as /\ Len(bs) = l
      <3>1. bs = [i \in DOMAIN as |-> bs[i]] /\ \A i \in DOMAIN as : bs[i] \in Alert
        BY <1>1, <1>2, <2>1, RepeatedType
      <3>2. as \in Seq(Alert)
        BY <1>1 DEF Setting
      <3>. QED  BY <3>1, <3>2, SameLength, SameCount
    <2>5. /\ \A i \in DOMAIN as : i # l => bs[i] = as[i]
          /\ bs[l] = Repeated(as[l], e.start)
      BY <2>1, <2>2, <2>3
    <2>6. LastRepeated(e, as, bs, l, bs[l])
      <3>1. as[l] \in Alert
        BY <1>2, <2>3
      <3>2. /\ bs[l].first = as[l].first /\ bs[l].last = e.start
            /\ bs[l].occurrences = as[l].occurrences + 1
        <4>1. /\ Repeated(as[l], e.start).first = as[l].first
              /\ Repeated(as[l], e.start).last = e.start
              /\ Repeated(as[l], e.start).occurrences = as[l].occurrences + 1
          BY <3>1, AlertFields
        <4> HIDE DEF l
        <4>. QED  BY <2>5, <4>1
      <3> HIDE DEF l
      <3>. QED  BY <2>3, <2>4, <2>5, <3>2 DEF LastRepeated, l
    <2>7. Tally(t, m, as)
      BY DEF as
    <2>. QED  BY <1>1, <1>4, <2>6, <2>7, TallyRepeated DEF bs
  <1>5. CASE m \in Flags(r, e.start, e.counts) /\ ~HasEpisode(r, m)
    <2> DEFINE a == NewAlert(r, m, e.start)
    <2>1. bs = Append(as, a)
      BY <1>5 DEF AlertsAfter
    <2>2. a \in Alert
      BY <1>1, NewAlertType
    <2>3. a.first = e.start /\ a.last = e.start /\ a.occurrences = 1
      BY DEF NewAlert
    <2>4. \A i \in DOMAIN as : as[i].state = "RESOLVED"
      BY <1>5, <1>2, <1>3 DEF HasEpisode
    <2> HIDE DEF a
    <2>. QED  BY <2>1, <2>2, <2>3, <2>4, <1>1, <1>5, TallyNew
  <1>6. CASE m \notin Flags(r, e.start, e.counts)
    <2>1. Tally(Append(t, e), m, as)
      BY <1>1, <1>6, TallyUnflagged
    <2>2. CASE bs = as
      BY <2>1, <2>2
    <2>3. CASE bs = [i \in DOMAIN as |->
                      IF ActiveAlert(as[i]) THEN Resolved(as[i]) ELSE as[i]]
      <3> HIDE DEF bs, as
      <3>1. DOMAIN bs = DOMAIN as /\ Len(bs) = Len(as)
        <4>1. bs = [i \in DOMAIN as |-> bs[i]] /\ \A i \in DOMAIN as : bs[i] \in Alert
          BY <1>2, <2>3, ResolvedType
        <4>2. as \in Seq(Alert)
          BY <1>1 DEF Setting
        <4>. QED  BY <4>1, <4>2, SameLength, SameCount
      <3>2. AtMostResolved(as, bs)
        BY <1>2, <2>3, <3>1, AlertFields DEF AtMostResolved
      <3>. QED  BY <2>1, <3>2, TallyKept DEF bs
    <2>. QED  BY <1>6, <2>2, <2>3 DEF AlertsAfter, ChangeActive
  <1>. QED  BY <1>4, <1>5, <1>6

-----------------------------------------------------------------------------
(* The steps. *)

LEMMA CycleKept ==
    ASSUME TypeOK,
           \/ UNCHANGED cycle \/ HandlerDone \/ Acquire \/ Signalled
           \/ NextStep("windows", "evaluating") \/ TickDone("evaluating")
    PROVE  CycleTypeOK({"windows", "evaluating"})'
  BY ClockAssumption, WindowsStepAssumption
  DEF TypeOK, CycleTypeOK, cycle, HandlerDone, TickDone, NextStep, Acquire,
      Signalled

(* The steps around the evaluation of a batch. *)
LEMMA NotCollecting ==
    ASSUME TypeOK,
           \/ HandlerDone \/ TickDone("evaluating") \/ Acquire \/ Signalled
           \/ (phase = "idle" /\ phase' = phase)
    PROVE  Collected'
  BY WindowsStepAssumption
  DEF TypeOK, CycleTypeOK, HandlerDone, TickDone, Acquire, Signalled, Collected

LEMMA RunsWidth ==
    ASSUME IInv, NEW r \in Run
    PROVE  /\ runs[r] \in [state : {"ABSENT", "LIVE", "ENDED"}, opened : Nat]
           /\ rows[r] \in [Start -> Counts \cup {NoRow, Missing}]
           /\ supplied[r] \in [Start -> Counts \cup {Missing}]
           /\ drift[r] \in DriftRecord /\ trail[r] \in Seq(Entry)
           /\ alerts[r] \in [Trailing -> Seq(Alert)]
           /\ RunInv(runs[r], rows[r], drift[r], trail[r], alerts[r])
  BY DEF IInv, TypeOK, Entry

LEMMA InitIsInv == Init => IInv
  <1> SUFFICES ASSUME Init PROVE IInv
    OBVIOUS
  <1>1. CycleTypeOK({"windows", "evaluating"})
    BY ClockAssumption DEF Init, CycleInit, CycleTypeOK
  <1>2. /\ << >> \in Seq(Entry) /\ << >> \in Seq(Alert) /\ NoDrift \in DriftRecord
        /\ DOMAIN << >> = {}
    BY EmptySeq DEF NoDrift, DriftRecord, DriftStates
  <1>3. /\ runs \in [Run -> [state : {"ABSENT", "LIVE", "ENDED"}, opened : Nat]]
        /\ supplied \in [Run -> [Start -> Counts \cup {Missing}]]
        /\ rows \in [Run -> [Start -> Counts \cup {NoRow, Missing}]]
        /\ batch \in [Run -> SUBSET Start]
    BY DEF Init
  <1>4. /\ drift \in [Run -> DriftRecord] /\ trail \in [Run -> Seq(Entry)]
        /\ alerts \in [Run -> [Trailing -> Seq(Alert)]]
    BY <1>2 DEF Init
  <1>5. TypeOK
    BY <1>1, <1>3, <1>4 DEF TypeOK, Entry
  <1>6. ASSUME NEW r \in Run
        PROVE  RunInv(runs[r], rows[r], drift[r], trail[r], alerts[r])
    <2>1. /\ drift[r] = NoDrift /\ trail[r] = << >>
          /\ \A m \in Trailing : alerts[r][m] = << >>
          /\ "distribution" \in Trailing
      BY DEF Init, Trailing
    <2>. QED  BY <2>1, <1>2
              DEF RunInv, Behind, Ordered, Known, Apart, Agrees, Streaks, NoDrift
  <1>7. Collected
    BY DEF Init, CycleInit, Collected
  <1>. QED  BY <1>5, <1>6, <1>7 DEF IInv

(***************************************************************************)
(* A due window lies behind all that were evaluated, and all before it     *)
(* are attempted.                                                          *)
(***************************************************************************)
LEMMA DueIsNext ==
    ASSUME IInv, NEW r \in Run, NEW s \in Start, s \in DueWindows(r),
           \A other \in DueWindows(r) : s <= other
    PROVE  /\ runs[r].opened <= s /\ runs[r].state = "LIVE"
           /\ \A j \in DOMAIN trail[r] : trail[r][j].start < s
           /\ \A p \in Start : runs[r].opened <= p /\ p < s => rows[r][p] # NoRow
  <1>1. /\ runs[r].opened <= s /\ s + Window + DueDelay <= now
        /\ rows[r][s] = NoRow /\ Live(r)
    BY DEF DueWindows, Expected, Attempted
  <1>2. \A j \in DOMAIN trail[r] : trail[r][j].start < s
    <2> TAKE j \in DOMAIN trail[r]
    <2>1. trail[r][j] \in Entry
      BY RunsWidth, ElementOfSeq, LenProperties
    <2>2. trail[r][j].start \in Nat /\ s \in Nat
      BY <2>1, StartIsNat DEF Entry
    <2>3. ~(s <= trail[r][j].start)
      BY <1>1, RunsWidth DEF RunInv, Behind
    <2>. QED  BY <2>2, <2>3
  <1>3. ASSUME NEW p \in Start, runs[r].opened <= p, p < s
        PROVE  rows[r][p] # NoRow
    <2>1. p \in Nat /\ s \in Nat /\ now \in Nat /\ Window \in Nat /\ DueDelay \in Nat
      BY StartIsNat, NowIsNat, DriftAssumption, WindowsAssumption DEF IInv
    <2>2. p \in Expected(r, now)
      BY <1>1, <1>3, <2>1 DEF Expected
    <2>3. ~(s <= p)
      BY <1>3, <2>1
    <2>. QED  BY <2>2, <2>3, <1>1 DEF DueWindows, Attempted
  <1>. QED  BY <1>1, <1>2, <1>3 DEF Live

(* What is evaluated next is the earliest of all that is due. *)
LEMMA TakenIsDue ==
    ASSUME IInv, NEW r \in Run, NEW s \in Start, Evaluate(r, s)
    PROVE  s \in DueWindows(r) /\ \A other \in DueWindows(r) : s <= other
  <1>1. phase = "evaluating" /\ s \in batch[r] /\ ~Attempted(r, s)
        /\ \A other \in batch[r] : Attempted(r, other) \/ s <= other
    BY DEF Evaluate
  <1>2. s \in DueWindows(r)
    BY <1>1 DEF IInv, Collected
  <1>3. ASSUME NEW other \in DueWindows(r)
        PROVE  s <= other
    <2>1. other \in Start /\ ~Attempted(r, other)
      BY DEF DueWindows, Expected
    <2>2. CASE other \in batch[r]
      BY <2>1, <2>2, <1>1
    <2>3. CASE other \notin batch[r]
      <3>1. s < other
        BY <2>3, <1>1 DEF IInv, Collected
      <3>. QED  BY <3>1, <2>1, StartIsNat
    <2>. QED  BY <2>2, <2>3
  <1>. QED  BY <1>2, <1>3

(* An evaluated window is not due any more; for the others nothing changed. *)
LEMMA EvaluateCollects ==
    ASSUME IInv, NEW r \in Run, NEW s \in Start, Evaluate(r, s)
    PROVE  Collected'
  <1> DEFINE k == supplied[r][s]
             e == [start |-> s, counts |-> k, flags |-> Flags(r, s, k)]
  <1>1. /\ rows' = [rows EXCEPT ![r][s] = k]
        /\ trail' = [trail EXCEPT ![r] = Append(@, e)]
        /\ UNCHANGED <<now, phase, after, runs, supplied, batch>>
        /\ phase = "evaluating"
    BY DEF Evaluate
  <1>2. k # NoRow
    <2>1. k \in Counts \cup {Missing}
      BY RunsWidth
    <2>. QED  BY <2>1, WindowsAssumption
  <1>3. e.start = s /\ e \in Entry
    <2>1. k \in Counts \cup {Missing}
      BY RunsWidth
    <2>2. Flags(r, s, k) \in SUBSET Trailing
      BY DEF Flags
    <2>. QED  BY <2>1, <2>2 DEF Entry
  <1>4. \A q \in Run, p \in Start :
           rows'[q][p] = IF q = r /\ p = s THEN k ELSE rows[q][p]
    BY <1>1 DEF IInv, TypeOK
  <1> HIDE DEF k, e
  <1>5. \A q \in Run, p \in Start : Attempted(q, p) => Attempted(q, p)'
    BY <1>2, <1>4 DEF Attempted
  <1>6. Attempted(r, s)' /\ Evaluated(r, s)'
    <2>1. trail'[r] = Append(trail[r], e) /\ trail[r] \in Seq(Entry)
      BY <1>1, RunsWidth DEF IInv, TypeOK
    <2>2. /\ Len(trail[r]) \in Nat
          /\ DOMAIN trail'[r] = 1 .. Len(trail[r]) + 1
          /\ trail'[r][Len(trail[r]) + 1] = e
      BY <2>1, <1>3, AppendFields
    <2>. QED  BY <2>2, <1>2, <1>3, <1>4 DEF Attempted, Evaluated
  <1>7. ASSUME NEW q \in Run, NEW p \in Start, Evaluated(q, p)
        PROVE  Evaluated(q, p)'
    <2>1. CASE q = r
      <3>1. trail'[r] = Append(trail[r], e) /\ trail[r] \in Seq(Entry)
        BY <1>1, RunsWidth DEF IInv, TypeOK
      <3>2. PICK i \in DOMAIN trail[r] : trail[r][i].start = p
        BY <1>7, <2>1 DEF Evaluated
      <3>3. i \in DOMAIN trail'[r] /\ trail'[r][i] = trail[r][i]
        BY <3>1, <1>3, AppendFields, AppendProperties, LenProperties
      <3>. QED  BY <2>1, <3>2, <3>3 DEF Evaluated
    <2>2. CASE q # r
      BY <2>2, <1>1, <1>7 DEF Evaluated, IInv, TypeOK
    <2>. QED  BY <2>1, <2>2
  <1>8. ASSUME NEW q \in Run
        PROVE  DueWindows(q)' = DueWindows(q) \ IF q = r THEN {s} ELSE {}
    BY <1>1, <1>2, <1>4 DEF DueWindows, Expected, Attempted, Live
  <1>9. ASSUME NEW q \in Run, NEW d \in batch[q]
        PROVE  d \in DueWindows(q)' \/ (Attempted(q, d)' /\ Evaluated(q, d)')
    <2>1. d \in Start
      BY <1>9 DEF IInv, TypeOK
    <2>2. d \in DueWindows(q) \/ (Attempted(q, d) /\ Evaluated(q, d))
      BY <1>1, <1>9 DEF IInv, Collected
    <2>. QED  BY <2>1, <2>2, <1>5, <1>6, <1>7, <1>8
  <1>10. ASSUME NEW q \in Run, NEW p \in DueWindows(q)' \ batch[q]
         PROVE  Cardinality(batch[q]) = Batch /\ \A d \in batch[q] : d < p
    <2>1. p \in DueWindows(q) \ batch[q]
      BY <1>8, <1>10
    <2>. QED  BY <2>1, <1>1 DEF IInv, Collected
  <1>. QED  BY <1>1, <1>9, <1>10 DEF Collected

LEMMA TakeUpInv == ASSUME IInv, TakeUp PROVE IInv'
  <1>1. /\ batch' \in [Run -> SUBSET Start] /\ UNCHANGED store
        /\ now' = now /\ \A r \in Run : TakesUp(r, batch'[r])
    BY DEF TakeUp, NextStep
  <1>2. TypeOK'
    BY <1>1, CycleKept DEF IInv, TypeOK, store, TakeUp
  <1>3. \A r \in Run : DueWindows(r)' = DueWindows(r)
    BY <1>1 DEF store, DueWindows, Expected, Attempted, Live
  <1>4. Collected'
    BY <1>1, <1>3 DEF TakesUp, Collected
  <1>5. \A r \in Run :
           RunInv(runs[r], rows[r], drift[r], trail[r], alerts[r])'
    BY <1>1 DEF IInv, store
  <1>. QED  BY <1>2, <1>4, <1>5 DEF IInv

LEMMA EvaluateInv ==
    ASSUME IInv, NEW r \in Run, NEW s \in Start, Evaluate(r, s)
    PROVE  /\ IInv'
           /\ drift[r].state # "DRIFT" /\ drift'[r].state = "DRIFT" =>
                 LastAll(trail'[r], HighWindows, High)
           /\ drift[r].state = "DRIFT" /\ drift'[r].state # "DRIFT" =>
                 LastAll(trail'[r], LowWindows, Low)
  <1> DEFINE k == supplied[r][s]
             e == [start |-> s, counts |-> k, flags |-> Flags(r, s, k)]
             t == trail[r]
             u == Append(t, e)
             d == drift[r]
             x == Step(d, s, k)
             as == [m \in Trailing |-> AlertsAfter(r, s, k, m)]
             row == [rows[r] EXCEPT ![s] = k]
  <1>1. /\ k \in Counts \cup {Missing} /\ k # NoRow
        /\ e \in Entry /\ e.start = s /\ e.counts = k
        /\ t \in Seq(Entry) /\ d \in DriftRecord
        /\ s \in Nat /\ RunInv(runs[r], rows[r], d, t, alerts[r])
    <2>1. k \in Counts \cup {Missing}
      BY RunsWidth
    <2>2. k # NoRow
      BY <2>1, WindowsAssumption
    <2>3. Flags(r, s, k) \in SUBSET Trailing
      BY DEF Flags
    <2>4. e \in Entry
      BY <2>1, <2>3 DEF Entry
    <2>. QED  BY <2>1, <2>2, <2>4, RunsWidth, StartIsNat
  <1>2. /\ runs[r].opened <= s /\ runs[r].state = "LIVE"
        /\ \A j \in DOMAIN t : t[j].start < s
        /\ \A p \in Start : runs[r].opened <= p /\ p < s => rows[r][p] # NoRow
    BY TakenIsDue, DueIsNext
  <1>3. /\ rows' = [rows EXCEPT ![r] = row] /\ drift' = [drift EXCEPT ![r] = x]
        /\ trail' = [trail EXCEPT ![r] = u] /\ alerts' = [alerts EXCEPT ![r] = as]
        /\ UNCHANGED <<now, phase, after, runs, supplied, batch>>
    BY RunsWidth DEF Evaluate, IInv, TypeOK
  <1>4. /\ u \in Seq(Entry) /\ u # << >> /\ Len(t) \in Nat
        /\ DOMAIN t = 1 .. Len(t) /\ DOMAIN u = 1 .. Len(t) + 1
        /\ u[Len(t) + 1] = e
    BY <1>1, AppendFields
  <1>5. \A i \in DOMAIN t : u[i] = t[i]
    BY <1>1, AppendProperties, LenProperties
  <1>6. x \in DriftRecord
    BY <1>1, StepType
  <1>7. \A m \in Trailing :
          /\ as[m] \in Seq(Alert) /\ Known(u, as[m]) /\ Apart(as[m])
          /\ m = "distribution" => Agrees(x, as[m])
    BY <1>1, <1>2, AlertsAfterInv DEF RunInv, IInv
  <1>8. /\ Streaks(x, u)
        /\ d.state # "DRIFT" /\ x.state = "DRIFT" =>
              LastIn(u, HighWindows, HighCounts)
        /\ d.state = "DRIFT" /\ x.state # "DRIFT" =>
              LastIn(u, LowWindows, LowCounts)
    <2>1. Streaks(d, t) /\ (t # << >> => d.last < s)
      <3>1. t # << >> => Len(t) \in DOMAIN t
        BY <1>1, <1>4, AppendFields
      <3>. QED  BY <3>1, <1>1, <1>2 DEF RunInv, Streaks
    <2>. QED  BY <2>1, <1>1, StepStreaks
  <1>9. row \in [Start -> Counts \cup {NoRow, Missing}]
        /\ \A p \in Start : row[p] = IF p = s THEN k ELSE rows[r][p]
    BY <1>1, RunsWidth
  <1> HIDE DEF k, e, u, x, as, row
  <1>10. Behind(runs[r], row, u)
    <2> SUFFICES ASSUME NEW i \in DOMAIN u, NEW p \in Start,
                        runs[r].opened <= p, p <= u[i].start
                 PROVE  row[p] # NoRow
      BY <1>2 DEF Behind
    <2>1. p \in Nat
      BY StartIsNat
    <2>2. CASE i \in DOMAIN t
      BY <2>2, <1>1, <1>5, <1>9 DEF RunInv, Behind
    <2>3. CASE i \notin DOMAIN t
      <3>1. p = s \/ p < s
        BY <2>3, <2>1, <1>1, <1>4
      <3>. QED  BY <3>1, <1>1, <1>2, <1>9
    <2>. QED  BY <2>2, <2>3
  <1>11. Ordered(u)
    <2> SUFFICES ASSUME NEW i \in DOMAIN u, NEW j \in DOMAIN u, i < j
                 PROVE  u[i].start < u[j].start
      BY DEF Ordered
    <2>1. i \in DOMAIN t
      BY <1>4
    <2>2. CASE j \in DOMAIN t
      BY <2>1, <2>2, <1>1, <1>5 DEF RunInv, Ordered
    <2>3. CASE j \notin DOMAIN t
      <3>1. u[j] = e
        BY <2>3, <1>4
      <3>. QED  BY <3>1, <2>1, <1>1, <1>2, <1>5
    <2>. QED  BY <2>2, <2>3
  <1>12. RunInv(runs[r], row, x, u, as)
    BY <1>7, <1>8, <1>10, <1>11 DEF RunInv, Trailing
  <1>13. TypeOK'
    <2>1. CycleTypeOK({"windows", "evaluating"})'
      BY <1>3, CycleKept DEF cycle, IInv
    <2>2. as \in [Trailing -> Seq(Alert)]
      BY <1>7 DEF as
    <2>. QED  BY <2>1, <2>2, <1>3, <1>4, <1>6, <1>9 DEF IInv, TypeOK, Entry
  <1>14. ASSUME NEW q \in Run
         PROVE  RunInv(runs[q], rows[q], drift[q], trail[q], alerts[q])'
    <2>1. CASE q = r
      BY <2>1, <1>3, <1>12 DEF IInv, TypeOK
    <2>2. CASE q # r
      BY <2>2, <1>3 DEF IInv, TypeOK
    <2>. QED  BY <2>1, <2>2
  <1>15. drift'[r] = x /\ trail'[r] = u
    BY <1>3 DEF IInv, TypeOK
  <1>16. Collected'
    BY EvaluateCollects
  <1>. QED  BY <1>8, <1>13, <1>14, <1>15, <1>16, HighLast, LowLast DEF IInv

(* Steps that change no trail and leave attempted windows attempted. *)
LEMMA OtherInv ==
    ASSUME IInv, TypeOK', Collected', UNCHANGED <<drift, trail>>,
           \A r \in Run :
              /\ Behind(runs[r], rows[r], trail[r])'
              /\ \A m \in Trailing : Aged(alerts[r][m], alerts[r][m]')
    PROVE  IInv'
  <1> SUFFICES ASSUME NEW r \in Run
               PROVE  RunInv(runs[r], rows[r], drift[r], trail[r], alerts[r])'
    BY DEF IInv
  <1>1. RunInv(runs[r], rows[r], drift[r], trail[r], alerts[r])
    BY DEF IInv
  <1>2. \A m \in Trailing : Known(trail[r], alerts'[r][m]) /\ Apart(alerts'[r][m])
    BY <1>1, AgedInv DEF RunInv
  <1>3. Agrees(drift[r], alerts'[r]["distribution"])
    BY <1>1 DEF RunInv, Agrees, Aged, Trailing
  <1>. QED  BY <1>1, <1>2, <1>3 DEF RunInv

LEMMA AgedSame == ASSUME NEW as PROVE Aged(as, as)
  BY DEF Aged

(* Steps that leave the alerts alone, too. *)
LEMMA RowsInv ==
    ASSUME IInv, TypeOK', Collected', UNCHANGED <<drift, trail, alerts>>,
           \A r \in Run : Behind(runs[r], rows[r], trail[r])'
    PROVE  IInv'
  BY OtherInv, AgedSame

LEMMA StoreSame ==
    ASSUME IInv, UNCHANGED store, batch' \in [Run -> SUBSET Start],
           HandlerDone \/ TickDone("evaluating") \/ Acquire \/ Signalled
    PROVE  IInv'
  <1>1. TypeOK'
    BY CycleKept DEF IInv, TypeOK, store
  <1>2. Collected'
    BY NotCollecting DEF IInv
  <1>. QED  BY <1>1, <1>2, RowsInv DEF IInv, RunInv, store

(* Opening, ending: a run that is not opened has no trail. *)
LEMMA RunStepInv ==
    ASSUME IInv, NEW r \in Run, OpenRun(r) \/ EndRun(r)
    PROVE  IInv'
  <1>1. runs' \in [Run -> [state : {"ABSENT", "LIVE", "ENDED"}, opened : Nat]]
    <2>1. CASE OpenRun(r)
      BY <2>1, NowIsNat DEF IInv, TypeOK, OpenRun
    <2>2. CASE EndRun(r)
      <3>1. runs' = [runs EXCEPT ![r] = [@ EXCEPT !.state = "ENDED"]]
        BY <2>2 DEF EndRun
      <3>2. runs[r] \in [state : {"ABSENT", "LIVE", "ENDED"}, opened : Nat]
        BY DEF IInv, TypeOK
      <3>. QED  BY <3>1, <3>2 DEF IInv, TypeOK
    <2>. QED  BY <2>1, <2>2
  <1>2. TypeOK'
    BY <1>1, CycleKept DEF IInv, TypeOK, OpenRun, EndRun, Handled
  <1>3. ASSUME NEW q \in Run
        PROVE  Behind(runs[q], rows[q], trail[q])'
    <2>1. Behind(runs[q], rows[q], trail[q])
      BY DEF IInv, RunInv
    <2>2. CASE q # r
      BY <2>1, <2>2 DEF OpenRun, EndRun, IInv, TypeOK
    <2>3. CASE q = r /\ OpenRun(r)
      <3>1. trail'[q] = << >>
        BY <2>1, <2>3 DEF OpenRun, Behind
      <3>. QED  BY <3>1 DEF Behind
    <2>4. CASE q = r /\ EndRun(r)
      <3>1. runs'[q].opened = runs[q].opened /\ runs'[q].state = "ENDED"
            /\ rows' = rows /\ trail' = trail
        BY <2>4 DEF EndRun, IInv, TypeOK
      <3>. QED  BY <3>1, <2>1 DEF Behind
    <2>. QED  BY <2>2, <2>3, <2>4
  <1>4. Collected'
    BY NotCollecting DEF IInv, OpenRun, EndRun, Handled
  <1>. QED  BY <1>2, <1>3, <1>4, RowsInv DEF OpenRun, EndRun

LEMMA ChangedInv ==
    ASSUME IInv, NEW r \in Run, NEW s \in Start, NEW k \in Counts,
           ObserveChanged(r, s, k)
    PROVE  IInv'
  <1>1. runs' \in [Run -> [state : {"ABSENT", "LIVE", "ENDED"}, opened : Nat]]
    BY DEF IInv, TypeOK, ObserveChanged
  <1>2. TypeOK'
    BY <1>1, CycleKept DEF IInv, TypeOK, ObserveChanged, Handled
  <1>3. ASSUME NEW q \in Run
        PROVE  Behind(runs[q], rows[q], trail[q])'
    <2>1. Behind(runs[q], rows[q], trail[q])
      BY DEF IInv, RunInv
    <2>2. /\ runs'[q].opened = runs[q].opened
          /\ runs'[q].state = "ABSENT" => runs[q].state = "ABSENT"
          /\ rows' = rows /\ trail' = trail
      BY DEF ObserveChanged, IInv, TypeOK
    <2>. QED  BY <2>1, <2>2 DEF Behind
  <1>4. Collected'
    BY NotCollecting DEF IInv, ObserveChanged, Handled
  <1>. QED  BY <1>2, <1>3, <1>4, RowsInv DEF ObserveChanged

LEMMA ObserveInv ==
    ASSUME IInv, NEW r \in Run, NEW s \in Start, NEW k \in Counts,
           Observe(r, s, k) \/ ArriveUnlinked(r, s, k)
    PROVE  IInv'
  <1>1. /\ supplied' = [supplied EXCEPT ![r][s] = k]
        /\ rows' \in {rows, [rows EXCEPT ![r][s] = k]}
        /\ UNCHANGED <<runs, drift, trail, alerts, batch>>
        /\ (UNCHANGED cycle /\ phase = "idle") \/ HandlerDone
    BY DEF Observe, ArriveUnlinked, Handled, cycle
  <1>2. supplied' \in [Run -> [Start -> Counts \cup {Missing}]]
    BY <1>1 DEF IInv, TypeOK
  <1>3. rows' \in [Run -> [Start -> Counts \cup {NoRow, Missing}]]
    <2>1. CASE rows' = rows
      BY <2>1 DEF IInv, TypeOK
    <2>2. CASE rows' = [rows EXCEPT ![r][s] = k]
      BY <2>2 DEF IInv, TypeOK
    <2>. QED  BY <1>1, <2>1, <2>2
  <1>4. TypeOK'
    BY <1>1, <1>2, <1>3, CycleKept DEF IInv, TypeOK
  <1>5. ASSUME NEW q \in Run, NEW p \in Start, rows[q][p] # NoRow
        PROVE  rows'[q][p] # NoRow
    <2>1. k # NoRow
      BY WindowsAssumption
    <2>2. CASE rows' = rows
      BY <2>2, <1>5
    <2>3. CASE rows' = [rows EXCEPT ![r][s] = k]
      BY <2>1, <2>3, <1>5 DEF IInv, TypeOK
    <2>. QED  BY <1>1, <2>2, <2>3
  <1>6. ASSUME NEW q \in Run
        PROVE  Behind(runs[q], rows[q], trail[q])'
    <2>1. Behind(runs[q], rows[q], trail[q])
      BY DEF IInv, RunInv
    <2>. QED  BY <2>1, <1>1, <1>5 DEF Behind
  <1>7. Collected'
    BY <1>1, NotCollecting DEF IInv, cycle
  <1>. QED  BY <1>1, <1>4, <1>6, <1>7, RowsInv

LEMMA OperateInv ==
    ASSUME IInv, NEW r \in Run, NEW m \in Trailing,
           NEW i \in DOMAIN alerts[r][m],
           Acknowledge(r, m, i) \/ ResolveAlert(r, m, i)
    PROVE  IInv'
  <1> DEFINE as == alerts[r][m]
  <1>1. /\ as \in Seq(Alert) /\ i \in 1 .. Len(as) /\ as[i] \in Alert
        /\ DOMAIN as = 1 .. Len(as)
    BY RunsWidth, LenProperties, ElementOfSeq
  <1>2. PICK a : /\ Operate(r, m, i, a)
                 /\ a \in Alert /\ a.first = as[i].first
                 /\ as[i].state # "RESOLVED"
    <2>1. CASE Acknowledge(r, m, i)
      <3> DEFINE x == [as[i] EXCEPT !.state = "ACKNOWLEDGED"]
                 y == [x EXCEPT !.revision = @ + 1]
      <3>1. x \in Alert /\ x.first = as[i].first
        BY <1>1 DEF Alert
      <3> HIDE DEF x
      <3>2. y \in Alert /\ y.first = as[i].first
        BY <3>1 DEF Alert
      <3>3. y = [as[i] EXCEPT !.state = "ACKNOWLEDGED", !.revision = @ + 1]
        BY <1>1 DEF x, Alert
      <3>4. Operate(r, m, i, y) /\ as[i].state = "OPEN"
        BY <2>1, <3>3 DEF Acknowledge
      <3>. QED  BY <3>2, <3>4
    <2>2. CASE ResolveAlert(r, m, i)
      <3>1. Operate(r, m, i, Resolved(as[i])) /\ as[i].state # "RESOLVED"
        BY <2>2 DEF ResolveAlert, ActiveAlert
      <3>. QED  BY <3>1, <1>1, ResolvedType
    <2>. QED  BY <2>1, <2>2
  <1> DEFINE bs == [as EXCEPT ![i] = a]
  <1>3. /\ alerts' = [alerts EXCEPT ![r][m] = bs]
        /\ UNCHANGED <<runs, supplied, rows, drift, trail, batch>>
        /\ HandlerDone
    BY <1>2 DEF Operate, Handled
  <1>4. bs \in Seq(Alert) /\ Aged(as, bs)
    <2>1. bs \in Seq(Alert)
      BY <1>1, <1>2, ExceptSeq
    <2>2. DOMAIN bs = DOMAIN as
          /\ \A j \in DOMAIN as : bs[j] = IF j = i THEN a ELSE as[j]
      OBVIOUS
    <2>. QED  BY <2>1, <2>2, <1>2 DEF Aged
  <1> HIDE DEF bs
  <1>5. alerts' \in [Run -> [Trailing -> Seq(Alert)]]
    BY <1>3, <1>4 DEF IInv, TypeOK
  <1>6. TypeOK'
    BY <1>3, <1>5, CycleKept DEF IInv, TypeOK
  <1>7. \A q \in Run, n \in Trailing :
            alerts'[q][n] = IF q = r /\ n = m THEN bs ELSE alerts[q][n]
    BY <1>3 DEF IInv, TypeOK
  <1>8. \A q \in Run, n \in Trailing : Aged(alerts[q][n], alerts'[q][n])
    BY <1>4, <1>7, AgedSame
  <1>9. \A q \in Run : Behind(runs[q], rows[q], trail[q])'
    BY <1>3 DEF IInv, RunInv
  <1>10. Collected'
    BY <1>3, NotCollecting DEF IInv
  <1>. QED  BY <1>3, <1>6, <1>8, <1>9, <1>10, OtherInv

(* Every step of the daemon keeps the invariant. *)
LEMMA NextInv == ASSUME IInv, [Next]_vars PROVE IInv'
  <1>1. CASE UNCHANGED vars
    BY <1>1 DEF vars, store, IInv, TypeOK, CycleTypeOK, Collected, DueWindows,
                Expected, Attempted, Evaluated, Live
  <1>2. CASE Take \/ Signal
    BY <1>2, StoreSame DEF Take, Signal, IInv, TypeOK
  <1>3. CASE TickReturns
    BY <1>3, StoreSame DEF TickReturns
  <1>4. ASSUME NEW r \in Run, NEW s \in Start, Evaluate(r, s)
        PROVE  IInv'
    BY <1>4, EvaluateInv
  <1>5. CASE Rejection
    BY <1>5, StoreSame DEF Rejection, Handled, IInv, TypeOK
  <1>6. ASSUME NEW r \in Run, OpenRun(r) \/ EndRun(r)
        PROVE  IInv'
    BY <1>6, RunStepInv
  <1>7. ASSUME NEW r \in Run, NEW s \in Start, NEW k \in Counts,
               ObserveChanged(r, s, k)
        PROVE  IInv'
    BY <1>7, ChangedInv
  <1>8. ASSUME NEW r \in Run, NEW s \in Start, NEW k \in Counts,
               Observe(r, s, k) \/ ArriveUnlinked(r, s, k)
        PROVE  IInv'
    BY <1>8, ObserveInv
  <1>9. ASSUME NEW r \in Run, NEW m \in Trailing,
               NEW i \in DOMAIN alerts[r][m],
               Acknowledge(r, m, i) \/ ResolveAlert(r, m, i)
        PROVE  IInv'
    BY <1>9, OperateInv
  <1>10. CASE TakeUp
    BY <1>10, TakeUpInv
  <1>. QED  BY <1>1, <1>2, <1>3, <1>4, <1>5, <1>6, <1>7, <1>8, <1>9, <1>10
            DEF Next, Tick

(***************************************************************************)
(* Only the evaluation of a window moves the drift record, and it moves it *)
(* in or out of DRIFT with a full streak at the end of the trail.          *)
(***************************************************************************)
LEMMA NextEarns ==
    ASSUME IInv, [Next]_vars, NEW r \in Run
    PROVE  /\ drift[r].state # "DRIFT" /\ drift'[r].state = "DRIFT" =>
                 LastAll(trail'[r], HighWindows, High)
           /\ drift[r].state = "DRIFT" /\ drift'[r].state # "DRIFT" =>
                 LastAll(trail'[r], LowWindows, Low)
  <1>1. CASE UNCHANGED drift
    BY <1>1
  <1>2. ASSUME NEW q \in Run, NEW s \in Start, Evaluate(q, s)
        PROVE  q = r \/ drift'[r] = drift[r]
    BY <1>2 DEF Evaluate, IInv, TypeOK
  <1>3. CASE \E q \in Run, s \in Start : Evaluate(q, s)
    <2>1. CASE drift'[r] = drift[r]
      BY <2>1
    <2>2. CASE \E s \in Start : Evaluate(r, s)
      BY <2>2, EvaluateInv
    <2>. QED  BY <1>2, <1>3, <2>1, <2>2
  <1>4. UNCHANGED drift \/ \E q \in Run, s \in Start : Evaluate(q, s)
    <2>1. CASE \/ UNCHANGED vars \/ Take \/ Signal \/ Rejection
            \/ TakeUp \/ TickReturns
      BY <2>1 DEF vars, store, Take, Signal, Rejection, TakeUp, TickReturns
    <2>2. ASSUME NEW q, OpenRun(q) \/ EndRun(q)
          PROVE  UNCHANGED drift
      BY <2>2 DEF OpenRun, EndRun
    <2>3. ASSUME NEW q, NEW s, NEW k,
                 Observe(q, s, k) \/ ObserveChanged(q, s, k)
                    \/ ArriveUnlinked(q, s, k)
          PROVE  UNCHANGED drift
      BY <2>3 DEF Observe, ObserveChanged, ArriveUnlinked
    <2>4. ASSUME NEW q, NEW m, NEW i, Acknowledge(q, m, i) \/ ResolveAlert(q, m, i)
          PROVE  UNCHANGED drift
      BY <2>4 DEF Acknowledge, ResolveAlert, Operate
    <2>. QED  BY <2>1, <2>2, <2>3, <2>4 DEF Next, Tick
  <1>. QED  BY <1>1, <1>3, <1>4

(***************************************************************************)
(* The counts of the alerts, step by step: windows are evaluated, alerts   *)
(* acknowledged or resolved, and no other step touches trail or alerts.    *)
(***************************************************************************)
LEMMA EvaluateTally ==
    ASSUME IInv, Tallies, NEW r \in Run, NEW s \in Start, Evaluate(r, s)
    PROVE  Tallies'
  <1> DEFINE k == supplied[r][s]
             e == [start |-> s, counts |-> k, flags |-> Flags(r, s, k)]
             u == Append(trail[r], e)
             as == [m \in Trailing |-> AlertsAfter(r, s, k, m)]
  <1>1. e \in Entry /\ e.start = s /\ e.counts = k /\ e.flags = Flags(r, s, k)
    <2>1. k \in Counts \cup {Missing}
      BY RunsWidth
    <2>2. Flags(r, s, k) \in SUBSET Trailing
      BY DEF Flags
    <2>. QED  BY <2>1, <2>2 DEF Entry
  <1>2. \A j \in DOMAIN trail[r] : trail[r][j].start < s
    BY TakenIsDue, DueIsNext
  <1>3. trail' = [trail EXCEPT ![r] = u] /\ alerts' = [alerts EXCEPT ![r] = as]
    BY DEF Evaluate
  <1>4. \A m \in Trailing : Tally(u, m, as[m])
    <2> SUFFICES ASSUME NEW m \in Trailing PROVE Tally(u, m, as[m])
      OBVIOUS
    <2>1. Tally(trail[r], m, alerts[r][m])
      BY DEF Tallies
    <2> HIDE DEF e
    <2>2. Tally(u, m, AlertsAfter(r, e.start, e.counts, m))
      BY <1>1, <1>2, <2>1, AlertsAfterTally DEF IInv
    <2>. QED  BY <1>1, <2>2
  <1> HIDE DEF u, as
  <1>5. trail'[r] = u /\ alerts'[r] = as
    BY <1>3 DEF IInv, TypeOK
  <1>6. \A q \in Run \ {r} : trail'[q] = trail[q] /\ alerts'[q] = alerts[q]
    BY <1>3 DEF IInv, TypeOK
  <1>7. ASSUME NEW q \in Run, NEW m \in Trailing
        PROVE  Tally(trail'[q], m, alerts'[q][m])
    <2>1. CASE q = r
      BY <2>1, <1>4, <1>5
    <2>2. CASE q # r
      BY <2>2, <1>6 DEF Tallies
    <2>. QED  BY <2>1, <2>2
  <1>. QED  BY <1>7 DEF Tallies

LEMMA OperateTally ==
    ASSUME IInv, Tallies, NEW r \in Run, NEW m \in Trailing,
           NEW i \in DOMAIN alerts[r][m],
           Acknowledge(r, m, i) \/ ResolveAlert(r, m, i)
    PROVE  Tallies'
  <1> DEFINE as == alerts[r][m]
  <1>1. as \in Seq(Alert) /\ as[i] \in Alert
    BY RunsWidth, LenProperties, ElementOfSeq
  <1>2. PICK a : /\ Operate(r, m, i, a)
                 /\ a \in Alert
                 /\ a.first = as[i].first /\ a.last = as[i].last
                 /\ a.occurrences = as[i].occurrences
                 /\ as[i].state # "RESOLVED"
    <2>1. CASE Acknowledge(r, m, i)
      <3> DEFINE x == [as[i] EXCEPT !.state = "ACKNOWLEDGED"]
                 y == [x EXCEPT !.revision = @ + 1]
      <3>1. /\ x \in Alert /\ x.first = as[i].first /\ x.last = as[i].last
            /\ x.occurrences = as[i].occurrences
        BY <1>1 DEF Alert
      <3> HIDE DEF x
      <3>2. /\ y \in Alert /\ y.first = as[i].first /\ y.last = as[i].last
            /\ y.occurrences = as[i].occurrences
        BY <3>1 DEF Alert
      <3>3. y = [as[i] EXCEPT !.state = "ACKNOWLEDGED", !.revision = @ + 1]
        BY <1>1 DEF x, Alert
      <3>4. Operate(r, m, i, y) /\ as[i].state = "OPEN"
        BY <2>1, <3>3 DEF Acknowledge
      <3>. QED  BY <3>2, <3>4
    <2>2. CASE ResolveAlert(r, m, i)
      <3>1. Operate(r, m, i, Resolved(as[i])) /\ as[i].state # "RESOLVED"
        BY <2>2 DEF ResolveAlert, ActiveAlert
      <3>. QED  BY <3>1, <1>1, ResolvedType, AlertFields
    <2>. QED  BY <2>1, <2>2
  <1> DEFINE bs == [as EXCEPT ![i] = a]
  <1>3. alerts' = [alerts EXCEPT ![r][m] = bs] /\ trail' = trail
    BY <1>2 DEF Operate
  <1>4. AtMostResolved(as, bs)
    <2>1. bs \in Seq(Alert) /\ DOMAIN bs = DOMAIN as
      BY <1>1, <1>2, ExceptSeq
    <2>2. Len(bs) = Len(as)
      BY <1>1, <2>1, SameCount
    <2>3. \A j \in DOMAIN as : bs[j] = IF j = i THEN a ELSE as[j]
      OBVIOUS
    <2> HIDE DEF bs
    <2>. QED  BY <1>2, <2>1, <2>2, <2>3 DEF AtMostResolved
  <1>5. Tally(trail[r], m, bs)
    BY <1>4, TallyKept DEF Tallies
  <1> HIDE DEF bs
  <1>6. \A q \in Run, n \in Trailing :
            alerts'[q][n] = IF q = r /\ n = m THEN bs ELSE alerts[q][n]
    BY <1>3 DEF IInv, TypeOK
  <1>. QED  BY <1>3, <1>5, <1>6 DEF Tallies

(* The steps that evaluate no window and operate no alert. *)
LEMMA TrailsChange ==
    ASSUME [Next]_vars
    PROVE  \/ UNCHANGED <<trail, alerts>>
           \/ \E r \in Run, s \in Start : Evaluate(r, s)
           \/ \E r \in Run, m \in Trailing : \E i \in DOMAIN alerts[r][m] :
                 Acknowledge(r, m, i) \/ ResolveAlert(r, m, i)
  <1>1. CASE \/ UNCHANGED vars \/ Take \/ Signal \/ Rejection
            \/ TakeUp \/ TickReturns
    BY <1>1 DEF vars, store, Take, Signal, Rejection, TakeUp, TickReturns
  <1>2. ASSUME NEW q, OpenRun(q) \/ EndRun(q)
        PROVE  UNCHANGED <<trail, alerts>>
    BY <1>2 DEF OpenRun, EndRun
  <1>3. ASSUME NEW q, NEW s, NEW k,
               Observe(q, s, k) \/ ObserveChanged(q, s, k)
                  \/ ArriveUnlinked(q, s, k)
        PROVE  UNCHANGED <<trail, alerts>>
    BY <1>3 DEF Observe, ObserveChanged, ArriveUnlinked
  <1>. QED  BY <1>1, <1>2, <1>3 DEF Next, Tick

LEMMA TalliesKept == ASSUME IInv, Tallies, [Next]_vars PROVE Tallies'
  <1>1. CASE UNCHANGED <<trail, alerts>>
    BY <1>1 DEF Tallies
  <1>. QED  BY <1>1, TrailsChange, EvaluateTally, OperateTally

LEMMA InitTallies == Init => Tallies
  <1>1. DOMAIN << >> = {}
    BY EmptySeq
  <1>. QED  BY <1>1 DEF Init, Tallies, Tally

(***************************************************************************)
(* Windows without counts.  A row of them is only ever written by their    *)
(* evaluation.                                                             *)
(***************************************************************************)
Marked(row, t) ==
    \A s \in Start : row[s] = Missing =>
        \E i \in DOMAIN t : t[i].start = s /\ t[i].counts = Missing

MarkersReviewed == \A r \in Run : Marked(rows[r], trail[r])

LEMMA EvaluateMarks ==
    ASSUME IInv, MarkersReviewed, NEW r \in Run, NEW s \in Start,
           Evaluate(r, s)
    PROVE  MarkersReviewed'
  <1> DEFINE k == supplied[r][s]
             e == [start |-> s, counts |-> k, flags |-> Flags(r, s, k)]
             t == trail[r]
             u == Append(t, e)
             row == [rows[r] EXCEPT ![s] = k]
  <1>1. e \in Entry /\ e.start = s /\ e.counts = k /\ t \in Seq(Entry)
    <2>1. k \in Counts \cup {Missing}
      BY RunsWidth
    <2>2. Flags(r, s, k) \in SUBSET Trailing
      BY DEF Flags
    <2>. QED  BY <2>1, <2>2, RunsWidth DEF Entry
  <1>2. /\ rows' = [rows EXCEPT ![r] = row] /\ trail' = [trail EXCEPT ![r] = u]
        /\ \A p \in Start : row[p] = IF p = s THEN k ELSE rows[r][p]
    BY RunsWidth DEF Evaluate, IInv, TypeOK
  <1>3. /\ Len(t) + 1 \in DOMAIN u /\ u[Len(t) + 1] = e
        /\ \A i \in DOMAIN t : i \in DOMAIN u /\ u[i] = t[i]
    <2> HIDE DEF e
    <2>1. /\ Len(t) \in Nat /\ DOMAIN t = 1 .. Len(t)
          /\ DOMAIN u = 1 .. Len(t) + 1 /\ u[Len(t) + 1] = e
      BY <1>1, AppendFields
    <2>2. \A i \in DOMAIN t : u[i] = t[i]
      BY <1>1, <2>1, AppendProperties
    <2>3. \A i \in 1 .. Len(t) : i \in 1 .. Len(t) + 1
      BY <2>1
    <2>. QED  BY <2>1, <2>2, <2>3
  <1> HIDE DEF e, u, k, row, t
  <1>4. Marked(rows[r], t)
    BY DEF MarkersReviewed, t
  <1>5. Marked(row, u)
    BY <1>1, <1>2, <1>3, <1>4 DEF Marked
  <1>6. rows'[r] = row /\ trail'[r] = u
    BY <1>2 DEF IInv, TypeOK
  <1>7. \A q \in Run \ {r} : rows'[q] = rows[q] /\ trail'[q] = trail[q]
    BY <1>2 DEF IInv, TypeOK
  <1>8. ASSUME NEW q \in Run
        PROVE  Marked(rows'[q], trail'[q])
    <2>1. CASE q = r
      BY <2>1, <1>5, <1>6
    <2>2. CASE q # r
      BY <2>2, <1>7 DEF MarkersReviewed
    <2>. QED  BY <2>1, <2>2
  <1>. QED  BY <1>8 DEF MarkersReviewed

(* What other steps write are counts. *)
LEMMA ObserveMarks ==
    ASSUME IInv, MarkersReviewed, trail' = trail,
           \/ rows' = rows
           \/ \E r \in Run, s \in Start, k \in Counts :
                 rows' = [rows EXCEPT ![r][s] = k]
    PROVE  MarkersReviewed'
  <1> SUFFICES ASSUME NEW r \in Run, NEW s \in Start, rows'[r][s] = Missing
               PROVE  rows[r][s] = Missing
    BY DEF MarkersReviewed, Marked
  <1>1. CASE rows' = rows
    BY <1>1
  <1>2. ASSUME NEW q \in Run, NEW p \in Start, NEW k \in Counts,
               rows' = [rows EXCEPT ![q][p] = k]
        PROVE  rows[r][s] = Missing
    BY <1>2, WindowsAssumption DEF IInv, TypeOK
  <1>. QED  BY <1>1, <1>2

LEMMA RowsChange ==
    ASSUME [Next]_vars
    PROVE  \/ \E r \in Run, s \in Start : Evaluate(r, s)
           \/ /\ trail' = trail
              /\ \/ rows' = rows
                 \/ \E r \in Run, s \in Start, k \in Counts :
                       rows' = [rows EXCEPT ![r][s] = k]
  <1>1. CASE \/ UNCHANGED vars \/ Take \/ Signal \/ Rejection
            \/ TakeUp \/ TickReturns
    BY <1>1 DEF vars, store, Take, Signal, Rejection, TakeUp, TickReturns
  <1>2. ASSUME NEW q, OpenRun(q) \/ EndRun(q)
        PROVE  UNCHANGED <<trail, rows>>
    BY <1>2 DEF OpenRun, EndRun
  <1>3. ASSUME NEW q, NEW s, NEW k, ObserveChanged(q, s, k) \/ ArriveUnlinked(q, s, k)
        PROVE  UNCHANGED <<trail, rows>>
    BY <1>3 DEF ObserveChanged, ArriveUnlinked
  <1>4. ASSUME NEW q \in Run, NEW s \in Start, NEW k \in Counts, Observe(q, s, k)
        PROVE  trail' = trail /\ rows' = [rows EXCEPT ![q][s] = k]
    BY <1>4 DEF Observe
  <1>5. ASSUME NEW q, NEW m, NEW i, Acknowledge(q, m, i) \/ ResolveAlert(q, m, i)
        PROVE  UNCHANGED <<trail, rows>>
    BY <1>5 DEF Acknowledge, ResolveAlert, Operate
  <1>6. CASE \E q \in Run, s \in Start, k \in Counts : Observe(q, s, k)
    BY <1>4, <1>6
  <1>. QED  BY <1>1, <1>2, <1>3, <1>5, <1>6 DEF Next, Tick

LEMMA MarkersKept ==
    ASSUME IInv, MarkersReviewed, [Next]_vars PROVE MarkersReviewed'
  BY RowsChange, EvaluateMarks, ObserveMarks

(* What tick() leaves undone, when it returns, comes after a full batch. *)
LEMMA ReturnsReviewed ==
    ASSUME IInv, MarkersReviewed, TickReturns,
           NEW r \in Run, NEW s \in Expected(r, now),
           Live(r), rows[r][s] \notin Counts
    PROVE  \/ EvaluatedAs(r, s, Missing)
           \/ /\ Cardinality(batch[r]) = Batch
              /\ \A taken \in batch[r] : Evaluated(r, taken)
              /\ \A i \in DOMAIN trail[r] : trail[r][i].start < s
  <1>1. /\ phase = "evaluating" /\ s \in Start
        /\ \A d \in batch[r] : Attempted(r, d)
    BY DEF TickReturns, TickDone, Expected
  <1>2. CASE rows[r][s] = Missing
    BY <1>1, <1>2 DEF MarkersReviewed, Marked, EvaluatedAs
  <1>3. CASE rows[r][s] # Missing
    <2>1. rows[r][s] = NoRow
      BY <1>1, <1>3, RunsWidth
    <2>2. s \in DueWindows(r) \ batch[r]
      BY <1>1, <2>1 DEF DueWindows, Attempted
    <2>3. Cardinality(batch[r]) = Batch
      BY <1>1, <2>2 DEF IInv, Collected
    <2>4. ASSUME NEW taken \in batch[r]
          PROVE  Evaluated(r, taken)
      BY <1>1, <2>4 DEF IInv, Collected, DueWindows
    <2>5. ASSUME NEW i \in DOMAIN trail[r]
          PROVE  trail[r][i].start < s
      <3>1. trail[r][i] \in Entry
        BY RunsWidth, ElementOfSeq, LenProperties
      <3>2. trail[r][i].start \in Nat /\ s \in Nat
        BY <3>1, <1>1, StartIsNat DEF Entry
      <3>3. ~(s <= trail[r][i].start)
        BY <1>1, <2>1, RunsWidth DEF RunInv, Behind, Expected
      <3>. QED  BY <3>2, <3>3
    <2>. QED  BY <2>3, <2>4, <2>5
  <1>. QED  BY <1>2, <1>3

(* No other step ends a tick. *)
LEMMA TickEnds ==
    ASSUME IInv, [Next]_vars, Ticking, ~Ticking' PROVE TickReturns
  <1>1. CASE UNCHANGED vars
    BY <1>1 DEF vars, Ticking
  <1>2. CASE Take \/ Signal \/ HandlerDone
    BY <1>2 DEF Take, Signal, Acquire, Signalled, HandlerDone, Ticking
  <1>3. CASE TakeUp
    BY <1>3 DEF TakeUp, NextStep, Ticking
  <1>4. ASSUME NEW r, NEW s, Evaluate(r, s) PROVE FALSE
    BY <1>4 DEF Evaluate, Ticking
  <1>5. ASSUME NEW r, NEW s, NEW k, ArriveUnlinked(r, s, k) PROVE FALSE
    BY <1>5 DEF ArriveUnlinked, Ticking
  <1>. QED  BY <1>1, <1>2, <1>3, <1>4, <1>5
            DEF Next, Tick, Handled, Rejection, OpenRun, EndRun, Observe,
                ObserveChanged, Acknowledge, ResolveAlert, Operate

(* The invariant of each run, above, holds in every reachable state. *)
THEOREM Invariance == Spec => []IInv
  <1>1. Init => IInv
    BY InitIsInv
  <1>2. IInv /\ [Next]_vars => IInv'
    BY NextInv
  <1>. QED  BY <1>1, <1>2, PTL DEF Spec

(***************************************************************************)
(* Rows, drift records, trails and alerts stay well formed whatever comes. *)
(***************************************************************************)
THEOREM WindowsTypeCorrect == Spec => []TypeOK
  <1>1. IInv => TypeOK
    BY DEF IInv
  <1>. QED  BY <1>1, Invariance, PTL

(***************************************************************************)
(* due_windows and window_attempted: no window is evaluated twice, or      *)
(* after a later one, so drift.rs never drops one as a repetition.         *)
(***************************************************************************)
THEOREM OrderIsKept == Spec => []WindowsInOrder
  <1>1. IInv => WindowsInOrder
    BY DEF IInv, RunInv, Ordered, WindowsInOrder
  <1>. QED  BY <1>1, Invariance, PTL

(***************************************************************************)
(* open_or_update_alert: one active alert per run and monitor, and ids,    *)
(* which are those of the first observation, never meet.                   *)
(***************************************************************************)
THEOREM EpisodesAreApart == Spec => []OneEpisode
  <1>1. IInv => OneEpisode
    BY DEF IInv, RunInv, Apart, OneEpisode
  <1>. QED  BY <1>1, Invariance, PTL

(***************************************************************************)
(* process_one_window: an active distribution alert means a run in DRIFT.  *)
(***************************************************************************)
THEOREM EpisodesAreDrift == Spec => []EpisodeIsDrift
  <1>1. IInv => EpisodeIsDrift
    BY DEF IInv, RunInv, Agrees, EpisodeIsDrift
  <1>. QED  BY <1>1, Invariance, PTL

(***************************************************************************)
(* drift.rs: DRIFT is entered after HighWindows high windows in a row, and *)
(* left after LowWindows low ones in a row, for every policy.              *)
(***************************************************************************)
THEOREM DriftIsAlwaysEarned == Spec => DriftIsEarned
  <1>1. IInv /\ [Next]_vars =>
          [\A r \in Run :
             /\ drift[r].state # "DRIFT" /\ drift'[r].state = "DRIFT" =>
                   LastAll(trail'[r], HighWindows, High)
             /\ drift[r].state = "DRIFT" /\ drift'[r].state # "DRIFT" =>
                   LastAll(trail'[r], LowWindows, Low)]_vars
    BY NextEarns
  <1>. QED  BY <1>1, Invariance, PTL DEF Spec, DriftIsEarned

(***************************************************************************)
(* open_or_update_alert: an alert counts the windows its monitor flagged   *)
(* from its first to its last observation, and none is counted twice or    *)
(* left out, whatever operators do to the alerts in between.               *)
(***************************************************************************)
THEOREM EveryFlagIsCounted == Spec => []FlagsCounted
  <1>1. Tallies => FlagsCounted
    <2>1. \A r \in Run, m \in Trailing : \A i \in DOMAIN alerts[r][m] :
             FlaggedDuring(r, m, alerts[r][m][i])
                = FlaggedIn(trail[r], m, alerts[r][m][i])
      BY DEF FlaggedDuring, FlaggedIn
    <2>. QED  BY <2>1 DEF Tallies, Tally, FlagsCounted
  <1>2. Init => Tallies
    BY InitTallies
  <1>3. IInv /\ Tallies /\ [Next]_vars => Tallies'
    BY TalliesKept
  <1>. QED  BY <1>1, <1>2, <1>3, Invariance, PTL DEF Spec

(***************************************************************************)
(* process_windows, step 7 of tick(): when tick() is done, a window of a   *)
(* live run that is over and has no counts was evaluated as missing, or    *)
(* the tick evaluated all the windows that one tick may, in this run, and  *)
(* none that comes after the one that is left.                             *)
(***************************************************************************)
THEOREM NoGapIsPassedOver == Spec => MissingIsReviewed
  <1>1. Init => MarkersReviewed
    BY WindowsAssumption DEF Init, MarkersReviewed, Marked
  <1>2. IInv /\ MarkersReviewed /\ [Next]_vars => MarkersReviewed'
    BY MarkersKept
  <1>3. IInv /\ MarkersReviewed /\ [Next]_vars =>
          [Ticking /\ ~Ticking' =>
             \A r \in Run : \A s \in Expected(r, now) :
                Live(r) /\ rows[r][s] \notin Counts =>
                   \/ EvaluatedAs(r, s, Missing)
                   \/ /\ Cardinality(batch[r]) = Batch
                      /\ \A taken \in batch[r] : Evaluated(r, taken)
                      /\ \A i \in DOMAIN trail[r] : trail[r][i].start < s]_vars
    BY TickEnds, ReturnsReviewed
  <1>. QED  BY <1>1, <1>2, <1>3, Invariance, PTL DEF Spec, MissingIsReviewed

=============================================================================
