------------------------- MODULE FailureLadderProofs -------------------------
EXTENDS FailureLadder, WellFoundedInduction, TLAPS

-----------------------------------------------------------------------------
(***************************************************************************)
(* The ladder.  It is defined by recursion, so what it returns for every   *)
(* number of failures is shown by induction: in the form that a set of     *)
(* counterexamples, if it is not empty, has a least one.                   *)
(***************************************************************************)

(* A non-empty set of natural numbers has a least member.                  *)
LEMMA LeastNumber ==
  ASSUME NEW S \in SUBSET Nat, S # {}
  PROVE  \E m \in S : \A z \in S : m <= z
<1> DEFINE R == OpToRel(<, Nat)
<1>1. IsWellFoundedOn(R, Nat)
  BY NatLessThanWellFounded
<1>2. \A x, y \in Nat : <<x, y>> \in R <=> x < y
  BY DEF OpToRel
<1>3. PICK m \in S : \A z \in S : ~(<<z, m>> \in R)
  <2> HIDE DEF R
  <2> QED BY <1>1, WFMin
<1> HIDE DEF R
<1>4. ASSUME NEW z \in S PROVE m <= z
  <2>1. m \in Nat /\ z \in Nat /\ ~(<<z, m>> \in R)
    BY <1>3
  <2>2. ~(z < m)
    BY <1>2, <2>1
  <2> QED BY <2>1, <2>2
<1> QED BY <1>4

(* The shortest wait after the n-th failure in a row that may pass.        *)
Rung(n) == NominalDelay(n) - (NominalDelay(n) \div 10)

(* A rung is a positive wait of at most MaxDelay, less its jitter.         *)
LEMMA RungType ==
  ASSUME NEW n
  PROVE  NominalDelay(n) \in 1..MaxDelay /\ Rung(n) \in Nat /\ Rung(n) <= MaxDelay
<1>1. NominalDelay(n) \in 1..MaxDelay
  BY PolicyAssumption DEF NominalDelay
<1>2. \A d \in 1..MaxDelay : d - (d \div 10) \in Nat /\ d - (d \div 10) <= MaxDelay
  BY PolicyAssumption
<1> QED BY <1>1, <1>2 DEF Rung

(* g climbs the first n rungs.                                             *)
Climbs(g, n) ==
    /\ g \in [0..n -> Nat]
    /\ g[0] = 0
    /\ \A i \in 1..n : g[i] = g[i - 1] + Rung(i)

(* Every number of rungs can be climbed.                                   *)
LEMMA ClimbExists == \A n \in Nat : \E g : Climbs(g, n)
<1> DEFINE Bad == {n \in Nat : ~\E g : Climbs(g, n)}
<1> SUFFICES ASSUME Bad # {} PROVE FALSE
  OBVIOUS
<1>1. PICK m \in Bad : \A z \in Bad : m <= z
  BY LeastNumber
<1>2. CASE m = 0
  <2> DEFINE g == [i \in 0..0 |-> 0]
  <2>1. Climbs(g, 0)
    BY DEF Climbs
  <2> QED BY <1>1, <1>2, <2>1
<1>3. CASE m # 0
  <2>1. m \in Nat /\ m - 1 \in Nat /\ m - 1 \notin Bad
    BY <1>1, <1>3
  <2>2. PICK g : Climbs(g, m - 1)
    BY <2>1
  <2> DEFINE h == [i \in 0..m |-> IF i = m THEN g[m - 1] + Rung(m) ELSE g[i]]
  <2>3. g[m - 1] \in Nat /\ Rung(m) \in Nat
    BY <2>1, <2>2, RungType DEF Climbs
  <2>4. h \in [0..m -> Nat]
    BY <2>1, <2>2, <2>3 DEF Climbs
  <2>5. h[0] = 0
    BY <1>3, <2>1, <2>2 DEF Climbs
  <2>6. ASSUME NEW i \in 1..m PROVE h[i] = h[i - 1] + Rung(i)
    <3>1. CASE i = m
      BY <2>1, <3>1
    <3>2. CASE i # m
      <4>1. i \in 1..(m - 1) /\ i - 1 \in 0..(m - 1)
        BY <2>1, <3>2
      <4>2. h[i] = g[i] /\ h[i - 1] = g[i - 1]
        BY <2>1, <4>1
      <4> QED BY <2>2, <4>1, <4>2 DEF Climbs
    <3> QED BY <3>1, <3>2
  <2>7. Climbs(h, m)
    <3> HIDE DEF h
    <3> QED BY <2>4, <2>5, <2>6 DEF Climbs
  <2> QED BY <1>1, <2>7
<1> QED BY <1>2, <1>3

(* However many rungs follow, the first ones are climbed in one way.       *)
LEMMA ClimbUnique ==
  ASSUME NEW m \in Nat, NEW n \in Nat, m <= n,
         NEW g, Climbs(g, m), NEW h, Climbs(h, n)
  PROVE  g[m] = h[m]
<1> DEFINE Bad == {i \in 0..m : g[i] # h[i]}
<1> SUFFICES ASSUME Bad # {} PROVE FALSE
  OBVIOUS
<1>1. Bad \in SUBSET Nat
  OBVIOUS
<1>2. PICK k \in Bad : \A z \in Bad : k <= z
  BY <1>1, LeastNumber
<1>3. k \in 0..m /\ g[k] # h[k]
  BY <1>2
<1>4. k # 0
  BY <1>3 DEF Climbs
<1>5. k \in 1..m /\ k \in 1..n /\ k - 1 \in 0..m
  BY <1>3, <1>4
<1>6. g[k - 1] = h[k - 1]
  BY <1>2, <1>5
<1> QED BY <1>3, <1>5, <1>6 DEF Climbs

(* So the recursive function is what its definition says it is.            *)
LEMMA LadderClimbs ==
  /\ Ladder[0] = 0
  /\ \A n \in Nat : Ladder[n] \in Nat
  /\ \A n \in Nat \ {0} : Ladder[n] = Ladder[n - 1] + Rung(n)
<1> DEFINE G(n) == CHOOSE g : Climbs(g, n)
           F == [n \in Nat |-> G(n)[n]]
           Def(f) == [n \in Nat |->
                        IF n = 0 THEN 0
                        ELSE f[n - 1] + NominalDelay(n) - (NominalDelay(n) \div 10)]
<1>1. ASSUME NEW n \in Nat PROVE Climbs(G(n), n)
  BY ClimbExists
<1> HIDE DEF G
<1>2. ASSUME NEW n \in Nat PROVE F[n] \in Nat
  BY <1>1 DEF Climbs
<1>3. F[0] = 0
  BY <1>1 DEF Climbs
<1>4. ASSUME NEW n \in Nat \ {0} PROVE F[n] = F[n - 1] + Rung(n)
  <2>1. n \in Nat /\ n - 1 \in Nat /\ n - 1 <= n /\ n \in 1..n
    OBVIOUS
  <2>2. G(n - 1)[n - 1] = G(n)[n - 1]
    BY <1>1, <2>1, ClimbUnique
  <2>3. G(n)[n] = G(n)[n - 1] + Rung(n)
    BY <1>1, <2>1 DEF Climbs
  <2> QED BY <2>1, <2>2, <2>3
<1>5. F = Def(F)
  <2>1. ASSUME NEW n \in Nat PROVE F[n] = Def(F)[n]
    <3>1. CASE n = 0
      BY <1>3, <3>1
    <3>2. CASE n # 0
      <4>1. /\ F[n - 1] \in Nat /\ F[n] = F[n - 1] + Rung(n)
            /\ NominalDelay(n) \in Nat
        BY <1>2, <1>4, <3>2, RungType, PolicyAssumption
      <4>2. F[n - 1] + NominalDelay(n) - (NominalDelay(n) \div 10)
              = F[n - 1] + Rung(n)
        <5> HIDE DEF F
        <5> QED BY <4>1 DEF Rung
      <4> HIDE DEF F
      <4> QED BY <3>2, <4>1, <4>2
    <3> QED BY <3>1, <3>2
  <2> QED BY <2>1
<1>6. Ladder = CHOOSE f : f = Def(f)
  BY DEF Ladder
<1>7. Ladder = Def(Ladder)
  <2> HIDE DEF F, Def
  <2> QED BY <1>5, <1>6
<1> HIDE DEF G
<1>8. Ladder[0] = 0
  BY <1>7
<1>9. ASSUME NEW n \in Nat, Ladder[n] \in Nat
      PROVE  Ladder[n + 1] = Ladder[n] + Rung(n + 1) /\ Ladder[n + 1] \in Nat
  <2>1. n + 1 \in Nat /\ n + 1 # 0 /\ (n + 1) - 1 = n
    OBVIOUS
  <2>2. Ladder[n + 1] = Ladder[n] + NominalDelay(n + 1) - (NominalDelay(n + 1) \div 10)
    BY <1>7, <2>1
  <2>3. NominalDelay(n + 1) \in Nat /\ Rung(n + 1) \in Nat
    BY RungType, PolicyAssumption
  <2> QED BY <1>9, <2>2, <2>3 DEF Rung
<1>10. \A n \in Nat : Ladder[n] \in Nat
  <2> DEFINE Bad == {n \in Nat : Ladder[n] \notin Nat}
  <2> SUFFICES ASSUME Bad # {} PROVE FALSE
    OBVIOUS
  <2>1. PICK m \in Bad : \A z \in Bad : m <= z
    BY LeastNumber
  <2>2. m - 1 \in Nat /\ m - 1 \notin Bad /\ (m - 1) + 1 = m
    BY <1>8, <2>1
  <2> QED BY <1>9, <2>1, <2>2
<1>11. ASSUME NEW n \in Nat \ {0} PROVE Ladder[n] = Ladder[n - 1] + Rung(n)
  <2>1. n - 1 \in Nat /\ (n - 1) + 1 = n
    OBVIOUS
  <2> QED BY <1>9, <1>10, <2>1
<1> QED BY <1>8, <1>10, <1>11

(* A ladder of n rungs is no longer than n times the longest wait.         *)
LEMMA LadderBound == \A n \in Nat : Ladder[n] <= n * MaxDelay
<1> DEFINE Bad == {n \in Nat : ~(Ladder[n] <= n * MaxDelay)}
<1> SUFFICES ASSUME Bad # {} PROVE FALSE
  OBVIOUS
<1>1. PICK m \in Bad : \A z \in Bad : m <= z
  BY LeastNumber
<1>2. MaxDelay \in Nat /\ m \in Nat
  BY PolicyAssumption
<1>3. m # 0
  BY <1>1, <1>2, LadderClimbs
<1>4. m - 1 \in Nat /\ Ladder[m - 1] <= (m - 1) * MaxDelay
  BY <1>1, <1>2, <1>3
<1>5. Ladder[m] = Ladder[m - 1] + Rung(m) /\ Rung(m) <= MaxDelay
  BY <1>2, <1>3, LadderClimbs, RungType
<1>6. (m - 1) * MaxDelay + MaxDelay = m * MaxDelay
  BY <1>2
<1>7. (m - 1) * MaxDelay \in Int /\ Ladder[m - 1] \in Nat /\ Rung(m) \in Nat
      /\ m * MaxDelay \in Int
  BY <1>2, <1>4, LadderClimbs, RungType
<1>8. Ladder[m] <= m * MaxDelay
  BY <1>2, <1>4, <1>5, <1>6, <1>7
<1> QED BY <1>1, <1>8

-----------------------------------------------------------------------------
(***************************************************************************)
(* Durations.                                                              *)
(***************************************************************************)

(* The longest wait is a whole number of scans, and no clock the           *)
(* properties read stops below the longest silence.                        *)
LEMMA Durations ==
  /\ ScanInterval \in Nat \ {0} /\ RepeatInterval \in Nat \ {0}
  /\ LongestWait \in Nat /\ LongestSilence \in Nat /\ Horizon \in Nat
  /\ RateLimitedDelay + (RateLimitedDelay \div 10) <= LongestWait
  /\ \E k \in Nat \ {0} : LongestWait = k * ScanInterval
  /\ LongestSilence = RepeatInterval + LongestWait
  /\ RepeatInterval <= Horizon /\ LongestSilence <= Horizon
<1> DEFINE wait == RateLimitedDelay + (RateLimitedDelay \div 10)
           k == (wait + ScanInterval - 1) \div ScanInterval
<1>1. ScanInterval \in Nat /\ ScanInterval > 0 /\ wait \in Nat /\ wait > 0
      /\ RepeatInterval \in Nat /\ RepeatInterval > 0 /\ MaxMishaps \in Nat
  BY PolicyAssumption, LadderAssumption
<1>2. LongestWait = k * ScanInterval
  BY DEF LongestWait
<1> HIDE DEF wait
<1>3. k \in Nat /\ k * ScanInterval >= wait
  BY <1>1
<1>4. k # 0
  BY <1>1, <1>3
<1>5. LongestWait \in Nat /\ LongestWait >= wait
  BY <1>1, <1>2, <1>3
<1>6. LongestSilence = RepeatInterval + LongestWait /\ LongestSilence \in Nat
  BY <1>1, <1>5 DEF LongestSilence
<1>7. Horizon \in Nat /\ Horizon >= LongestSilence
  <2>1. (1 + MaxMishaps) * LongestSilence \in Nat
        /\ (1 + MaxMishaps) * LongestSilence >= LongestSilence
    BY <1>1, <1>6
  <2> QED BY <1>1, <1>6, <2>1 DEF Horizon
<1> HIDE DEF k
<1> QED BY <1>1, <1>2, <1>3, <1>4, <1>5, <1>6, <1>7 DEF wait

(* What Backoff chooses: how long it is at least and at most, and when it  *)
(* gives up.                                                               *)
LEMMA Waits ==
  ASSUME NEW kind \in Kinds, NEW n \in 1..MaxAttempts, NEW w \in Backoff(kind, n)
  PROVE  /\ w = NoRetry => kind = "permanent" \/ (kind = "transient" /\ n = MaxAttempts)
         /\ w # NoRetry => /\ w \in Nat
                           /\ w <= RateLimitedDelay + (RateLimitedDelay \div 10)
                           /\ w >= Rung(n)
         /\ kind = "rate_limited"
            => w >= RateLimitedDelay - (RateLimitedDelay \div 10)
<1>1. \A c, d \in Nat : c <= d =>
        /\ c - (c \div 10) \in Nat
        /\ c - (c \div 10) <= d - (d \div 10)
        /\ c + (c \div 10) <= d + (d \div 10)
  OBVIOUS
<1>2. /\ RateLimitedDelay \in Nat /\ MaxDelay \in Nat /\ MaxAttempts \in Nat
      /\ MaxDelay <= RateLimitedDelay /\ RateLimitedDelay >= 1
  BY PolicyAssumption, LadderAssumption
<1>3. NominalDelay(n) \in Nat /\ NominalDelay(n) <= RateLimitedDelay
  BY <1>2, RungType
<1>4. RateLimitedDelay - (RateLimitedDelay \div 10) >= Rung(n)
  BY <1>1, <1>2, <1>3 DEF Rung
<1>5. CASE w \in {NoRetry} /\ (kind = "permanent" \/ (kind = "transient" /\ n >= MaxAttempts))
  BY <1>2, <1>5
<1>6. CASE kind = "rate_limited" /\ w \in WithJitter(RateLimitedDelay)
  <2>1. /\ RateLimitedDelay - (RateLimitedDelay \div 10) \in Nat
        /\ RateLimitedDelay + (RateLimitedDelay \div 10) \in Nat
        /\ Rung(n) \in Nat
    BY <1>1, <1>2, RungType
  <2>2. /\ w \in Nat /\ w # NoRetry
        /\ w >= RateLimitedDelay - (RateLimitedDelay \div 10)
        /\ w <= RateLimitedDelay + (RateLimitedDelay \div 10)
    BY <1>6, <2>1 DEF WithJitter, NoRetry
  <2>3. w >= Rung(n)
    BY <1>4, <2>1, <2>2
  <2> QED BY <1>6, <2>2, <2>3
<1>7. CASE kind = "transient" /\ w \in WithJitter(NominalDelay(n))
  <2>1. /\ NominalDelay(n) - (NominalDelay(n) \div 10) \in Nat
        /\ NominalDelay(n) + (NominalDelay(n) \div 10)
             <= RateLimitedDelay + (RateLimitedDelay \div 10)
    BY <1>1, <1>2, <1>3
  <2> HIDE DEF NominalDelay
  <2> QED BY <1>2, <1>3, <1>7, <2>1 DEF WithJitter, NoRetry, Rung
<1> QED BY <1>5, <1>6, <1>7 DEF Backoff, Kinds

(* An error that may pass is not a permanent one to Classify.              *)
LEMMA MayPassIsRetried ==
  ASSUME NEW failure \in Failures
  PROVE  /\ failure.kind \in Kinds /\ failure.passing \in BOOLEAN
         /\ failure.passing => failure.kind # "permanent"
<1>1. PICK e \in Errors : failure = [kind |-> Classify(e), passing |-> MayPass(e)]
  BY DEF Failures
<1>2. Classify(e) \in Kinds /\ MayPass(e) \in BOOLEAN
  BY DEF Classify, ByStatusCode, Kinds, MayPass
<1>3. MayPass(e) => Classify(e) # "permanent"
  BY DEF Classify, ByStatusCode, MayPass, Errors
<1> QED BY <1>1, <1>2, <1>3

-----------------------------------------------------------------------------
(***************************************************************************)
(* The inductive invariant.                                                *)
(***************************************************************************)

(* A domain without failures is neither blocked nor of any kind, one that  *)
(* is being tried is not blocked, and of a failure that does not block it  *)
(* the owner is told as such.                                              *)
FailureOK ==
    /\ row.retry = 0 => failing = 0 /\ ~row.blocked /\ row.kind = "none"
    /\ pc = "attempt" => ~row.blocked
    /\ pc = "notify" /\ row.retry > 0 /\ ~row.blocked => news = "failed"

(* As long as no notification was lost and none was forgotten, the row     *)
(* remembers the one the owner had, and no later time than it was sent.    *)
RemembersOK ==
    budget.lost + budget.unsaved = 0 =>
        IF pc = "save" THEN news = told
        ELSE row.notified = told /\ row.age <= silence

(* For so long the domain has failed and the owner has not heard of it.    *)
Unheard == AtMost(silence, failing)

(* What the lost messages have cost.                                       *)
Lost == budget.lost * LongestSilence

(* The owner has heard since the row remembers it, but for lost messages;  *)
(* the scans until the next attempt end before the owner has to hear.      *)
RemindedOK ==
    /\ row.age < RepeatInterval => Unheard <= row.age + Lost
    /\ pc \in {"attempt", "notify"} => Unheard <= LongestSilence + Lost
    /\ pc = "save" => Unheard <= Lost
    /\ pc = "idle" /\ row.retry > 0 /\ ~row.blocked =>
         \E n \in Nat \ {0} :
            /\ row.wait <= n * ScanInterval
            /\ Unheard + n * ScanInterval <= LongestSilence + Lost
    /\ pc \in {"notify", "save"} /\ ~row.blocked
       => row.wait <= RateLimitedDelay + (RateLimitedDelay \div 10)

(* The rungs that this many failures climb, or all of them.                *)
Climbed == Ladder[AtMost(row.retry, MaxAttempts - 1)]

(* The waits of the ladder up to here are over, or will be, unless the     *)
(* clock has stopped.                                                      *)
LadderOK ==
    /\ ~row.blocked =>
          \/ failing + (IF pc = "attempt" THEN 0 ELSE row.wait) >= Climbed
          \/ failing = Horizon
    /\ row.blocked /\ passing =>
          failing >= Ladder[MaxAttempts - 1] \/ failing = Horizon

LadderInv == TypeOK /\ FailureOK /\ RemembersOK /\ RemindedOK /\ LadderOK

-----------------------------------------------------------------------------
(***************************************************************************)
(* What the actions do to the records.                                     *)
(***************************************************************************)
RowType == [retry : 0..MaxAttempts, wait : Nat, kind : Kinds \cup {"none"},
            blocked : BOOLEAN, notified : NotifiedStates, age : 0..RepeatInterval]
BudgetType == [lost : 0..MaxMishaps, unsaved : 0..MaxMishaps, manual : 0..MaxMishaps]

(* What the type says of the scalars.                                      *)
LEMMA Scalars ==
  ASSUME TypeOK
  PROVE  /\ row \in RowType /\ budget \in BudgetType
         /\ row.retry \in Nat /\ row.retry <= MaxAttempts /\ row.wait \in Nat
         /\ row.age \in Nat /\ row.age <= RepeatInterval /\ row.blocked \in BOOLEAN
         /\ silence \in Nat /\ silence <= Horizon
         /\ failing \in Nat /\ failing <= Horizon
         /\ sinceTry \in Nat /\ sinceTry <= 2 * ScanInterval
         /\ budget.lost \in Nat /\ budget.unsaved \in Nat /\ budget.manual \in Nat
         /\ MaxAttempts \in Nat \ {0} /\ MaxMishaps \in Nat
         /\ news \in AlertStates /\ told \in NotifiedStates
<1>1. row \in RowType /\ budget \in BudgetType
  BY DEF TypeOK, RowType, BudgetType
<1>2. /\ row.retry \in 0..MaxAttempts /\ row.wait \in Nat
      /\ row.age \in 0..RepeatInterval /\ row.blocked \in BOOLEAN
  BY <1>1 DEF RowType
<1>3. /\ budget.lost \in 0..MaxMishaps /\ budget.unsaved \in 0..MaxMishaps
      /\ budget.manual \in 0..MaxMishaps
  BY <1>1 DEF BudgetType
<1>4. /\ silence \in 0..Horizon /\ failing \in 0..Horizon
      /\ sinceTry \in 0..(2 * ScanInterval)
      /\ news \in AlertStates /\ told \in NotifiedStates
  BY DEF TypeOK
<1>5. 2 * ScanInterval \in Nat /\ MaxAttempts \in Nat \ {0} /\ MaxMishaps \in Nat
  BY Durations, PolicyAssumption, LadderAssumption
<1> QED BY <1>1, <1>2, <1>3, <1>4, <1>5, Durations

(* One more mishap, of the kind it is.                                     *)
LEMMA SpendEffect ==
  ASSUME TypeOK, NEW what \in {"lost", "unsaved", "manual"}, Spend(what)
  PROVE  /\ budget' \in BudgetType
         /\ budget'.lost = IF what = "lost" THEN budget.lost + 1 ELSE budget.lost
         /\ budget'.unsaved = IF what = "unsaved" THEN budget.unsaved + 1
                                                  ELSE budget.unsaved
<1>1. /\ budget \in BudgetType /\ budget.lost \in Nat /\ budget.unsaved \in Nat
      /\ budget.manual \in Nat /\ MaxMishaps \in Nat
      /\ budget.lost + budget.unsaved + budget.manual < MaxMishaps
      /\ budget' = [budget EXCEPT ![what] = @ + 1]
  BY Scalars DEF Spend
<1>2. budget[what] \in Nat /\ budget[what] + 1 \in 0..MaxMishaps
  BY <1>1
<1>3. CASE what = "lost"
  BY <1>1, <1>2, <1>3 DEF BudgetType
<1>4. CASE what = "unsaved"
  BY <1>1, <1>2, <1>4 DEF BudgetType
<1>5. CASE what = "manual"
  BY <1>1, <1>2, <1>5 DEF BudgetType
<1> QED BY <1>3, <1>4, <1>5

(* A scan interval takes its time off the wait and adds it to the age.     *)
LEMMA ScanEffect ==
  ASSUME TypeOK, Scan
  PROVE  /\ row' \in RowType
         /\ row'.retry = row.retry /\ row'.kind = row.kind
         /\ row'.blocked = row.blocked /\ row'.notified = row.notified
         /\ row'.wait = IF row.wait > ScanInterval THEN row.wait - ScanInterval ELSE 0
         /\ row'.age = AtMost(row.age + ScanInterval, RepeatInterval)
         /\ pc' = IF ~row.blocked /\ row'.wait = 0 THEN "attempt" ELSE "idle"
<1> DEFINE w == IF row.wait > ScanInterval THEN row.wait - ScanInterval ELSE 0
           a == AtMost(row.age + ScanInterval, RepeatInterval)
<1>1. w \in Nat /\ a \in 0..RepeatInterval /\ row \in RowType
  BY Scalars, Durations DEF AtMost
<1>2. row' = [row EXCEPT !.wait = w, !.age = a]
  BY DEF Scan, Older
<1>3. pc' = IF Retried(row') THEN "attempt" ELSE "idle"
  BY <1>2 DEF Scan, Older
<1> HIDE DEF w, a
<1>4. /\ row' \in RowType
      /\ row'.retry = row.retry /\ row'.kind = row.kind
      /\ row'.blocked = row.blocked /\ row'.notified = row.notified
      /\ row'.wait = w /\ row'.age = a
  BY <1>1, <1>2 DEF RowType
<1> QED BY <1>3, <1>4 DEF w, a, Retried

(* A user, or a success, clears the failures.                              *)
LEMMA ClearEffect ==
  ASSUME TypeOK, row' = [row EXCEPT !.retry = 0, !.wait = 0, !.kind = "none",
                                    !.blocked = FALSE]
  PROVE  /\ row' \in RowType
         /\ row'.retry = 0 /\ row'.wait = 0 /\ row'.kind = "none" /\ ~row'.blocked
         /\ row'.notified = row.notified /\ row'.age = row.age
<1>1. row \in RowType /\ 0 \in 0..MaxAttempts
  BY Scalars
<1> QED BY <1>1 DEF RowType

(* A failure is counted up to the limit, and blocks or schedules.          *)
LEMMA FailEffect ==
  ASSUME TypeOK, NEW failure \in Failures, FailWith(failure), ~row.blocked
  PROVE  /\ row' \in RowType
         /\ row'.retry = AtMost(row.retry + 1, MaxAttempts) /\ row'.retry \in 1..MaxAttempts
         /\ row'.kind = failure.kind
         /\ row'.notified = row.notified /\ row'.age = row.age
         /\ row'.blocked =>
               /\ news' = "blocked"
               /\ failure.passing => row'.retry = MaxAttempts
               /\ failure.kind # "rate_limited"
         /\ ~row'.blocked =>
               /\ news' = "failed"
               /\ row'.wait <= RateLimitedDelay + (RateLimitedDelay \div 10)
               /\ row'.wait >= Rung(row'.retry)
               /\ failure.kind = "rate_limited"
                  => row'.wait >= RateLimitedDelay - (RateLimitedDelay \div 10)
<1> DEFINE attempts == AtMost(row.retry + 1, MaxAttempts)
<1>1. attempts \in 1..MaxAttempts
  BY Scalars DEF AtMost
<1>2. failure.kind \in Kinds /\ (failure.passing => failure.kind # "permanent")
  BY MayPassIsRetried
<1>3. PICK w \in Backoff(failure.kind, attempts) :
        /\ row' = [row EXCEPT
              !.retry = attempts, !.kind = failure.kind,
              !.wait = IF w = NoRetry THEN 0 ELSE w,
              !.blocked = IF w = NoRetry THEN TRUE ELSE @]
        /\ news' = IF w = NoRetry THEN "blocked" ELSE "failed"
  BY DEF FailWith
<1> HIDE DEF attempts
<1>4. /\ w = NoRetry => failure.kind = "permanent"
                         \/ (failure.kind = "transient" /\ attempts = MaxAttempts)
      /\ w # NoRetry => /\ w \in Nat
                        /\ w <= RateLimitedDelay + (RateLimitedDelay \div 10)
                        /\ w >= Rung(attempts)
      /\ failure.kind = "rate_limited"
         => w >= RateLimitedDelay - (RateLimitedDelay \div 10)
  BY <1>1, <1>2, <1>3, Waits
<1>5. row \in RowType /\ attempts \in 0..MaxAttempts
  BY <1>1, Scalars
<1>6. CASE w = NoRetry
  <2>1. row' = [row EXCEPT !.retry = attempts, !.kind = failure.kind,
                           !.wait = 0, !.blocked = TRUE]
    BY <1>3, <1>6
  <2>2. /\ row' \in RowType
        /\ row'.retry = attempts /\ row'.kind = failure.kind /\ row'.blocked
        /\ row'.notified = row.notified /\ row'.age = row.age
    BY <1>2, <1>5, <2>1 DEF RowType
  <2>3. news' = "blocked" /\ failure.kind # "rate_limited"
    BY <1>3, <1>4, <1>6
  <2> QED BY <1>1, <1>2, <1>4, <1>6, <2>2, <2>3 DEF attempts
<1>7. CASE w # NoRetry
  <2>1. row' = [row EXCEPT !.retry = attempts, !.kind = failure.kind,
                           !.wait = w, !.blocked = FALSE]
    BY <1>3, <1>5, <1>7 DEF RowType
  <2>2. /\ row' \in RowType
        /\ row'.retry = attempts /\ row'.kind = failure.kind /\ ~row'.blocked
        /\ row'.wait = w
        /\ row'.notified = row.notified /\ row'.age = row.age
    BY <1>2, <1>4, <1>5, <1>7, <2>1 DEF RowType
  <2>3. news' = "failed"
    BY <1>3, <1>7
  <2> QED BY <1>1, <1>4, <1>7, <2>2, <2>3 DEF attempts
<1> QED BY <1>6, <1>7

(* A notification that is remembered changes the rest of the row.          *)
LEMMA SaveEffect ==
  ASSUME TypeOK, row' = Remembered(row)
  PROVE  /\ row' \in RowType
         /\ row'.retry = row.retry /\ row'.kind = row.kind /\ row'.wait = row.wait
         /\ row'.blocked = row.blocked
         /\ row'.notified = news /\ row'.age = 0
<1>1. row \in RowType /\ 0 \in 0..RepeatInterval /\ news \in NotifiedStates
  BY Scalars, Durations DEF NotifiedStates
<1> QED BY <1>1 DEF RowType, Remembered

-----------------------------------------------------------------------------
(***************************************************************************)
(* The type, and what the steps owe to it.                                 *)
(***************************************************************************)
LEMMA LadderTypeInit == Init => TypeOK
<1> SUFFICES ASSUME Init PROVE TypeOK
  OBVIOUS
<1>1. /\ 0 \in 0..MaxAttempts /\ 0 \in 0..RepeatInterval /\ 0 \in 0..Horizon
      /\ 0 \in 0..(2 * ScanInterval) /\ 0 \in 0..MaxMishaps
  BY Durations, PolicyAssumption, LadderAssumption
<1> QED BY <1>1 DEF Init, TypeOK, AlertStates, NotifiedStates

(* The clocks of a scan stop at their horizons.                            *)
LEMMA ClockTypes ==
  ASSUME TypeOK
  PROVE  /\ Older(silence, Horizon) \in 0..Horizon
         /\ Older(failing, Horizon) \in 0..Horizon
         /\ Older(sinceTry, 2 * ScanInterval) \in 0..(2 * ScanInterval)
         /\ 0 \in 0..Horizon /\ 0 \in 0..(2 * ScanInterval)
<1>1. 2 * ScanInterval \in Nat
  BY Durations
<1> HIDE DEF Horizon
<1> QED BY <1>1, Scalars, Durations DEF Older, AtMost

(* Every step keeps the types.                                             *)
LEMMA LadderTypeStep == TypeOK /\ [Next]_vars => TypeOK'
<1> SUFFICES ASSUME TypeOK, [Next]_vars PROVE TypeOK'
  OBVIOUS
<1>1. CASE Scan
  <2>1. row' \in RowType
    BY <1>1, ScanEffect
  <2> QED BY <1>1, <2>1, ClockTypes DEF Scan, TypeOK, RowType
<1>2. CASE Manual
  <2>1. row' \in RowType /\ budget' \in BudgetType
    BY <1>2, ClearEffect, SpendEffect DEF Manual
  <2> QED BY <1>2, <2>1, ClockTypes DEF Manual, TypeOK, RowType, BudgetType
<1>3. CASE Succeed
  <2>1. row' \in RowType
    BY <1>3, ClearEffect DEF Succeed
  <2> QED BY <1>3, <2>1, ClockTypes DEF Succeed, TypeOK, RowType, AlertStates
<1>4. CASE Notify
  <2>1. budget' \in BudgetType
    BY <1>4, Scalars, SpendEffect DEF Notify
  <2>2. told' \in NotifiedStates
    BY <1>4, Scalars DEF Notify, NotifiedStates
  <2> QED BY <1>4, <2>1, <2>2, ClockTypes DEF Notify, TypeOK, BudgetType
<1>5. CASE Save
  <2>1. row' \in RowType /\ budget' \in BudgetType
    BY <1>5, Scalars, SaveEffect, SpendEffect DEF Save
  <2> QED BY <1>5, <2>1 DEF Save, TypeOK, RowType, BudgetType
<1>6. ASSUME NEW failure \in Failures, FailWith(failure) PROVE TypeOK'
  <2> DEFINE attempts == AtMost(row.retry + 1, MaxAttempts)
  <2>1. attempts \in 1..MaxAttempts /\ attempts \in 0..MaxAttempts
    BY Scalars DEF AtMost
  <2>2. failure.kind \in Kinds /\ failure.passing \in BOOLEAN
    BY MayPassIsRetried
  <2>3. PICK w \in Backoff(failure.kind, attempts) :
          /\ row' = [row EXCEPT
                !.retry = attempts, !.kind = failure.kind,
                !.wait = IF w = NoRetry THEN 0 ELSE w,
                !.blocked = IF w = NoRetry THEN TRUE ELSE @]
          /\ news' = IF w = NoRetry THEN "blocked" ELSE "failed"
    BY <1>6 DEF FailWith
  <2> HIDE DEF attempts
  <2>4. w # NoRetry => w \in Nat
    BY <2>1, <2>2, <2>3, Waits
  <2> DEFINE wait == IF w = NoRetry THEN 0 ELSE w
             blocked == IF w = NoRetry THEN TRUE ELSE row.blocked
  <2>5. wait \in Nat /\ blocked \in BOOLEAN /\ row \in RowType
    BY <2>4, Scalars
  <2>6. row' = [row EXCEPT !.retry = attempts, !.kind = failure.kind,
                           !.wait = wait, !.blocked = blocked]
    BY <2>3
  <2> HIDE DEF wait, blocked
  <2>7. row' \in RowType
    BY <2>1, <2>2, <2>5, <2>6 DEF RowType
  <2> QED
    BY <1>6, <2>2, <2>3, <2>7, ClockTypes DEF FailWith, TypeOK, RowType, AlertStates
<1>7. CASE UNCHANGED vars
  BY <1>7 DEF vars, TypeOK
<1> QED BY <1>1, <1>2, <1>3, <1>4, <1>5, <1>6, <1>7 DEF Next

(***************************************************************************)
(* Blocked domains and the news of a failure.                              *)
(***************************************************************************)
LEMMA FailureStep == TypeOK /\ FailureOK /\ [Next]_vars => FailureOK'
<1> SUFFICES ASSUME TypeOK, FailureOK, [Next]_vars PROVE FailureOK'
  OBVIOUS
<1>1. CASE Scan
  BY <1>1, ScanEffect DEF FailureOK, Scan
<1>2. CASE Manual
  BY <1>2, ClearEffect DEF FailureOK, Manual
<1>3. CASE Succeed
  BY <1>3, ClearEffect DEF FailureOK, Succeed
<1>4. CASE Notify
  BY <1>4 DEF FailureOK, Notify
<1>5. CASE Save
  BY <1>5, SaveEffect DEF FailureOK, Save
<1>6. ASSUME NEW failure \in Failures, FailWith(failure) PROVE FailureOK'
  <2>1. ~row.blocked
    BY <1>6 DEF FailureOK, FailWith
  <2>2. row'.retry \in 1..MaxAttempts /\ (~row'.blocked => news' = "failed")
    BY <1>6, <2>1, FailEffect
  <2>3. row'.retry # 0 /\ pc' = "notify"
    BY <1>6, <2>2 DEF FailWith
  <2> QED BY <2>2, <2>3 DEF FailureOK
<1>7. CASE UNCHANGED vars
  BY <1>7 DEF vars, FailureOK
<1> QED BY <1>1, <1>2, <1>3, <1>4, <1>5, <1>6, <1>7 DEF Next

(***************************************************************************)
(* What the row remembers is what the owner was told.                      *)
(***************************************************************************)
LEMMA RemembersStep ==
  TypeOK /\ FailureOK /\ RemembersOK /\ [Next]_vars => RemembersOK'
<1> SUFFICES ASSUME TypeOK, FailureOK, RemembersOK, [Next]_vars,
                    budget'.lost + budget'.unsaved = 0
             PROVE  IF pc' = "save" THEN news' = told'
                    ELSE row'.notified = told' /\ row'.age <= silence'
  BY DEF RemembersOK
<1>1. CASE Scan
  <2>1. row.age <= silence /\ row.notified = told
    BY <1>1 DEF Scan, RemembersOK
  <2>2. row'.age = AtMost(row.age + ScanInterval, RepeatInterval)
        /\ silence' = AtMost(silence + ScanInterval, Horizon)
    BY <1>1, ScanEffect DEF Scan, Older
  <2>3. row'.age <= silence'
    <3> HIDE DEF Horizon
    <3> QED BY <2>1, <2>2, Scalars, Durations DEF AtMost
  <2> QED BY <1>1, <2>1, <2>3, ScanEffect DEF Scan
<1>2. CASE Manual
  <2>1. budget'.lost = budget.lost /\ budget'.unsaved = budget.unsaved
    BY <1>2, SpendEffect DEF Manual
  <2> QED BY <1>2, <2>1, ClearEffect DEF Manual, RemembersOK
<1>3. CASE Succeed
  BY <1>3, ClearEffect DEF Succeed, RemembersOK
<1>4. CASE Notify
  <2>1. ~Spend("lost")
    BY SpendEffect, Scalars
  <2> QED BY <1>4, <2>1 DEF Notify, RemembersOK
<1>5. CASE Save
  <2>1. ~Spend("unsaved")
    BY SpendEffect, Scalars
  <2>2. row' = Remembered(row) /\ UNCHANGED budget
    BY <1>5, <2>1 DEF Save
  <2>3. news = told /\ 0 <= silence
    BY <1>5, <2>2, Scalars DEF Save, RemembersOK
  <2> QED BY <1>5, <2>2, <2>3, SaveEffect DEF Save
<1>6. ASSUME NEW failure \in Failures, FailWith(failure)
      PROVE  row'.notified = told' /\ row'.age <= silence' /\ pc' # "save"
  <2>1. ~row.blocked
    BY <1>6 DEF FailureOK, FailWith
  <2> QED BY <1>6, <2>1, FailEffect DEF FailWith, RemembersOK
<1>7. CASE UNCHANGED vars
  BY <1>7 DEF vars, RemembersOK
<1> QED BY <1>1, <1>2, <1>3, <1>4, <1>5, <1>6, <1>7 DEF Next

(***************************************************************************)
(* The owner hears of a failing domain in time.                            *)
(***************************************************************************)

(* What is lost is a duration, and one more message costs one more.        *)
LEMMA LostCosts ==
  ASSUME TypeOK
  PROVE  /\ Lost \in Nat /\ Unheard \in Nat
         /\ budget'.lost = budget.lost => Lost' = Lost
         /\ budget'.lost = budget.lost + 1 => Lost' = LongestSilence + Lost
<1>1. budget.lost \in Nat /\ LongestSilence \in Nat
  BY Scalars, Durations
<1>2. Lost \in Nat
  BY <1>1 DEF Lost
<1>3. (budget.lost + 1) * LongestSilence = LongestSilence + Lost
  BY <1>1 DEF Lost
<1>4. Lost' = budget'.lost * LongestSilence
  BY DEF Lost, LongestSilence, LongestWait
<1>5. Unheard \in Nat
  BY Scalars DEF Unheard, AtMost
<1> QED BY <1>1, <1>2, <1>3, <1>4, <1>5 DEF Lost

(* A domain that is not failing leaves nothing to hear.                    *)
LEMMA NothingUnheard ==
  ASSUME silence' \in Nat, failing' = 0  PROVE Unheard' = 0
BY DEF Unheard, AtMost

(* After a wait has been scheduled the next attempt is in so many scans.   *)
LEMMA NextAttempt ==
  ASSUME NEW wait \in Nat, wait <= RateLimitedDelay + (RateLimitedDelay \div 10),
         NEW lost \in Nat, NEW u \in Nat, u <= RepeatInterval + lost
  PROVE  \E n \in Nat \ {0} : /\ wait <= n * ScanInterval
                             /\ u + n * ScanInterval <= LongestSilence + lost
<1>1. PICK n \in Nat \ {0} : LongestWait = n * ScanInterval
  BY Durations
<1>2. RateLimitedDelay + (RateLimitedDelay \div 10) \in Nat
  BY PolicyAssumption
<1>3. wait <= LongestWait
  BY <1>2, Durations
<1>4. u + LongestWait <= LongestSilence + lost
  BY Durations
<1> QED BY <1>1, <1>3, <1>4

(* While time passes the silence grows, and the wait gets shorter as fast. *)
LEMMA RemindedScan ==
  ASSUME TypeOK, FailureOK, RemindedOK, Scan  PROVE RemindedOK'
<1>1. /\ pc = "idle" /\ pc' \in {"idle", "attempt"} /\ Lost' = Lost
      /\ row'.retry = row.retry /\ row'.blocked = row.blocked
      /\ row'.wait = IF row.wait > ScanInterval THEN row.wait - ScanInterval ELSE 0
      /\ row'.age = AtMost(row.age + ScanInterval, RepeatInterval)
      /\ pc' = IF ~row.blocked /\ row'.wait = 0 THEN "attempt" ELSE "idle"
  BY ScanEffect, LostCosts DEF Scan
<1>2. Unheard' <= Unheard + ScanInterval
  <2>1. /\ silence' = AtMost(silence + ScanInterval, Horizon)
        /\ failing' = IF row.retry = 0 THEN 0
                      ELSE AtMost(failing + ScanInterval, Horizon)
    BY DEF Scan, Older
  <2> HIDE DEF Horizon
  <2> QED BY <2>1, Scalars, Durations DEF Unheard, AtMost
<1>3. silence' \in Nat /\ Unheard' \in Nat /\ Unheard \in Nat /\ Lost \in Nat
  <2>1. silence' \in 0..Horizon /\ failing' \in 0..Horizon
    BY ClockTypes DEF Scan
  <2> QED BY <2>1, LostCosts, Durations DEF Unheard, AtMost
<1>4. row.retry = 0 => Unheard' = 0
  BY <1>3, NothingUnheard DEF Scan
<1>5. row'.age < RepeatInterval => Unheard' <= row'.age + Lost
  <2> SUFFICES ASSUME row'.age < RepeatInterval PROVE Unheard' <= row'.age + Lost
    OBVIOUS
  <2>1. row'.age = row.age + ScanInterval /\ row.age < RepeatInterval
    BY <1>1, Scalars, Durations DEF AtMost
  <2>2. Unheard <= row.age + Lost
    BY <2>1 DEF RemindedOK
  <2> QED BY <1>2, <1>3, <2>1, <2>2, Scalars, Durations
<1>6. CASE row.retry = 0
  BY <1>1, <1>3, <1>4, <1>5, <1>6, Durations DEF RemindedOK
<1>7. CASE row.blocked
  BY <1>1, <1>5, <1>7 DEF RemindedOK
<1>8. CASE row.retry # 0 /\ ~row.blocked
  <2>1. row.retry > 0
    BY <1>8, Scalars
  <2>2. PICK n \in Nat \ {0} :
          /\ row.wait <= n * ScanInterval
          /\ Unheard + n * ScanInterval <= LongestSilence + Lost
    BY <1>1, <1>8, <2>1 DEF RemindedOK
  <2>3. n * ScanInterval \in Nat /\ ScanInterval \in Nat /\ ScanInterval > 0
        /\ n * ScanInterval >= ScanInterval
        /\ (n - 1) * ScanInterval = n * ScanInterval - ScanInterval
        /\ row.wait \in Nat /\ LongestSilence \in Nat
    BY <2>2, Scalars, Durations
  <2>4. CASE row'.wait = 0
    <3>1. Unheard' <= LongestSilence + Lost
      BY <1>2, <1>3, <2>2, <2>3
    <3> QED BY <1>1, <1>5, <1>8, <2>4, <3>1 DEF RemindedOK
  <2>5. CASE row'.wait # 0
    <3>1. row.wait > ScanInterval /\ row'.wait = row.wait - ScanInterval
      BY <1>1, <2>5
    <3>2. n # 1
      BY <2>2, <2>3, <3>1
    <3>3. n - 1 \in Nat \ {0}
      BY <3>2
    <3>4. row'.wait <= (n - 1) * ScanInterval
      BY <2>2, <2>3, <3>1
    <3>5. Unheard' + (n - 1) * ScanInterval <= LongestSilence + Lost
      <4>1. PICK t \in Nat : /\ (n - 1) * ScanInterval = t - ScanInterval
                             /\ Unheard + t <= LongestSilence + Lost
        BY <2>2, <2>3
      <4>2. ScanInterval \in Int /\ LongestSilence + Lost \in Int
        BY <1>3, Durations
      <4>3. Unheard' + (t - ScanInterval) <= LongestSilence + Lost
        BY <1>2, <1>3, <4>1, <4>2
      <4> QED BY <4>1, <4>3
    <3>6. pc' = "idle"
      BY <1>1, <2>5
    <3> QED BY <1>1, <1>5, <3>3, <3>4, <3>5, <3>6 DEF RemindedOK, LongestSilence, LongestWait
  <2> QED BY <2>4, <2>5
<1> QED BY <1>6, <1>7, <1>8

(***************************************************************************)
(* A failure is reported, lost, or not due yet: what the owner does not    *)
(* know is older than the last message by no more than what was lost.      *)
(***************************************************************************)
LEMMA RemindedNotify ==
  ASSUME TypeOK, FailureOK, RemindedOK, Notify  PROVE RemindedOK'
<1>1. pc = "notify" /\ UNCHANGED <<row, news, failing>>
  BY DEF Notify
<1>2. /\ Lost \in Nat /\ Unheard \in Nat /\ LongestSilence \in Nat
      /\ Unheard <= LongestSilence + Lost
      /\ row.age < RepeatInterval => Unheard <= row.age + Lost
      /\ ~row.blocked => row.wait <= RateLimitedDelay + (RateLimitedDelay \div 10)
      /\ row.wait \in Nat /\ row.age \in Nat /\ RepeatInterval \in Nat
  BY <1>1, LostCosts, Scalars, Durations DEF RemindedOK
<1>3. CASE ~ShouldNotify(row.notified, row.age, news)
  <2>1. pc' = "idle" /\ UNCHANGED <<silence, budget>>
    BY <1>3 DEF Notify
  <2>2. Lost' = Lost /\ Unheard' = Unheard
    BY <1>1, <2>1, LostCosts DEF Unheard
  <2>3. row.retry > 0 /\ ~row.blocked
        => \E n \in Nat \ {0} : /\ row.wait <= n * ScanInterval
                               /\ Unheard + n * ScanInterval <= LongestSilence + Lost
    <3> SUFFICES ASSUME row.retry > 0, ~row.blocked
                 PROVE  \E n \in Nat \ {0} :
                            /\ row.wait <= n * ScanInterval
                            /\ Unheard + n * ScanInterval <= LongestSilence + Lost
      OBVIOUS
    <3>1. news = "failed"
      BY <1>1 DEF FailureOK
    <3>2. row.age < RepeatInterval
      BY <1>2, <1>3, <3>1 DEF ShouldNotify
    <3>3. Unheard <= RepeatInterval + Lost
      BY <1>2, <3>2
    <3> QED BY <1>2, <3>3, NextAttempt
  <2> QED BY <1>1, <1>2, <2>1, <2>2, <2>3 DEF RemindedOK, LongestSilence, LongestWait
<1>4. CASE pc' = "save" /\ silence' = 0 /\ UNCHANGED budget
  <2>1. Lost' = Lost /\ Unheard' = 0
    BY <1>1, <1>4, LostCosts, Scalars DEF Unheard, AtMost
  <2> QED BY <1>1, <1>2, <1>4, <2>1 DEF RemindedOK
<1>5. CASE pc' = "save" /\ Spend("lost") /\ UNCHANGED silence
  <2>1. Lost' = LongestSilence + Lost /\ Unheard' = Unheard
    BY <1>1, <1>5, LostCosts, SpendEffect DEF Unheard
  <2> QED BY <1>1, <1>2, <1>5, <2>1 DEF RemindedOK
<1> QED BY <1>3, <1>4, <1>5 DEF Notify

(***************************************************************************)
(* The time of the message is stored, or the update is lost and is paid    *)
(* for.                                                                    *)
(***************************************************************************)
LEMMA RemindedSave ==
  ASSUME TypeOK, RemindedOK, Save  PROVE RemindedOK'
<1>1. /\ pc = "save" /\ pc' = "idle" /\ UNCHANGED <<silence, failing>>
      /\ Lost' = Lost /\ Unheard' = Unheard
  BY LostCosts, SpendEffect DEF Save, Unheard
<1>2. /\ Lost \in Nat /\ Unheard \in Nat /\ Unheard <= Lost
      /\ ~row.blocked => row.wait <= RateLimitedDelay + (RateLimitedDelay \div 10)
      /\ row.wait \in Nat /\ row.age \in Nat /\ RepeatInterval \in Nat
  BY <1>1, LostCosts, Scalars, Durations DEF RemindedOK
<1>3. /\ row'.wait = row.wait /\ row'.blocked = row.blocked /\ row'.age \in Nat
  BY Scalars, SaveEffect DEF Save
<1>4. Unheard <= RepeatInterval + Lost /\ Unheard' <= row'.age + Lost'
  BY <1>1, <1>2, <1>3
<1>5. ~row.blocked
      => \E n \in Nat \ {0} : /\ row.wait <= n * ScanInterval
                             /\ Unheard + n * ScanInterval <= LongestSilence + Lost
  BY <1>2, <1>4, NextAttempt
<1> QED BY <1>1, <1>3, <1>4, <1>5 DEF RemindedOK, LongestSilence, LongestWait

(* Every step keeps the silence within its bound.                          *)
LEMMA RemindedStep ==
  TypeOK /\ FailureOK /\ RemindedOK /\ [Next]_vars => RemindedOK'
<1> SUFFICES ASSUME TypeOK, FailureOK, RemindedOK, [Next]_vars PROVE RemindedOK'
  OBVIOUS
<1>1. Lost \in Nat /\ Unheard \in Nat /\ LongestSilence \in Nat /\ silence \in Nat
      /\ row.age \in Nat /\ RateLimitedDelay \in Nat
  BY LostCosts, Scalars, Durations, PolicyAssumption
<1>2. CASE Manual
  <2>1. /\ Lost' = Lost /\ Unheard' = 0 /\ row'.age = row.age /\ pc' = "attempt"
        /\ ~row'.blocked
    BY <1>1, <1>2, LostCosts, SpendEffect, ClearEffect, NothingUnheard DEF Manual
  <2> QED BY <1>1, <2>1 DEF RemindedOK
<1>3. CASE Succeed
  <2>1. /\ Lost' = Lost /\ Unheard' = 0 /\ row'.age = row.age /\ pc' = "notify"
        /\ ~row'.blocked /\ row'.wait = 0
    BY <1>1, <1>3, LostCosts, ClearEffect, NothingUnheard DEF Succeed
  <2>2. 0 <= RateLimitedDelay + (RateLimitedDelay \div 10)
    BY <1>1
  <2> QED BY <1>1, <2>1, <2>2 DEF RemindedOK
<1>4. ASSUME NEW failure \in Failures, FailWith(failure) PROVE RemindedOK'
  <2>1. ~row.blocked /\ pc = "attempt" /\ pc' = "notify"
    BY <1>4 DEF FailureOK, FailWith
  <2>2. Lost' = Lost /\ Unheard' = Unheard
    BY <1>4, LostCosts DEF FailWith, Unheard
  <2>3. /\ row'.age = row.age
        /\ ~row'.blocked => row'.wait <= RateLimitedDelay + (RateLimitedDelay \div 10)
    BY <1>4, <2>1, FailEffect
  <2> QED BY <2>1, <2>2, <2>3 DEF RemindedOK
<1>5. CASE UNCHANGED vars
  BY <1>5 DEF vars, RemindedOK, Unheard, Lost
<1> QED BY <1>2, <1>3, <1>4, <1>5, RemindedScan, RemindedNotify, RemindedSave DEF Next

(***************************************************************************)
(* The rungs of the ladder.                                                *)
(***************************************************************************)
LEMMA ClimbedType ==
  ASSUME TypeOK
  PROVE  /\ Climbed \in Nat /\ Ladder[MaxAttempts - 1] \in Nat
         /\ row.retry = 0 => Climbed = 0
         /\ row.retry >= MaxAttempts - 1 => Climbed = Ladder[MaxAttempts - 1]
         /\ row.retry < MaxAttempts => Climbed = Ladder[row.retry]
<1>1. /\ row.retry \in Nat /\ row.retry <= MaxAttempts /\ MaxAttempts \in Nat
      /\ MaxAttempts - 1 \in Nat
  BY Scalars
<1> QED BY <1>1, LadderClimbs DEF Climbed, AtMost

(* Time passes: a domain that waits gets no further up the ladder.         *)
LEMMA LadderScan ==
  ASSUME TypeOK, FailureOK, LadderOK, Scan  PROVE LadderOK'
<1>1. /\ pc = "idle"
      /\ row'.retry = row.retry /\ row'.blocked = row.blocked
      /\ row'.wait = IF row.wait > ScanInterval THEN row.wait - ScanInterval ELSE 0
      /\ UNCHANGED passing
      /\ failing' = IF row.retry = 0 THEN 0 ELSE AtMost(failing + ScanInterval, Horizon)
  BY ScanEffect DEF Scan, Older
<1>2. /\ Climbed' = Climbed /\ Climbed \in Nat /\ Ladder[MaxAttempts - 1] \in Nat
      /\ row.retry = 0 => Climbed = 0
  BY <1>1, ClimbedType DEF Climbed
<1>3. /\ row.wait \in Nat /\ row'.wait \in Nat /\ failing \in Nat /\ failing <= Horizon
      /\ Horizon \in Nat /\ ScanInterval \in Nat /\ failing' \in Nat
  BY <1>1, Scalars, Durations, ClockTypes DEF Scan
<1>4. CASE row.retry = 0
  BY <1>1, <1>2, <1>3, <1>4 DEF LadderOK, FailureOK
<1>5. CASE row.retry # 0
  <2>1. failing' = Horizon \/ failing' = failing + ScanInterval
    <3> HIDE DEF Horizon
    <3> QED BY <1>1, <1>5 DEF AtMost
  <2>2. failing = Horizon => failing' = Horizon
    <3> HIDE DEF Horizon
    <3> QED BY <1>1, <1>3, <1>5, Durations DEF AtMost
  <2>3. ~row.blocked => \/ failing' + (IF pc' = "attempt" THEN 0 ELSE row'.wait) >= Climbed
                        \/ failing' = Horizon
    <3> SUFFICES ASSUME ~row.blocked, failing' # Horizon
                 PROVE  failing' + (IF pc' = "attempt" THEN 0 ELSE row'.wait) >= Climbed
      OBVIOUS
    <3>1. failing + row.wait >= Climbed
      BY <1>1, <2>2 DEF LadderOK
    <3>2. failing' = failing + ScanInterval
      BY <2>1
    <3>3. row'.wait >= row.wait - ScanInterval
      BY <1>1, <1>3
    <3>4. pc' = "attempt" => row'.wait = 0
      BY ScanEffect
    <3> QED BY <1>2, <1>3, <3>1, <3>2, <3>3, <3>4
  <2>4. row.blocked /\ passing => failing' >= Ladder[MaxAttempts - 1] \/ failing' = Horizon
    <3> SUFFICES ASSUME row.blocked, passing, failing' # Horizon
                 PROVE  failing' >= Ladder[MaxAttempts - 1]
      OBVIOUS
    <3>1. failing >= Ladder[MaxAttempts - 1] /\ failing' = failing + ScanInterval
      BY <2>1, <2>2 DEF LadderOK
    <3> QED BY <1>2, <1>3, <3>1
  <2> QED BY <1>1, <1>2, <2>3, <2>4 DEF LadderOK, Horizon, LongestSilence, LongestWait
<1> QED BY <1>4, <1>5

(* A failure is one rung up, after the wait of the rung below.             *)
LEMMA LadderFails ==
  ASSUME TypeOK, TypeOK', FailureOK, LadderOK,
         NEW failure \in Failures, FailWith(failure)
  PROVE  LadderOK'
<1>1. /\ pc = "attempt" /\ pc' = "notify" /\ UNCHANGED failing /\ ~row.blocked
      /\ passing' = failure.passing
  BY DEF FailWith, FailureOK
<1>2. /\ row'.retry = AtMost(row.retry + 1, MaxAttempts)
      /\ row'.blocked /\ failure.passing => row'.retry = MaxAttempts
      /\ ~row'.blocked => row'.wait >= Rung(row'.retry)
  BY <1>1, FailEffect
<1>3. /\ row.retry \in Nat /\ MaxAttempts \in Nat \ {0} /\ row'.retry \in Nat
      /\ row.retry <= MaxAttempts /\ row'.wait \in Nat /\ failing \in Nat
      /\ row'.blocked \in BOOLEAN
  BY <1>1, Scalars, FailEffect DEF RowType
<1>4. failing >= Climbed \/ failing = Horizon
  BY <1>1, <1>3, ClimbedType DEF LadderOK
<1>5. Rung(row'.retry) \in Nat
  BY RungType
<1>6. Horizon' = Horizon
  BY DEF Horizon, LongestSilence, LongestWait
<1>7. CASE failing = Horizon
  BY <1>1, <1>6, <1>7 DEF LadderOK
<1>8. CASE failing >= Climbed /\ row.retry >= MaxAttempts - 1
  <2>1. Climbed = Ladder[MaxAttempts - 1]
    BY <1>8, ClimbedType
  <2>2. row'.retry = MaxAttempts
    BY <1>2, <1>3, <1>8 DEF AtMost
  <2>3. Climbed' = Ladder[MaxAttempts - 1]
    BY <1>3, <2>2 DEF Climbed, AtMost
  <2>4. Ladder[MaxAttempts - 1] \in Nat
    BY ClimbedType
  <2> QED BY <1>1, <1>3, <1>8, <2>1, <2>3, <2>4 DEF LadderOK
<1>9. CASE failing >= Climbed /\ row.retry < MaxAttempts - 1
  <2>1. row'.retry = row.retry + 1 /\ row'.retry < MaxAttempts /\ row'.retry \in Nat \ {0}
        /\ row'.retry - 1 = row.retry
    BY <1>2, <1>3, <1>9 DEF AtMost
  <2>2. ~(row'.blocked /\ failure.passing)
    BY <1>2, <1>3, <2>1
  <2>3. Climbed = Ladder[row.retry] /\ Climbed' = Ladder[row'.retry]
    BY <1>3, <1>9, <2>1, ClimbedType DEF Climbed, AtMost
  <2>4. Climbed' = Climbed + Rung(row'.retry) /\ Climbed \in Nat
    BY <2>1, <2>3, LadderClimbs, ClimbedType
  <2>5. ~row'.blocked => failing + row'.wait >= Climbed'
    BY <1>2, <1>3, <1>5, <1>9, <2>4
  <2> QED BY <1>1, <2>2, <2>5 DEF LadderOK
<1> QED BY <1>3, <1>4, <1>7, <1>8, <1>9

(* Every step keeps the time a domain has been failing above its rung.     *)
LEMMA LadderStep ==
  TypeOK /\ TypeOK' /\ FailureOK /\ LadderOK /\ [Next]_vars => LadderOK'
<1> SUFFICES ASSUME TypeOK, TypeOK', FailureOK, LadderOK, [Next]_vars PROVE LadderOK'
  OBVIOUS
<1>1. ASSUME row'.retry = 0, row'.wait = 0, ~row'.blocked, failing' = 0 PROVE LadderOK'
  <2>1. Climbed' = 0
    BY <1>1, LadderClimbs, PolicyAssumption DEF Climbed, AtMost
  <2> QED BY <1>1, <2>1 DEF LadderOK
<1>2. CASE Manual
  BY <1>1, <1>2, ClearEffect DEF Manual
<1>3. CASE Succeed
  BY <1>1, <1>3, ClearEffect DEF Succeed
<1>4. ASSUME row'.retry = row.retry, row'.wait = row.wait, row'.blocked = row.blocked,
             UNCHANGED <<failing, passing>>, pc # "attempt" \/ pc' = pc, pc' # "attempt" \/ pc' = pc
      PROVE  LadderOK'
  BY <1>4 DEF LadderOK, Climbed, Horizon, LongestSilence, LongestWait
<1>5. CASE Notify
  BY <1>4, <1>5 DEF Notify
<1>6. CASE Save
  BY <1>4, <1>6, SaveEffect DEF Save
<1>7. CASE UNCHANGED vars
  BY <1>4, <1>7 DEF vars
<1> QED BY <1>2, <1>3, <1>5, <1>6, <1>7, LadderScan, LadderFails DEF Next

-----------------------------------------------------------------------------
(***************************************************************************)
(* The results.                                                            *)
(***************************************************************************)
LEMMA LadderInvInit == Init => LadderInv
<1> SUFFICES ASSUME Init PROVE LadderInv
  OBVIOUS
<1>1. TypeOK
  BY LadderTypeInit
<1>2. Lost \in Nat /\ Unheard = 0 /\ Climbed = 0
  BY <1>1, LostCosts, ClimbedType DEF Init, Unheard, AtMost
<1>3. FailureOK /\ RemembersOK
  BY DEF Init, FailureOK, RemembersOK
<1>4. RemindedOK
  BY <1>2 DEF Init, RemindedOK
<1>5. LadderOK
  BY <1>2 DEF Init, LadderOK
<1> QED BY <1>1, <1>3, <1>4, <1>5 DEF LadderInv

(* LadderInv is preserved by every step.                                   *)
LEMMA LadderInvStep == LadderInv /\ [Next]_vars => LadderInv'
BY LadderTypeStep, FailureStep, RemembersStep, RemindedStep, LadderStep DEF LadderInv

(***************************************************************************)
(* LadderInv is inductive: scans, failures, messages, updates that are     *)
(* lost and an owner who starts over preserve it.                          *)
(***************************************************************************)
THEOREM LadderInvariance == Spec => []LadderInv
BY LadderInvInit, LadderInvStep, PTL DEF Spec

(* Durations, rows and clocks keep their types.                            *)
THEOREM LadderTypes == Spec => []TypeOK
<1>1. LadderInv => TypeOK
  BY DEF LadderInv
<1> QED BY <1>1, LadderInvariance, PTL

(***************************************************************************)
(* A domain that goes on failing is heard of: the owner never waits for    *)
(* longer than RepeatInterval, one wait and what was lost                  *)
(* (notifyDomainState, alert.ShouldNotify).                                *)
(***************************************************************************)
THEOREM OwnerIsReminded == Spec => []FailingIsReminded
<1>1. ASSUME LadderInv PROVE FailingIsReminded
  <2> SUFFICES ASSUME row.retry > 0, ~row.blocked, pc = "idle"
               PROVE  AtMost(silence, failing) <= (1 + budget.lost) * LongestSilence
    BY DEF FailingIsReminded
  <2>1. TypeOK /\ RemindedOK
    BY <1>1 DEF LadderInv
  <2>2. PICK n \in Nat \ {0} : Unheard + n * ScanInterval <= LongestSilence + Lost
    BY <2>1 DEF RemindedOK
  <2>3. n * ScanInterval \in Nat
    BY Durations
  <2>4. Unheard <= LongestSilence + Lost
    BY <2>1, <2>2, <2>3, LostCosts, Durations
  <2>5. LongestSilence + Lost = (1 + budget.lost) * LongestSilence
    BY <2>1, Scalars, Durations DEF Lost
  <2> QED BY <2>4, <2>5 DEF Unheard
<1> QED BY <1>1, LadderInvariance, PTL

(***************************************************************************)
(* An error that may pass does not block a domain before a full ladder of  *)
(* waits is over (renewerr.Classify, Backoff and recordFailure).           *)
(***************************************************************************)
THEOREM PatienceWithErrors == Spec => []GivesUpSlowly
<1>1. Ladder[MaxAttempts - 1] <= Horizon
  <2>1. MaxAttempts - 1 \in Nat /\ MaxDelay \in Nat
    BY PolicyAssumption
  <2>2. Ladder[MaxAttempts - 1] <= (MaxAttempts - 1) * MaxDelay
    BY <2>1, LadderBound
  <2>3. (MaxAttempts - 1) * MaxDelay <= RepeatInterval
    BY LadderAssumption
  <2>4. /\ Ladder[MaxAttempts - 1] \in Nat /\ (MaxAttempts - 1) * MaxDelay \in Nat
        /\ RepeatInterval \in Nat /\ Horizon \in Nat /\ RepeatInterval <= Horizon
    BY <2>1, LadderClimbs, Durations
  <2> QED BY <2>2, <2>3, <2>4
<1>2. LadderInv => GivesUpSlowly
  <2>1. Ladder[MaxAttempts - 1] \in Nat /\ Horizon \in Nat
    BY LadderClimbs, Durations, PolicyAssumption
  <2> QED BY <1>1, <2>1 DEF LadderInv, LadderOK, GivesUpSlowly
<1> QED BY <1>2, LadderInvariance, PTL

(***************************************************************************)
(* A message that is delivered is news, as long as no message is lost and  *)
(* none is forgotten: then the row remembers what the owner was told last, *)
(* and no later a time than he was told it.                                *)
(***************************************************************************)
LEMMA DeliveredIsNews ==
  ASSUME LadderInv, Delivered, budget.lost + budget.unsaved = 0
  PROVE  IF told' = "ok" THEN told \in {"failed", "blocked"}
         ELSE told' # told \/ silence >= RepeatInterval
<1>1. /\ TypeOK /\ RemembersOK /\ silence \in Nat /\ row.age \in Nat
      /\ RepeatInterval \in Nat /\ MaxMishaps \in Nat
      /\ told \in NotifiedStates
  BY Scalars, Durations DEF LadderInv
<1>2. pc = "notify" /\ ShouldNotify(row.notified, row.age, news)
  BY DEF Delivered, Notify
<1>3. told' = news
  <2>1. ~Spend("lost")
    <3>1. budget \in BudgetType
      BY <1>1, Scalars
    <3>2. [budget EXCEPT !["lost"] = @ + 1] # budget
      BY <3>1 DEF BudgetType
    <3> QED BY <3>2 DEF Delivered, Spend
  <2> QED BY <1>2, <2>1 DEF Delivered, Notify
<1>4. row.notified = told /\ row.age <= silence
  BY <1>1, <1>2 DEF RemembersOK
<1>5. CASE news = "ok"
  BY <1>1, <1>2, <1>3, <1>4, <1>5 DEF ShouldNotify, NotifiedStates, AlertStates
<1>6. CASE news # "ok"
  <2>1. told # news \/ row.age >= RepeatInterval
    BY <1>2, <1>4, <1>6 DEF ShouldNotify
  <2> QED BY <1>1, <1>3, <1>4, <1>6, <2>1
<1> QED BY <1>5, <1>6

(***************************************************************************)
(* Without lost messages and updates the owner is told only news: a state  *)
(* other than the one he was told last, or the same fault once more after  *)
(* RepeatInterval (alert.ShouldNotify), however often the domain fails in  *)
(* between.                                                                *)
(***************************************************************************)
THEOREM OwnerHearsOnlyNews == Spec => OnlyNewsIsTold
<1>1. LadderInv /\ [Next]_vars
      => [Delivered /\ budget.lost + budget.unsaved = 0
          => IF told' = "ok" THEN told \in {"failed", "blocked"}
             ELSE told' # told \/ silence >= RepeatInterval]_vars
  BY DeliveredIsNews
<1> QED BY <1>1, LadderInvariance, PTL DEF Spec, OnlyNewsIsTold

-----------------------------------------------------------------------------
(***************************************************************************)
(* Rate limits.  renewerr.go says of rateLimitedDelay that it has to be    *)
(* longer than one period of the scan, which the configuration sets:       *)
(* jitter included, that is this.                                          *)
(***************************************************************************)
LimitOutlastsScan == ScanInterval < RateLimitedDelay - (RateLimitedDelay \div 10)

(* A wait after a rate limit is longer than the time to the next scan, or  *)
(* has been.                                                               *)
LimitOK ==
    row.kind = "rate_limited" /\ ~row.blocked =>
        row.wait > ScanInterval \/ sinceTry >= ScanInterval

(* Every step keeps the wait after a rate limit longer than a scan.        *)
LEMMA LimitStep ==
  LimitOutlastsScan /\ LadderInv /\ LimitOK /\ [Next]_vars => LimitOK'
<1> SUFFICES ASSUME LimitOutlastsScan, LadderInv, LimitOK, [Next]_vars PROVE LimitOK'
  OBVIOUS
<1>1. TypeOK /\ FailureOK
  BY DEF LadderInv
<1>2. CASE Scan
  <2>1. sinceTry' = AtMost(sinceTry + ScanInterval, 2 * ScanInterval)
    BY <1>2 DEF Scan, Older
  <2>2. sinceTry' >= ScanInterval
    BY <1>1, <2>1, Scalars, Durations DEF AtMost
  <2> QED BY <2>2 DEF LimitOK
<1>3. CASE Manual
  BY <1>1, <1>3, ClearEffect DEF Manual, LimitOK
<1>4. CASE Succeed
  BY <1>1, <1>4, ClearEffect DEF Succeed, LimitOK
<1>5. CASE Notify
  BY <1>5 DEF Notify, LimitOK
<1>6. CASE Save
  BY <1>1, <1>6, SaveEffect DEF Save, LimitOK
<1>7. ASSUME NEW failure \in Failures, FailWith(failure) PROVE LimitOK'
  <2>1. ~row.blocked
    BY <1>1, <1>7 DEF FailureOK, FailWith
  <2>2. /\ row'.kind = failure.kind /\ row' \in RowType
        /\ ~row'.blocked /\ failure.kind = "rate_limited"
           => row'.wait >= RateLimitedDelay - (RateLimitedDelay \div 10)
    BY <1>1, <1>7, <2>1, FailEffect
  <2>3. /\ row'.wait \in Nat /\ RateLimitedDelay - (RateLimitedDelay \div 10) \in Int
        /\ ScanInterval \in Nat
    BY <2>2, Durations, PolicyAssumption DEF RowType
  <2> QED BY <2>2, <2>3 DEF LimitOK, LimitOutlastsScan
<1>8. CASE UNCHANGED vars
  BY <1>8 DEF vars, LimitOK
<1> QED BY <1>2, <1>3, <1>4, <1>5, <1>6, <1>7, <1>8 DEF Next

(***************************************************************************)
(* After a rate limit the daemon lets a scan pass before it tries again,   *)
(* for every scan interval shorter than the shortest such wait.            *)
(***************************************************************************)
THEOREM RateLimitIsRespected == LimitOutlastsScan /\ Spec => RateLimitOutlastsScan
<1>1. Init => LimitOK
  BY DEF Init, LimitOK
<1>2. ASSUME LadderInv, LimitOK, [Next]_vars
      PROVE  [Scan /\ pc' = "attempt" /\ row.kind = "rate_limited"
              => sinceTry' > ScanInterval]_vars
  <2> SUFFICES ASSUME Scan, pc' = "attempt", row.kind = "rate_limited"
               PROVE  sinceTry' > ScanInterval
    OBVIOUS
  <2>1. TypeOK
    BY <1>2 DEF LadderInv
  <2>2. ~row.blocked /\ row'.wait = 0
    BY <2>1, ScanEffect
  <2>3. ~(row.wait > ScanInterval)
    BY <2>1, <2>2, ScanEffect, Scalars, Durations
  <2>4. sinceTry >= ScanInterval
    BY <1>2, <2>2, <2>3 DEF LimitOK
  <2>5. sinceTry' = AtMost(sinceTry + ScanInterval, 2 * ScanInterval)
    BY DEF Scan, Older
  <2> QED BY <2>1, <2>4, <2>5, Scalars, Durations DEF AtMost
<1>3. LadderInv /\ LimitOK /\ [Next]_vars
      => [Scan /\ pc' = "attempt" /\ row.kind = "rate_limited"
          => sinceTry' > ScanInterval]_vars
  BY <1>2
<1> SUFFICES ASSUME LimitOutlastsScan PROVE Spec => RateLimitOutlastsScan
  OBVIOUS
<1>4. LadderInv /\ LimitOK /\ [Next]_vars => LimitOK'
  BY LimitStep
<1> QED BY <1>1, <1>3, <1>4, LadderInvariance, PTL DEF Spec, RateLimitOutlastsScan

=============================================================================
