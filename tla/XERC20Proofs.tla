---------------------------- MODULE XERC20Proofs ----------------------------
(***************************************************************************)
(* Proofs about XERC20 tokens.  First, of XERC20: the limits never exceed  *)
(* their maximum, no bridge draws more than the maximum allows in any span *)
(* of time, and what it drew refills in time.  Then, of GmpTransfers: the  *)
(* tokens on all domains are backed by those in lockboxes, for any         *)
(* domains, users, amounts, pairings and limits.                           *)
(***************************************************************************)
EXTENDS XERC20, GmpTransfers, RecursionTheorems

-----------------------------------------------------------------------------
(* Multiplication, which the provers need step by step. *)

LEMMA TimesNat == \A a, b \in Nat : a * b \in Nat
  OBVIOUS

LEMMA TimesMonotonic ==
    ASSUME NEW a \in Nat, NEW b \in Nat, NEW c \in Nat, a <= b
    PROVE  /\ a * c <= b * c
           /\ c * a <= c * b
  OBVIOUS

LEMMA TimesPlus ==
    ASSUME NEW a \in Int, NEW b \in Int, NEW c \in Int
    PROVE  (a + b) * c = a * c + b * c
  OBVIOUS

LEMMA TimesMinus ==
    ASSUME NEW a \in Int, NEW b \in Int, NEW c \in Int
    PROVE  /\ (a - b) * c = a * c - b * c
           /\ c * (a - b) = c * a - c * b
  OBVIOUS

LEMMA TimesMiddle ==
    ASSUME NEW a \in Nat, NEW b \in Nat, NEW c \in Nat
    PROVE  (a * b) * c = a * (b * c) /\ (a * b) * c = (b * c) * a
  OBVIOUS

\* ratePerSecond never refills more than the maximum in a Duration.
LEMMA RateBounded ==
    ASSUME NEW m \in Nat
    PROVE  m \div Duration \in Nat /\ (m \div Duration) * Duration <= m
  BY DurationAssumption

-----------------------------------------------------------------------------
(* One limit at one time *)

LEMMA CurrentBounded ==
    ASSUME NEW l \in Limit, NEW t \in Nat, LimitOK(l, t)
    PROVE  /\ CurrentLimit(l, t) \in Nat
           /\ CurrentLimit(l, t) <= l.maxLimit
           /\ CurrentLimit(l, t) * Duration <= Level(l, t)
           /\ Level(l, t) \in Nat
           /\ Level(l, t) <= l.maxLimit * Duration
<1> DEFINE m == l.maxLimit
           c == l.currentLimit
           r == l.ratePerSecond
           e == t - l.timestamp
           D == Duration
<1>1. /\ m \in Nat /\ c \in Nat /\ r \in Nat /\ e \in Nat /\ D \in Nat
      /\ l.timestamp \in Nat
      /\ c <= m /\ r * D <= m
  BY DurationAssumption DEF Limit, LimitOK
<1>2. /\ m * D \in Nat /\ c * D \in Nat /\ m * e \in Nat /\ e * r \in Nat
      /\ r * D \in Nat /\ (e * r) * D \in Nat
  BY <1>1, TimesNat
<1>3. c * D <= m * D
  BY <1>1, TimesMonotonic
<1>4. (e * r) * D <= m * e
  <2>1. (e * r) * D = (r * D) * e
    BY <1>1, TimesMiddle
  <2>2. (r * D) * e <= m * e
    BY <1>1, <1>2, TimesMonotonic
  <2> QED BY <2>1, <2>2
<1>5. (c + e * r) * D = c * D + (e * r) * D
  BY <1>1, <1>2, TimesPlus
<1>6. l.timestamp + D <= t => m * D <= m * e
  <2>1. l.timestamp + D <= t => D <= e
    BY <1>1
  <2> QED BY <2>1, <1>1, TimesMonotonic
<1>7. c + e * r > m => m * D <= (c + e * r) * D
  BY <1>1, <1>2, TimesMonotonic
<1>8. c + e * r <= m => (c + e * r) * D <= m * D
  <2>1. c + e * r \in Nat
    BY <1>1, <1>2
  <2> HIDE DEF c, e, r, m, D
  <2> QED BY <2>1, <1>1, TimesMonotonic
<1>9. CurrentLimit(l, t) = IF c = m \/ l.timestamp + D <= t \/ c + e * r > m
                          THEN m ELSE c + e * r
  BY DEF CurrentLimit
<1>10. Level(l, t) = IF c * D + m * e > m * D THEN m * D ELSE c * D + m * e
  BY DEF Level
<1> HIDE DEF m, c, r, e, D
<1>11. /\ CurrentLimit(l, t) \in Nat
       /\ CurrentLimit(l, t) <= m
       /\ CurrentLimit(l, t) * D <= Level(l, t)
       /\ Level(l, t) \in Nat
       /\ Level(l, t) <= m * D
  <2>1. CASE c = m \/ l.timestamp + D <= t \/ c + e * r > m
    <3>1. CurrentLimit(l, t) = m
      BY <1>9, <2>1
    <3>2. m * D <= c * D + m * e
      BY <2>1, <1>1, <1>2, <1>4, <1>5, <1>6, <1>7
    <3> QED BY <3>1, <3>2, <1>1, <1>2, <1>10
  <2>2. CASE ~(c = m \/ l.timestamp + D <= t \/ c + e * r > m)
    <3>1. CurrentLimit(l, t) = c + e * r /\ c + e * r \in Nat /\ c + e * r <= m
      BY <1>1, <1>2, <1>9, <2>2
    <3> QED BY <3>1, <1>1, <1>2, <1>4, <1>5, <1>8, <1>10
  <2> QED BY <2>1, <2>2
<1> QED BY <1>11 DEF m, D

\* A use takes from the level what it draws.
LEMMA UseKeeps ==
    ASSUME NEW l \in Limit, NEW t \in Nat, LimitOK(l, t),
           NEW n \in Nat, n <= CurrentLimit(l, t)
    PROVE  /\ AfterUse(l, t, n) \in Limit
           /\ LimitOK(AfterUse(l, t, n), t)
           /\ Level(AfterUse(l, t, n), t) + n * Duration <= Level(l, t)
<1> DEFINE a == AfterUse(l, t, n)
<1>1. /\ CurrentLimit(l, t) \in Nat
      /\ CurrentLimit(l, t) <= l.maxLimit
      /\ CurrentLimit(l, t) * Duration <= Level(l, t)
      /\ Level(l, t) \in Nat
  BY CurrentBounded
<1>2. /\ l.maxLimit \in Nat /\ l.ratePerSecond \in Nat
      /\ l.ratePerSecond * Duration <= l.maxLimit
  BY DEF Limit, LimitOK
<1>3. /\ a.maxLimit = l.maxLimit
      /\ a.currentLimit = CurrentLimit(l, t) - n
      /\ a.timestamp = t
      /\ a.ratePerSecond = l.ratePerSecond
  BY DEF AfterUse, Limit
<1>4. a \in Limit /\ LimitOK(a, t)
  <2>1. CurrentLimit(l, t) - n \in Nat /\ CurrentLimit(l, t) - n <= l.maxLimit
    BY <1>1, <1>2
  <2>2. a \in Limit
    BY <2>1 DEF AfterUse, Limit
  <2> HIDE DEF a
  <2> QED BY <1>2, <1>3, <2>1, <2>2 DEF LimitOK
<1>5. Level(a, t) <= (CurrentLimit(l, t) - n) * Duration
  <2>1. /\ a.maxLimit * (t - a.timestamp) = 0
        /\ a.currentLimit = CurrentLimit(l, t) - n
    BY <1>2, <1>3
  <2>2. a.currentLimit * Duration \in Nat /\ a.maxLimit * Duration \in Nat
    BY <1>4, TimesNat, DurationAssumption DEF Limit
  <2> HIDE DEF a
  <2> QED BY <2>1, <2>2 DEF Level
<1>6. (CurrentLimit(l, t) - n) * Duration = CurrentLimit(l, t) * Duration - n * Duration
  BY <1>1, TimesMinus, DurationAssumption
<1>7. Level(a, t) \in Nat
  BY <1>4, CurrentBounded
<1>8. n * Duration \in Nat /\ CurrentLimit(l, t) * Duration \in Nat
  BY <1>1, TimesNat, DurationAssumption
<1> HIDE DEF a
<1>9. Level(a, t) + n * Duration <= Level(l, t)
  BY <1>1, <1>5, <1>6, <1>7, <1>8
<1> QED BY <1>4, <1>9 DEF a

\* A change moves the level by no more than the raise.
LEMMA ChangeKeeps ==
    ASSUME NEW l \in Limit, NEW t \in Nat, LimitOK(l, t), NEW m \in Nat
    PROVE  /\ AfterChange(l, t, m) \in Limit
           /\ LimitOK(AfterChange(l, t, m), t)
           /\ AfterChange(l, t, m).maxLimit = m
           /\ Level(AfterChange(l, t, m), t) <=
                  IF m - l.maxLimit > 0 THEN Level(l, t) + (m - l.maxLimit) * Duration
                  ELSE Level(l, t)
<1> DEFINE a == AfterChange(l, t, m)
           cur == CurrentLimit(l, t)
           new == NewCurrentLimit(m, l.maxLimit, cur)
<1>1. /\ cur \in Nat
      /\ cur <= l.maxLimit
      /\ cur * Duration <= Level(l, t)
      /\ Level(l, t) \in Nat
      /\ l.maxLimit \in Nat
  BY CurrentBounded DEF Limit
<1>2. a = [maxLimit |-> m, currentLimit |-> new, timestamp |-> t,
           ratePerSecond |-> m \div Duration]
  BY DEF AfterChange
<1>3. /\ new \in Nat
      /\ new <= m
      /\ m - l.maxLimit > 0 => new = cur + (m - l.maxLimit)
      /\ ~(m - l.maxLimit > 0) => new <= cur
  <2> HIDE DEF cur
  <2> QED BY <1>1 DEF NewCurrentLimit
<1>4. a \in Limit /\ LimitOK(a, t)
  <2> HIDE DEF new
  <2> QED BY <1>2, <1>3, RateBounded DEF Limit, LimitOK
<1>5. Level(a, t) <= new * Duration
  <2>1. a.maxLimit * (t - a.timestamp) = 0 /\ a.currentLimit = new
    BY <1>2
  <2>2. a.currentLimit * Duration \in Nat /\ a.maxLimit * Duration \in Nat
    BY <1>4, TimesNat, DurationAssumption DEF Limit
  <2> HIDE DEF a, new
  <2> QED BY <2>1, <2>2 DEF Level
<1>6. Level(a, t) \in Nat
  BY <1>4, CurrentBounded
<1> HIDE DEF a, cur, new
<1>7. CASE m - l.maxLimit > 0
  <2>1. new * Duration = cur * Duration + (m - l.maxLimit) * Duration
    BY <1>1, <1>3, <1>7, TimesPlus, DurationAssumption
  <2>2. cur * Duration \in Nat /\ (m - l.maxLimit) * Duration \in Nat
    <3>1. m - l.maxLimit \in Nat
      BY <1>1, <1>7
    <3> QED BY <3>1, <1>1, TimesNat, DurationAssumption
  <2>3. Level(a, t) <= Level(l, t) + (m - l.maxLimit) * Duration
    BY <1>1, <1>3, <1>5, <1>6, <2>1, <2>2, TimesNat, DurationAssumption
  <2> QED BY <1>2, <1>4, <1>7, <2>3 DEF a
<1>8. CASE ~(m - l.maxLimit > 0)
  <2>1. new * Duration <= cur * Duration
    BY <1>1, <1>3, <1>8, TimesMonotonic, DurationAssumption
  <2>2. new * Duration \in Nat /\ cur * Duration \in Nat
    BY <1>1, <1>3, TimesNat, DurationAssumption
  <2>3. Level(a, t) <= Level(l, t)
    BY <1>1, <1>5, <1>6, <2>1, <2>2
  <2> QED BY <1>2, <1>4, <1>8, <2>3 DEF a
<1> QED BY <1>7, <1>8

\* A second adds one maximum to Duration times the limit.
LEMMA SecondKeeps ==
    ASSUME NEW l \in Limit, NEW t \in Nat, LimitOK(l, t)
    PROVE  /\ LimitOK(l, t + 1)
           /\ Level(l, t + 1) <= Level(l, t) + l.maxLimit
<1> DEFINE m == l.maxLimit
           e == t - l.timestamp
<1>1. /\ m \in Nat /\ e \in Nat /\ l.timestamp \in Nat /\ l.currentLimit \in Nat
      /\ Duration \in Nat
  BY DurationAssumption DEF Limit, LimitOK
<1>2. (t + 1) - l.timestamp = e + 1
  BY <1>1
<1>3. m * (e + 1) = m * e + m
  BY <1>1
<1>4. LimitOK(l, t + 1)
  BY <1>1 DEF LimitOK
<1>5. /\ m * Duration \in Nat /\ l.currentLimit * Duration \in Nat
      /\ m * e \in Nat
  BY <1>1, TimesNat
<1>6. /\ Level(l, t) = IF l.currentLimit * Duration + m * e > m * Duration
                       THEN m * Duration ELSE l.currentLimit * Duration + m * e
      /\ Level(l, t + 1) = IF l.currentLimit * Duration + m * (e + 1) > m * Duration
                           THEN m * Duration ELSE l.currentLimit * Duration + m * (e + 1)
  BY <1>2 DEF Level
<1> HIDE DEF m, e
<1>7. Level(l, t + 1) <= Level(l, t) + m
  BY <1>1, <1>3, <1>5, <1>6
<1> QED BY <1>4, <1>7 DEF m

-----------------------------------------------------------------------------
(* The specification *)

LimitsInv == XTypeOK /\ LimitsKept

\* What is known of the watched limit.
LEMMA WatchedFacts ==
    ASSUME LimitsInv
    PROVE  /\ Watched[1] \in Sides /\ Watched[2] \in Bridges
           /\ <<Watched[1], Watched[2]>> = Watched
           /\ WatchedLimit \in Limit
           /\ LimitOK(WatchedLimit, blockTime)
           /\ WatchedLimit.maxLimit \in Nat
           /\ Level(WatchedLimit, blockTime) \in Nat
           /\ blockTime \in Nat
           /\ watch.drawn \in Nat /\ watch.drawn * Duration \in Nat
           /\ watch.allowed \in Nat /\ watch.since \in Nat
<1>1. /\ Watched[1] \in Sides /\ Watched[2] \in Bridges
      /\ <<Watched[1], Watched[2]>> = Watched
  BY LimitAssumption
<1>2. /\ WatchedLimit \in Limit
      /\ LimitOK(WatchedLimit, blockTime)
      /\ blockTime \in Nat
  BY <1>1, LimitAssumption DEF LimitsInv, XTypeOK, LimitsKept, WatchedLimit
<1>3. WatchedLimit.maxLimit \in Nat /\ Level(WatchedLimit, blockTime) \in Nat
  BY <1>2, CurrentBounded DEF Limit
<1>4. watch.drawn \in Nat /\ watch.allowed \in Nat /\ watch.since \in Nat
  BY DEF LimitsInv, XTypeOK
<1>5. watch.drawn * Duration \in Nat
  BY <1>4, TimesNat, DurationAssumption
<1> QED BY <1>1, <1>2, <1>3, <1>4, <1>5

LEMMA InitLimits == XInit => LimitsInv
<1> SUFFICES ASSUME XInit PROVE LimitsInv
  OBVIOUS
<1>1. Unset \in Limit /\ LimitOK(Unset, 0) /\ Unset.maxLimit = 0
  BY DurationAssumption DEF Unset, Limit, LimitOK
<1>2. XTypeOK
  BY <1>1, LimitAssumption DEF XInit, XTypeOK
<1>3. \A s \in Sides, b \in Bridges : LimitOK(bridges[s][b], blockTime)
  BY <1>1 DEF XInit
<1>4. WatchedLimit = Unset
  BY LimitAssumption DEF XInit, WatchedLimit
<1>5. Level(Unset, 0) <= 0
  BY <1>1, CurrentBounded, DurationAssumption
<1>6. Level(Unset, 0) \in Nat
  BY <1>1, CurrentBounded
<1>7. watch.drawn * Duration + Level(WatchedLimit, blockTime) <= watch.allowed
  BY <1>4, <1>5, <1>6, DurationAssumption DEF XInit
<1> QED BY <1>2, <1>3, <1>7 DEF LimitsInv, LimitsKept

LEMMA UseLimits ==
    ASSUME LimitsInv, NEW s \in Sides, NEW b \in Bridges, NEW n \in Draws,
           Use(s, b, n)
    PROVE  LimitsInv'
<1> DEFINE l == bridges[s][b]
           a == AfterUse(l, blockTime, n)
<1>1. n \in Nat /\ n <= CurrentLimit(l, blockTime) /\ l \in Limit /\ blockTime \in Nat
      /\ LimitOK(l, blockTime)
  BY LimitAssumption DEF Use, LimitsInv, XTypeOK, LimitsKept
<1>2. /\ a \in Limit
      /\ LimitOK(a, blockTime)
      /\ Level(a, blockTime) + n * Duration <= Level(l, blockTime)
  BY <1>1, UseKeeps
<1>3. bridges' = [bridges EXCEPT ![s][b] = a] /\ blockTime' = blockTime /\ lockbox' = lockbox
  BY DEF Use
<1>w. watch' = IF <<s, b>> = Watched
               THEN [watch EXCEPT !.drawn = @ + n,
                                  !.since = IF n > 0 THEN blockTime ELSE @]
               ELSE watch
  BY DEF Use
<1> HIDE DEF a
<1>4. /\ bridges' \in [Sides -> [Bridges -> Limit]]
      /\ bridges'[s][b] = a
      /\ \A x \in Sides, y \in Bridges : x # s \/ y # b => bridges'[x][y] = bridges[x][y]
  BY <1>2, <1>3 DEF LimitsInv, XTypeOK
<1>5. \A x \in Sides, y \in Bridges : LimitOK(bridges'[x][y], blockTime')
  BY <1>2, <1>3, <1>4 DEF LimitsInv, LimitsKept
<1>6. CASE <<s, b>> = Watched
  <2>1. s = Watched[1] /\ b = Watched[2]
    BY <1>6
  <2>2. WatchedLimit = l /\ WatchedLimit' = a
    BY <1>4, <2>1 DEF WatchedLimit
  <2>3. watch' = [watch EXCEPT !.drawn = @ + n,
                               !.since = IF n > 0 THEN blockTime ELSE @]
    BY <1>6, <1>w
  <2> HIDE DEF l
  <2>4. watch.drawn * Duration + Level(l, blockTime) <= watch.allowed
    BY <2>2 DEF LimitsInv, LimitsKept
  <2>5. /\ watch'.drawn = watch.drawn + n
        /\ watch'.allowed = watch.allowed
        /\ watch' \in [drawn : Nat, allowed : Nat, since : Nat]
    <3> DEFINE d == watch.drawn + n
               t == IF n > 0 THEN blockTime ELSE watch.since
    <3>1. d \in Nat /\ t \in Nat
      BY <1>1, WatchedFacts
    <3>2. watch' = [watch EXCEPT !.drawn = d, !.since = t]
      BY <2>3
    <3> HIDE DEF d, t
    <3>3. /\ watch'.drawn = d
          /\ watch'.allowed = watch.allowed
          /\ watch' \in [drawn : Nat, allowed : Nat, since : Nat]
      BY <3>1, <3>2 DEF LimitsInv, XTypeOK
    <3> QED BY <3>3 DEF d
  <2>6. watch'.drawn * Duration = watch.drawn * Duration + n * Duration
    BY <1>1, <2>5, WatchedFacts, TimesPlus, DurationAssumption
  <2>7. n * Duration \in Nat /\ Level(a, blockTime) \in Nat /\ Level(l, blockTime) \in Nat
    BY <1>1, <1>2, TimesNat, CurrentBounded, DurationAssumption
  <2>8. watch'.drawn * Duration + Level(a, blockTime) <= watch'.allowed
    BY <1>2, <2>4, <2>5, <2>6, <2>7, WatchedFacts
  <2> QED BY <1>3, <1>4, <1>5, <2>2, <2>5, <2>8 DEF LimitsInv, XTypeOK, LimitsKept
<1>7. CASE <<s, b>> # Watched
  <2>1. WatchedLimit' = WatchedLimit /\ watch' = watch
    BY <1>4, <1>7, <1>w, WatchedFacts DEF WatchedLimit
  <2> QED BY <1>3, <1>4, <1>5, <2>1 DEF LimitsInv, XTypeOK, LimitsKept
<1> QED BY <1>6, <1>7

LEMMA SetLimitsLimits ==
    ASSUME LimitsInv, NEW b \in Bridges, NEW m \in Maxima, NEW k \in Maxima,
           SetBridgeLimits(b, m, k)
    PROVE  LimitsInv'
<1> DEFINE newMax == [s \in Sides |-> IF s = "mint" THEN m ELSE k]
           raise == newMax[Watched[1]] - WatchedLimit.maxLimit
           a(s) == AfterChange(bridges[s][b], blockTime, newMax[s])
<1>1. \A s \in Sides : /\ newMax[s] \in Nat
                        /\ bridges[s][b] \in Limit
                        /\ LimitOK(bridges[s][b], blockTime)
  BY LimitAssumption DEF LimitsInv, XTypeOK, LimitsKept
<1>2. blockTime \in Nat
  BY WatchedFacts
<1>3. \A s \in Sides :
          /\ a(s) \in Limit
          /\ LimitOK(a(s), blockTime)
          /\ Level(a(s), blockTime) <=
                 IF newMax[s] - bridges[s][b].maxLimit > 0
                 THEN Level(bridges[s][b], blockTime)
                          + (newMax[s] - bridges[s][b].maxLimit) * Duration
                 ELSE Level(bridges[s][b], blockTime)
  BY <1>1, <1>2, ChangeKeeps
<1>4. /\ bridges' = [s \in Sides |-> [bridges[s] EXCEPT ![b] = a(s)]]
      /\ watch' = IF b # Watched[2] THEN watch
                  ELSE [watch EXCEPT
                           !.allowed = IF raise > 0 THEN @ + raise * Duration ELSE @,
                           !.since = blockTime]
      /\ blockTime' = blockTime /\ lockbox' = lockbox
  BY DEF SetBridgeLimits
<1>5. /\ bridges' \in [Sides -> [Bridges -> Limit]]
      /\ \A s \in Sides : bridges'[s][b] = a(s)
      /\ \A s \in Sides, y \in Bridges : y # b => bridges'[s][y] = bridges[s][y]
  <2> HIDE DEF a
  <2> QED BY <1>3, <1>4 DEF LimitsInv, XTypeOK
<1>6. \A x \in Sides, y \in Bridges : LimitOK(bridges'[x][y], blockTime')
  <2> HIDE DEF a
  <2> QED BY <1>3, <1>4, <1>5 DEF LimitsInv, LimitsKept
<1>7. CASE b = Watched[2]
  <2> DEFINE w == a(Watched[1])
  <2>1. WatchedLimit = bridges[Watched[1]][b] /\ WatchedLimit' = w
    BY <1>5, <1>7, WatchedFacts DEF WatchedLimit
  <2>2. /\ w \in Limit
        /\ LimitOK(w, blockTime)
        /\ Level(w, blockTime) <= IF raise > 0
                             THEN Level(WatchedLimit, blockTime) + raise * Duration
                             ELSE Level(WatchedLimit, blockTime)
    BY <1>3, <2>1, WatchedFacts
  <2>3. raise \in Int
    BY <1>1, WatchedFacts
  <2>4. raise > 0 => raise * Duration \in Nat
    BY <2>3, TimesNat, DurationAssumption
  <2>5. watch' = [watch EXCEPT
                     !.allowed = IF raise > 0 THEN @ + raise * Duration ELSE @,
                     !.since = blockTime]
    BY <1>4, <1>7
  <2> HIDE DEF raise, w, a, newMax
  <2>6. /\ watch'.drawn = watch.drawn
        /\ watch'.allowed = IF raise > 0 THEN watch.allowed + raise * Duration
                            ELSE watch.allowed
        /\ watch' \in [drawn : Nat, allowed : Nat, since : Nat]
    <3> DEFINE x == IF raise > 0 THEN watch.allowed + raise * Duration
                    ELSE watch.allowed
    <3>1. x \in Nat
      BY <2>4, WatchedFacts
    <3>2. watch' = [watch EXCEPT !.allowed = x, !.since = blockTime]
      BY <2>5
    <3> HIDE DEF x
    <3>3. /\ watch'.drawn = watch.drawn
          /\ watch'.allowed = x
          /\ watch' \in [drawn : Nat, allowed : Nat, since : Nat]
      BY <1>2, <3>1, <3>2 DEF LimitsInv, XTypeOK
    <3> QED BY <3>3 DEF x
  <2>7. Level(w, blockTime) \in Nat
    BY <1>2, <2>2, CurrentBounded
  <2>8. watch.drawn * Duration + Level(WatchedLimit, blockTime) <= watch.allowed
    BY DEF LimitsInv, LimitsKept
  <2>9. watch'.drawn * Duration + Level(w, blockTime) <= watch'.allowed
    BY <2>2, <2>4, <2>6, <2>7, <2>8, WatchedFacts
  <2> QED BY <1>4, <1>5, <1>6, <2>1, <2>6, <2>9 DEF LimitsInv, XTypeOK, LimitsKept
<1>8. CASE b # Watched[2]
  <2>1. WatchedLimit' = WatchedLimit /\ watch' = watch
    BY <1>4, <1>5, <1>8, WatchedFacts DEF WatchedLimit
  <2> QED BY <1>4, <1>5, <1>6, <2>1 DEF LimitsInv, XTypeOK, LimitsKept
<1> QED BY <1>7, <1>8

LEMMA TickLimits == LimitsInv /\ SecondPasses => LimitsInv'
<1> SUFFICES ASSUME LimitsInv, SecondPasses PROVE LimitsInv'
  OBVIOUS
<1>1. /\ blockTime \in Nat /\ blockTime' = blockTime + 1 /\ blockTime' \in 0 .. LastSecond
      /\ bridges' = bridges /\ lockbox' = lockbox
      /\ watch' = [watch EXCEPT !.allowed = @ + WatchedLimit.maxLimit]
  BY LimitAssumption DEF SecondPasses, LimitsInv, XTypeOK
<1>2. /\ watch'.drawn = watch.drawn
      /\ watch'.allowed = watch.allowed + WatchedLimit.maxLimit
      /\ watch' \in [drawn : Nat, allowed : Nat, since : Nat]
  BY <1>1, WatchedFacts DEF LimitsInv, XTypeOK
<1>3. \A s \in Sides, b \in Bridges : LimitOK(bridges'[s][b], blockTime')
  BY <1>1, SecondKeeps DEF LimitsInv, XTypeOK, LimitsKept
<1>4. /\ Level(WatchedLimit, blockTime + 1) <= Level(WatchedLimit, blockTime) + WatchedLimit.maxLimit
      /\ Level(WatchedLimit, blockTime + 1) \in Nat
  BY <1>1, WatchedFacts, SecondKeeps, CurrentBounded
<1>5. WatchedLimit' = WatchedLimit
  BY <1>1 DEF WatchedLimit
<1>6. watch.drawn * Duration + Level(WatchedLimit, blockTime) <= watch.allowed
  BY DEF LimitsInv, LimitsKept
<1>7. watch'.drawn * Duration + Level(WatchedLimit, blockTime + 1) <= watch'.allowed
  BY <1>2, <1>4, <1>6, WatchedFacts
<1> QED BY <1>1, <1>2, <1>3, <1>5, <1>7 DEF LimitsInv, XTypeOK, LimitsKept

LEMMA WatchLimits == LimitsInv /\ Watch => LimitsInv'
<1> SUFFICES ASSUME LimitsInv, Watch PROVE LimitsInv'
  OBVIOUS
<1>1. /\ bridges' = bridges /\ lockbox' = lockbox /\ blockTime' = blockTime
      /\ watch' = [watch EXCEPT !.drawn = 0, !.allowed = WatchedLimit.maxLimit * Duration]
  BY DEF Watch
<1>2. WatchedLimit.maxLimit * Duration \in Nat
  BY WatchedFacts, TimesNat, DurationAssumption
<1>3. /\ watch'.drawn = 0
      /\ watch'.allowed = WatchedLimit.maxLimit * Duration
      /\ watch' \in [drawn : Nat, allowed : Nat, since : Nat]
  BY <1>1, <1>2 DEF LimitsInv, XTypeOK
<1>4. Level(WatchedLimit, blockTime) <= WatchedLimit.maxLimit * Duration
  BY WatchedFacts, CurrentBounded
<1>5. WatchedLimit' = WatchedLimit
  BY <1>1 DEF WatchedLimit
<1>6. watch'.drawn * Duration + Level(WatchedLimit, blockTime) <= watch'.allowed
  BY <1>2, <1>3, <1>4, WatchedFacts, DurationAssumption
<1> QED BY <1>1, <1>3, <1>5, <1>6 DEF LimitsInv, XTypeOK, LimitsKept

LEMMA LimitsInductive == XSpec => []LimitsInv
<1>1. LimitsInv /\ [XNext]_xvars => LimitsInv'
  <2> SUFFICES ASSUME LimitsInv, [XNext]_xvars PROVE LimitsInv'
    OBVIOUS
  <2>1. CASE \E b \in Bridges, n \in Draws : Mint(b, n) \/ Burn(b, n)
    BY <2>1, UseLimits DEF Mint, Burn, Sides
  <2>2. CASE \E b \in Bridges, m, n \in Maxima : SetBridgeLimits(b, m, n)
    BY <2>2, SetLimitsLimits
  <2>3. CASE \E b \in Bridges : DeployLockbox(b)
    BY <2>3 DEF DeployLockbox, LimitsInv, XTypeOK, LimitsKept, WatchedLimit
  <2>4. CASE SecondPasses
    BY <2>4, TickLimits
  <2>5. CASE Watch
    BY <2>5, WatchLimits
  <2>6. CASE UNCHANGED xvars
    BY <2>6 DEF xvars, LimitsInv, XTypeOK, LimitsKept, WatchedLimit
  <2> QED BY <2>1, <2>2, <2>3, <2>4, <2>5, <2>6 DEF XNext
<1> QED BY <1>1, InitLimits, PTL DEF XSpec

\* Clock, limits, lockbox and observer keep their types: no current limit is ever
\* negative, so no checked subtraction of XERC20 fails where the code relies on it.
THEOREM LimitTypes == XSpec => []XTypeOK
  BY LimitsInductive, PTL DEF LimitsInv

\* No limit exceeds its maximum or refills faster than it in a day, and what was
\* drawn on the watched limit leaves room for what may still be drawn at once.
THEOREM LimitsAreKept == XSpec => []LimitsKept
  BY LimitsInductive, PTL DEF LimitsInv

\* However a bridge spreads its uses, and however the owner changes the limits, in
\* any span of time it mints (or burns) no more than the maximum, what refills in
\* that time, and what the owner raised.
THEOREM UsageIsBounded == XSpec => []UsageBounded
<1>1. LimitsInv => UsageBounded
  <2> SUFFICES ASSUME LimitsInv PROVE UsageBounded
    OBVIOUS
  <2>1. watch.drawn * Duration + Level(WatchedLimit, blockTime) <= watch.allowed
    BY DEF LimitsInv, LimitsKept
  <2> QED BY <2>1, WatchedFacts DEF UsageBounded
<1> QED BY <1>1, LimitsInductive, PTL

-----------------------------------------------------------------------------
(* The limit is full again in time *)

\* A limit is full, or has refilled at its rate since it was last drawn on or
\* changed; the rate falls short of the maximum by what rounding takes away.
Refills(l, t, since) ==
    /\ l.maxLimit - l.ratePerSecond * Duration < Duration
    /\ since <= t
    /\ \/ CurrentLimit(l, t) = l.maxLimit
       \/ l.ratePerSecond * (t - since) <= CurrentLimit(l, t)

\* What remains of the division that gives the rate is less than a Duration.
LEMMA RateRoundsLittle ==
    ASSUME NEW m \in Nat
    PROVE  m - (m \div Duration) * Duration < Duration
  BY DurationAssumption

\* A use leaves the limit less by what is used, whatever is left refills from now on.
LEMMA UseRefills ==
    ASSUME NEW l \in Limit, NEW t \in Nat, LimitOK(l, t),
           NEW since \in Nat, Refills(l, t, since), NEW n \in Nat, n <= CurrentLimit(l, t)
    PROVE  Refills(AfterUse(l, t, n), t, IF n > 0 THEN t ELSE since)
<1> DEFINE c == CurrentLimit(l, t)
           a == AfterUse(l, t, n)
<1>1. /\ l.maxLimit \in Nat /\ l.ratePerSecond \in Nat /\ c \in Nat /\ c <= l.maxLimit
      /\ n <= c
  BY CurrentBounded DEF Limit
<1> HIDE DEF c
<1>2. /\ a.maxLimit = l.maxLimit /\ a.ratePerSecond = l.ratePerSecond
      /\ a.currentLimit = c - n /\ a.timestamp = t
  BY DEF AfterUse, Limit, c
<1> HIDE DEF a
<1>3. CurrentLimit(a, t) = c - n
  <2>1. (t - t) * l.ratePerSecond = 0
    BY <1>1
  <2> QED
    BY <1>1, <1>2, <2>1, DurationAssumption DEF CurrentLimit
<1>4. CASE n > 0
  <2>1. a.ratePerSecond * (t - t) = 0
    BY <1>1, <1>2
  <2> QED
    BY <1>1, <1>2, <1>3, <1>4, <2>1 DEF Refills, a
<1>5. CASE ~ (n > 0)
  <2>1. n = 0 /\ CurrentLimit(a, t) = c
    BY <1>1, <1>3, <1>5
  <2> QED
    BY <1>2, <1>5, <2>1 DEF Refills, a, c
<1> QED
  BY <1>4, <1>5

\* So does a change of the maximum, with the new rate.
LEMMA ChangeRefills ==
    ASSUME NEW l \in Limit, NEW t \in Nat, LimitOK(l, t), NEW m \in Nat
    PROVE  Refills(AfterChange(l, t, m), t, t)
<1> DEFINE a == AfterChange(l, t, m)
<1>1. a \in Limit /\ LimitOK(a, t) /\ a.maxLimit = m
  BY ChangeKeeps
<1>2. a.ratePerSecond = m \div Duration /\ m \div Duration \in Nat
  BY RateBounded DEF AfterChange
<1> HIDE DEF a
<1>3. CurrentLimit(a, t) \in Nat
  BY <1>1, CurrentBounded
<1>4. a.maxLimit - a.ratePerSecond * Duration < Duration
  BY <1>1, <1>2, RateRoundsLittle
<1>5. a.ratePerSecond * (t - t) = 0
  BY <1>2
<1> QED
  BY <1>3, <1>4, <1>5 DEF Refills, a

\* A second refills by the rate what is not full.
LEMMA SecondRefills ==
    ASSUME NEW l \in Limit, NEW t \in Nat, LimitOK(l, t),
           NEW since \in Nat, Refills(l, t, since)
    PROVE  Refills(l, t + 1, since)
<1> DEFINE m == l.maxLimit
           r == l.ratePerSecond
           e == t - l.timestamp
           c == l.currentLimit
           gone == t - since
<1>1. /\ m \in Nat /\ r \in Nat /\ e \in Nat /\ c \in Nat /\ l.timestamp \in Nat
      /\ gone \in Nat
  BY DEF Limit, LimitOK, Refills
<1>2. /\ (t + 1) - l.timestamp = e + 1 /\ (t + 1) - since = gone + 1
      /\ (l.timestamp + Duration <= t) => (l.timestamp + Duration <= t + 1)
  BY <1>1, DurationAssumption
<1> DEFINE x == e * r
           y == r * gone
           old == CurrentLimit(l, t)
           new == CurrentLimit(l, t + 1)
<1>3. (e + 1) * r = x + r /\ x \in Nat /\ r * (gone + 1) = y + r /\ y \in Nat
  BY <1>1, TimesNat
<1>4. /\ old = IF c = m \/ l.timestamp + Duration <= t \/ c + x > m THEN m ELSE c + x
      /\ new = IF c = m \/ l.timestamp + Duration <= t + 1 \/ c + ((e + 1) * r) > m
               THEN m ELSE c + ((e + 1) * r)
  BY <1>2 DEF CurrentLimit
<1>5. m - r * Duration < Duration /\ since <= t /\ (old = m \/ y <= old)
  BY DEF Refills
<1>6. since <= t + 1
  BY <1>5
<1>7. c <= m
  BY DEF LimitOK
<1> HIDE DEF m, r, e, c, gone, x, y, old, new
<1>8. new = m \/ y + r <= new
  BY <1>1, <1>2, <1>3, <1>4, <1>5, <1>7
<1>9. l.ratePerSecond * ((t + 1) - since) = y + r
  BY <1>2, <1>3 DEF r
<1> QED
  BY <1>5, <1>6, <1>8, <1>9 DEF Refills, m, r, new

RefillInv == LimitsInv /\ Refills(WatchedLimit, blockTime, watch.since)

LEMMA RefillInductive == XSpec => []RefillInv
<1>1. XInit => RefillInv
  <2> SUFFICES ASSUME XInit PROVE RefillInv
    OBVIOUS
  <2>1. WatchedLimit = Unset /\ blockTime = 0 /\ watch.since = 0
    BY LimitAssumption DEF XInit, WatchedLimit
  <2>2. Refills(Unset, 0, 0)
    BY DurationAssumption DEF Refills, Unset, CurrentLimit
  <2> QED
    BY <2>1, <2>2, InitLimits DEF RefillInv
<1>2. RefillInv /\ LimitsInv' /\ [XNext]_xvars => RefillInv'
  <2> SUFFICES ASSUME RefillInv, [XNext]_xvars
               PROVE  Refills(WatchedLimit', blockTime', watch'.since)
    BY DEF RefillInv
  <2> DEFINE l == WatchedLimit
  <2>1. /\ l \in Limit /\ LimitOK(l, blockTime) /\ blockTime \in Nat /\ watch.since \in Nat
        /\ Watched[1] \in Sides /\ Watched[2] \in Bridges
        /\ <<Watched[1], Watched[2]>> = Watched
    BY WatchedFacts DEF RefillInv
  <2>2. /\ Refills(l, blockTime, watch.since)
        /\ bridges \in [Sides -> [Bridges -> Limit]]
        /\ watch \in [drawn : Nat, allowed : Nat, since : Nat]
    BY DEF RefillInv, LimitsInv, XTypeOK
  <2>3. ASSUME NEW s \in Sides, NEW b \in Bridges, NEW n \in Draws, Use(s, b, n)
        PROVE  Refills(WatchedLimit', blockTime', watch'.since)
    <3> DEFINE a == AfterUse(bridges[s][b], blockTime, n)
    <3>1. /\ bridges' = [bridges EXCEPT ![s][b] = a] /\ blockTime' = blockTime
          /\ n \in Nat /\ n <= CurrentLimit(bridges[s][b], blockTime)
      BY <2>3, LimitAssumption, Zenon DEF Use
    <3> HIDE DEF a
    <3>2. CASE <<s, b>> = Watched
      <4>1. s = Watched[1] /\ b = Watched[2] /\ bridges[s][b] = l
        BY <3>2 DEF WatchedLimit
      <4>2. WatchedLimit' = a
        BY <2>2, <3>1, <4>1 DEF WatchedLimit
      <4>3. watch'.since = IF n > 0 THEN blockTime ELSE watch.since
        BY <2>2, <2>3, <3>2 DEF Use
      <4>4. Refills(a, blockTime, IF n > 0 THEN blockTime ELSE watch.since)
        BY <2>1, <2>2, <3>1, <4>1, UseRefills DEF a
      <4> QED
        BY <3>1, <4>2, <4>3, <4>4
    <3>3. CASE <<s, b>> # Watched
      <4>1. WatchedLimit' = WatchedLimit
        BY <2>1, <2>2, <3>1, <3>3 DEF WatchedLimit
      <4>2. watch' = watch
        BY <2>3, <3>3 DEF Use
      <4> QED
        BY <2>2, <3>1, <4>1, <4>2
    <3> QED
      BY <3>2, <3>3
  <2>4. ASSUME NEW b \in Bridges, NEW m \in Maxima, NEW k \in Maxima,
               SetBridgeLimits(b, m, k)
        PROVE  Refills(WatchedLimit', blockTime', watch'.since)
    <3> DEFINE newMax == [s \in Sides |-> IF s = "mint" THEN m ELSE k]
               a(s) == AfterChange(bridges[s][b], blockTime, newMax[s])
    <3>1. /\ bridges' = [s \in Sides |-> [bridges[s] EXCEPT ![b] = a(s)]] /\ blockTime' = blockTime
          /\ b # Watched[2] => watch' = watch
          /\ b = Watched[2] => watch'.since = blockTime
      BY <2>2, <2>4 DEF SetBridgeLimits
    <3>2. \A s \in Sides : newMax[s] \in Nat
      BY LimitAssumption
    <3>3. CASE b = Watched[2]
      <4>1. bridges[Watched[1]][b] = l
        BY <3>3 DEF WatchedLimit
      <4>2. a(Watched[1]) = AfterChange(l, blockTime, newMax[Watched[1]])
        BY <4>1
      <4> HIDE DEF newMax
      <4>3. Refills(a(Watched[1]), blockTime, blockTime)
        BY <2>1, <3>2, <4>2, ChangeRefills
      <4> HIDE DEF a
      <4>4. WatchedLimit' = a(Watched[1])
        BY <2>1, <2>2, <3>1, <3>3 DEF WatchedLimit
      <4> QED
        BY <3>1, <3>3, <4>3, <4>4
    <3>4. CASE b # Watched[2]
      <4> HIDE DEF a
      <4>1. WatchedLimit' = WatchedLimit
        BY <2>1, <2>2, <3>1, <3>4 DEF WatchedLimit
      <4> QED
        BY <2>2, <3>1, <3>4, <4>1
    <3> QED
      BY <3>3, <3>4
  <2>5. CASE SecondPasses
    <3>1. blockTime' = blockTime + 1 /\ WatchedLimit' = l /\ watch'.since = watch.since
      BY <2>2, <2>5 DEF SecondPasses, WatchedLimit
    <3>2. Refills(l, blockTime + 1, watch.since)
      BY <2>1, <2>2, SecondRefills
    <3> QED
      BY <3>1, <3>2
  <2>6. CASE Watch
    <3>1. blockTime' = blockTime /\ WatchedLimit' = l /\ watch'.since = watch.since
      BY <2>2, <2>6 DEF Watch, WatchedLimit
    <3> QED
      BY <2>2, <3>1
  <2>7. CASE \E b \in Bridges : DeployLockbox(b)
    BY <2>2, <2>7 DEF DeployLockbox, WatchedLimit
  <2>8. CASE UNCHANGED xvars
    BY <2>2, <2>8 DEF xvars, WatchedLimit
  <2> QED
    BY <2>3, <2>4, <2>5, <2>6, <2>7, <2>8 DEF XNext, Mint, Burn, Sides
<1> QED
  BY <1>1, <1>2, LimitsInductive, PTL DEF XSpec

\* A Duration after the watched limit was last drawn on or changed it is full, but for
\* less than one unit a second, whatever empty draws restarted its clock meanwhile.
THEOREM LimitReplenishes == XSpec => []ReplenishesInTime
<1>1. RefillInv => ReplenishesInTime
  <2> SUFFICES ASSUME RefillInv, blockTime - watch.since >= Duration
               PROVE  WatchedLimit.maxLimit - CurrentLimit(WatchedLimit, blockTime) < Duration
    BY DEF ReplenishesInTime
  <2> DEFINE m == WatchedLimit.maxLimit
             r == WatchedLimit.ratePerSecond
             c == CurrentLimit(WatchedLimit, blockTime)
             x == r * (blockTime - watch.since)
             y == r * Duration
  <2>1. /\ m \in Nat /\ r \in Nat /\ c \in Nat /\ blockTime - watch.since \in Nat
    BY WatchedFacts, CurrentBounded DEF RefillInv, Limit, Refills
  <2>2. y <= x /\ x \in Nat /\ y \in Nat
    BY <2>1, DurationAssumption, TimesMonotonic, TimesNat
  <2>3. m - y < Duration /\ (c = m \/ x <= c)
    BY DEF RefillInv, Refills
  <2> HIDE DEF m, r, c, x, y
  <2>4. m - c < Duration
    BY <2>1, <2>2, <2>3, DurationAssumption
  <2> QED
    BY <2>4 DEF m, c
<1> QED
  BY <1>1, RefillInductive, PTL

-----------------------------------------------------------------------------
(* GmpTransfers: the adapter's limits *)

\* A limit is not above its maximum, and not ahead of time.
LimitKept(l, t) ==
    /\ l \in Limit
    /\ l.currentLimit <= l.maxLimit
    /\ l.timestamp <= t

LEMMA CurrentKept ==
    ASSUME NEW t \in Nat, NEW l, LimitKept(l, t)
    PROVE  CurrentLimit(l, t) \in Nat /\ CurrentLimit(l, t) <= l.maxLimit
<1> DEFINE refilled == (t - l.timestamp) * l.ratePerSecond
<1>1. /\ l.maxLimit \in Nat /\ l.currentLimit \in Nat /\ l.ratePerSecond \in Nat
      /\ t - l.timestamp \in Nat
  BY DEF LimitKept, Limit
<1>2. refilled \in Nat
  BY <1>1
<1>3. CurrentLimit(l, t) =
          IF \/ l.currentLimit = l.maxLimit
             \/ l.timestamp + Duration <= t
             \/ l.currentLimit + refilled > l.maxLimit
          THEN l.maxLimit ELSE l.currentLimit + refilled
  BY DEF CurrentLimit
<1> HIDE DEF refilled
<1> QED
  BY <1>1, <1>2, <1>3

LEMMA UseKeepsLimit ==
    ASSUME NEW t \in Nat, NEW l, LimitKept(l, t), NEW n \in Nat, n <= CurrentLimit(l, t)
    PROVE  LimitKept(AfterUse(l, t, n), t)
<1> DEFINE c == CurrentLimit(l, t) - n
<1>1. c \in Nat /\ c <= l.maxLimit
  <2>1. l.maxLimit \in Nat
    BY DEF LimitKept, Limit
  <2> QED
    BY <2>1, CurrentKept
<1>2. AfterUse(l, t, n) = [l EXCEPT !.currentLimit = c, !.timestamp = t]
  BY DEF AfterUse
<1> DEFINE k == AfterUse(l, t, n)
<1> HIDE DEF c
<1>3. /\ k \in Limit
      /\ k.currentLimit = c /\ k.maxLimit = l.maxLimit /\ k.timestamp = t
  BY <1>1, <1>2 DEF LimitKept, Limit
<1> HIDE DEF k
<1>4. LimitKept(k, t)
  BY <1>1, <1>3 DEF LimitKept
<1> QED
  BY <1>4 DEF k

LEMMA ChangeKeepsLimit ==
    ASSUME NEW t \in Nat, NEW l, LimitKept(l, t), NEW m \in Nat
    PROVE  LimitKept(AfterChange(l, t, m), t)
<1> DEFINE c == NewCurrentLimit(m, l.maxLimit, CurrentLimit(l, t))
<1>1. l.maxLimit \in Nat /\ CurrentLimit(l, t) \in Nat /\ CurrentLimit(l, t) <= l.maxLimit
  BY CurrentKept DEF LimitKept, Limit
<1>2. c \in Nat /\ c <= m
  BY <1>1 DEF NewCurrentLimit
<1>3. m \div Duration \in Nat
  BY DurationAssumption
<1>4. AfterChange(l, t, m) = [maxLimit |-> m, currentLimit |-> c, timestamp |-> t,
                              ratePerSecond |-> m \div Duration]
  BY DEF AfterChange
<1> HIDE DEF c
<1> QED
  BY <1>2, <1>3, <1>4 DEF LimitKept, Limit

-----------------------------------------------------------------------------
(* Sums *)

\* What some messages are about, and what it is with one more.
LEMMA ValueType ==
    ASSUME NEW ms \in SUBSET Message, IsFiniteSet(ms)
    PROVE  Value(ms) \in Nat
<1> DEFINE f == [t \in ms |-> t.amount]
<1>1. \A t \in ms : f[t] \in Nat
  BY GmpAssumption DEF Message
<1>2. Value(ms) = SumFunctionOnSet(f, ms)
  BY DEF Value, SumFunction
<1> HIDE DEF f
<1> QED
  BY <1>1, <1>2, SumIsNat

LEMMA ValueWithOne ==
    ASSUME NEW ms \in SUBSET Message, IsFiniteSet(ms), NEW t \in Message, t \notin ms
    PROVE  Value(ms \cup {t}) = Value(ms) + t.amount
<1> DEFINE f == [m \in ms |-> m.amount]
           g == [m \in ms \cup {t} |-> m.amount]
<1>0. \A m \in Message : m.amount \in Nat
  BY GmpAssumption DEF Message
<1>1. /\ \A m \in ms \cup {t} : g[m] \in Int
      /\ \A m \in ms : f[m] = g[m]
      /\ g[t] = t.amount /\ t.amount \in Nat
  <2>1. \A m \in ms \cup {t} : g[m] = m.amount /\ m.amount \in Nat
    BY <1>0
  <2>2. \A m \in ms : f[m] = g[m]
    OBVIOUS
  <2> HIDE DEF f, g
  <2> QED
    BY <2>1, <2>2
<1>2. Value(ms) = SumFunctionOnSet(f, ms)
      /\ Value(ms \cup {t}) = SumFunctionOnSet(g, ms \cup {t})
  BY DEF Value, SumFunction
<1> HIDE DEF f, g
<1>3. SumFunctionOnSet(g, ms \cup {t}) = g[t] + SumFunctionOnSet(g, ms)
  BY <1>1, SumWithOne
<1>4. SumFunctionOnSet(f, ms) = SumFunctionOnSet(g, ms)
  BY <1>1, SumOfSame
<1>5. Value(ms) \in Nat
  BY ValueType
<1> QED
  BY <1>1, <1>2, <1>3, <1>4, <1>5

\* What one user gets on one domain, all of them together get.
LEMMA TotalUpdated ==
    ASSUME NEW f \in [Domains -> [Users -> Nat]], NEW g \in [Domains -> [Users -> Nat]],
           NEW d \in Domains, NEW u \in Users,
           \A e \in Domains \ {d} : g[e] = f[e],
           \A v \in Users \ {u} : g[d][v] = f[d][v]
    PROVE  Total(g) = Total(f) + (g[d][u] - f[d][u])
<1> DEFINE F == [e \in Domains |-> SumFunctionOnSet(f[e], Users)]
           G == [e \in Domains |-> SumFunctionOnSet(g[e], Users)]
<1>1. \A e \in Domains : SumFunctionOnSet(f[e], Users) \in Nat
  BY GmpAssumption, SumIsNat
<1>2. \A e \in Domains : SumFunctionOnSet(g[e], Users) \in Nat
  BY GmpAssumption, SumIsNat
<1>3. SumFunctionOnSet(g[d], Users) = SumFunctionOnSet(f[d], Users) + (g[d][u] - f[d][u])
  <2>1. /\ \A v \in Users : f[d][v] \in Int
        /\ \A v \in Users : g[d][v] \in Int
    OBVIOUS
  <2> QED
    BY <2>1, GmpAssumption, SumUpdated
<1>4. Total(f) = SumFunctionOnSet(F, Domains) /\ Total(g) = SumFunctionOnSet(G, Domains)
  BY DEF Total, SumFunction
<1>5. /\ \A e \in Domains : F[e] = SumFunctionOnSet(f[e], Users)
      /\ \A e \in Domains : G[e] = SumFunctionOnSet(g[e], Users)
  OBVIOUS
<1> HIDE DEF F, G
<1>6. \A e \in Domains : F[e] \in Int
  BY <1>1, <1>5
<1>7. \A e \in Domains : G[e] \in Int
  BY <1>2, <1>5
<1>8. \A e \in Domains \ {d} : G[e] = F[e]
  BY <1>5
<1>9. SumFunctionOnSet(G, Domains) = SumFunctionOnSet(F, Domains) + (G[d] - F[d])
  BY <1>6, <1>7, <1>8, GmpAssumption, SumUpdated
<1>10. SumFunctionOnSet(F, Domains) \in Int
  BY <1>6, GmpAssumption, SumIsInt
<1>11. g[d][u] \in Nat /\ f[d][u] \in Nat
  OBVIOUS
<1>12. G[d] - F[d] = g[d][u] - f[d][u]
  BY <1>1, <1>3, <1>5, <1>11
<1> QED
  BY <1>4, <1>9, <1>10, <1>11, <1>12

\* And so with the lockboxes.
LEMMA LockedUpdated ==
    ASSUME NEW f \in [Domains -> Nat], NEW g \in [Domains -> Nat], NEW d \in Domains,
           \A e \in Domains \ {d} : g[e] = f[e]
    PROVE  SumFunction(g) = SumFunction(f) + (g[d] - f[d])
<1>1. /\ \A e \in Domains : f[e] \in Int
      /\ \A e \in Domains : g[e] \in Int
  OBVIOUS
<1>2. SumFunctionOnSet(g, Domains) = SumFunctionOnSet(f, Domains) + (g[d] - f[d])
  BY <1>1, GmpAssumption, SumUpdated
<1>3. DOMAIN f = Domains /\ DOMAIN g = Domains
  OBVIOUS
<1> QED
  BY <1>2, <1>3 DEF SumFunction

-----------------------------------------------------------------------------
(* The inductive invariant *)

AdapterLimitsKept == \A d \in Domains, s \in Sides : LimitKept(limits[d][s], now)

\* Nonces are counted: a new deposit is not one that is there.
Numbered ==
    /\ IsFiniteSet(deposits)
    /\ \A t \in deposits : t.nonce <= DepositCount(t.origin, t.dest)

\* The adapter has burnt the token or another contract, and named its address as
\* the token, or one that it is paired with.
Addressed ==
    /\ \A d, e \in Domains, a \in Addresses :
           pairs[d][a][e] # Zero => <<d, a, e, pairs[d][a][e]>> \in Pairings
    /\ \A t \in deposits : t.depositor = Adapter =>
           /\ t.source = TokenOf[t.origin] \/ <<t.origin, t.source>> \in Counterfeits
           /\ t.token = t.source \/ <<t.origin, t.source, t.dest, t.token>> \in Pairings

IInv == TypeOK /\ AdapterLimitsKept /\ Numbered /\ Addressed /\ Backed

\* The deposits of a domain to another are finitely many.
LEMMA CountType ==
    ASSUME Numbered, NEW d, NEW e
    PROVE  /\ IsFiniteSet({t \in deposits : t.origin = d /\ t.dest = e})
           /\ DepositCount(d, e) \in Nat
<1>1. IsFiniteSet({t \in deposits : t.origin = d /\ t.dest = e})
  BY FS_Subset DEF Numbered
<1> QED
  BY <1>1, FS_CardinalityType DEF DepositCount

\* A deposit has the next nonce and its true depositor.
LEMMA AnnounceKeeps ==
    ASSUME TypeOK, Numbered, NEW d \in Domains, NEW sender \in Users \cup {Adapter},
           NEW dest \in Domains, NEW amount \in Amounts, NEW depositor,
           NEW recipient \in Users, NEW source \in Addresses \cup {Zero},
           NEW token \in Addresses,
           Announce(d, sender, dest, depositor, recipient, source, token, amount)
    PROVE  /\ Numbered'
           /\ \E t \in Message : /\ t \notin deposits /\ deposits' = deposits \cup {t}
                                 /\ t.depositor = sender /\ t.amount = amount
                                 /\ t.origin = d /\ t.dest = dest
                                 /\ t.source = source /\ t.token = token
<1> DEFINE k == DepositCount(d, dest)
           t == [origin |-> d, dest |-> dest, nonce |-> k + 1, depositor |-> depositor,
                 recipient |-> recipient, source |-> source, token |-> token,
                 amount |-> amount]
           Of(D, o, e) == {s \in D : s.origin = o /\ s.dest = e}
<1>1. k \in Nat /\ k < MaxNonce /\ depositor = sender /\ deposits' = deposits \cup {t}
  BY CountType DEF Announce, MayDeposit
<1>2. /\ t \in Message /\ t.origin = d /\ t.dest = dest /\ t.nonce = k + 1
      /\ t.depositor = sender /\ t.amount = amount /\ t.source = source /\ t.token = token
  BY <1>1, GmpAssumption DEF Message
<1> HIDE DEF t
<1>3. t \notin deposits
  BY <1>1, <1>2 DEF Numbered
<1>4. IsFiniteSet(deposits')
  BY <1>1, FS_AddElement DEF Numbered
<1>5. DepositCount(d, dest)' = k + 1
  <2>1. Of(deposits', d, dest) = Of(deposits, d, dest) \cup {t}
    BY <1>1, <1>2
  <2>2. IsFiniteSet(Of(deposits, d, dest)) /\ t \notin Of(deposits, d, dest)
    BY <1>3, CountType
  <2> QED
    BY <2>1, <2>2, FS_AddElement DEF DepositCount
<1>6. ASSUME NEW o, NEW e, ~ (o = d /\ e = dest)
      PROVE  DepositCount(o, e)' = DepositCount(o, e)
  <2>1. Of(deposits', o, e) = Of(deposits, o, e)
    BY <1>1, <1>2, <1>6
  <2> QED
    BY <2>1 DEF DepositCount
<1> HIDE DEF k
<1>7. ASSUME NEW s \in deposits' PROVE s.nonce <= DepositCount(s.origin, s.dest)'
  <2>1. CASE s = t
    BY <1>1, <1>2, <1>5, <2>1
  <2>2. CASE s # t
    <3>1. s \in deposits /\ s.nonce <= DepositCount(s.origin, s.dest)
      BY <1>1, <2>2 DEF Numbered
    <3>2. s.nonce \in Nat
      BY <3>1, GmpAssumption DEF TypeOK, Message
    <3>3. CASE s.origin = d /\ s.dest = dest
      BY <1>1, <1>5, <3>1, <3>2, <3>3 DEF k
    <3>4. CASE ~ (s.origin = d /\ s.dest = dest)
      BY <1>6, <3>1, <3>4
    <3> QED
      BY <3>3, <3>4
  <2> QED
    BY <2>1, <2>2
<1>8. Numbered'
  BY <1>4, <1>7 DEF Numbered
<1> QED
  BY <1>1, <1>2, <1>3, <1>8

-----------------------------------------------------------------------------
(* Each step keeps the invariant *)

\* The state's parts have numbers for what is added up.
LEMMA Quantities ==
    ASSUME TypeOK
    PROVE  /\ balance \in [Domains -> [Users -> Nat]]
           /\ underlying \in [Domains -> [Users -> Nat]]
           /\ locked \in [Domains -> Nat]
           /\ Total(balance) \in Nat
           /\ SumFunction(locked) \in Nat
<1>1. /\ balance \in [Domains -> [Users -> Nat]]
      /\ underlying \in [Domains -> [Users -> Nat]]
      /\ locked \in [Domains -> Nat]
  BY DEF TypeOK
<1>2. SumFunctionOnSet(locked, Domains) \in Nat
  BY <1>1, GmpAssumption, SumIsNat
<1>3. DOMAIN locked = Domains
  BY <1>1
<1>4. \A d \in Domains : SumFunctionOnSet(balance[d], Users) \in Nat
  BY <1>1, GmpAssumption, SumIsNat
<1> DEFINE F == [d \in Domains |-> SumFunctionOnSet(balance[d], Users)]
<1>5. Total(balance) = SumFunctionOnSet(F, Domains)
  BY DEF Total, SumFunction
<1>6. \A d \in Domains : F[d] \in Nat
  BY <1>4
<1> HIDE DEF F
<1>7. Total(balance) \in Nat
  BY <1>5, <1>6, GmpAssumption, SumIsNat
<1> QED
  BY <1>1, <1>2, <1>3, <1>7 DEF SumFunction

\* Tokens minted to an account, or burnt from it, change the total by as much.
LEMMA TokensMinted ==
    ASSUME TypeOK, NEW d \in Domains, NEW u \in Users, NEW n \in Nat,
           balance' = [balance EXCEPT ![d][u] = balance[d][u] + n]
    PROVE  /\ balance' \in [Domains -> [Users -> Nat]]
           /\ Total(balance') = Total(balance) + n
<1>1. balance \in [Domains -> [Users -> Nat]] /\ Total(balance) \in Nat
  BY Quantities
<1>2. balance[d][u] \in Nat /\ balance[d][u] + n \in Nat
  BY <1>1
<1>3. balance' \in [Domains -> [Users -> Nat]]
  BY <1>1, <1>2
<1>4. /\ balance'[d][u] = balance[d][u] + n
      /\ \A e \in Domains \ {d} : balance'[e] = balance[e]
      /\ \A v \in Users \ {u} : balance'[d][v] = balance[d][v]
  BY <1>1
<1> DEFINE b == balance
           c == balance'
<1> HIDE DEF b, c
<1>5. Total(c) = Total(b) + (c[d][u] - b[d][u])
  <2>1. /\ b \in [Domains -> [Users -> Nat]] /\ c \in [Domains -> [Users -> Nat]]
        /\ \A e \in Domains \ {d} : c[e] = b[e]
        /\ \A v \in Users \ {u} : c[d][v] = b[d][v]
    BY <1>1, <1>3, <1>4 DEF b, c
  <2> QED
    BY <2>1, TotalUpdated
<1> QED
  BY <1>1, <1>2, <1>3, <1>4, <1>5 DEF b, c

LEMMA TokensBurnt ==
    ASSUME TypeOK, NEW d \in Domains, NEW u \in Users, NEW n \in Nat,
           n <= balance[d][u],
           balance' = [balance EXCEPT ![d][u] = balance[d][u] - n]
    PROVE  /\ balance' \in [Domains -> [Users -> Nat]]
           /\ Total(balance') = Total(balance) - n
<1>1. balance \in [Domains -> [Users -> Nat]] /\ Total(balance) \in Nat
  BY Quantities
<1>2. balance[d][u] \in Nat /\ balance[d][u] - n \in Nat
  BY <1>1
<1>3. balance' \in [Domains -> [Users -> Nat]]
  BY <1>1, <1>2
<1>4. /\ balance'[d][u] = balance[d][u] - n
      /\ \A e \in Domains \ {d} : balance'[e] = balance[e]
      /\ \A v \in Users \ {u} : balance'[d][v] = balance[d][v]
  BY <1>1
<1> DEFINE b == balance
           c == balance'
<1> HIDE DEF b, c
<1>5. Total(c) = Total(b) + (c[d][u] - b[d][u])
  <2>1. /\ b \in [Domains -> [Users -> Nat]] /\ c \in [Domains -> [Users -> Nat]]
        /\ \A e \in Domains \ {d} : c[e] = b[e]
        /\ \A v \in Users \ {u} : c[d][v] = b[d][v]
    BY <1>1, <1>3, <1>4 DEF b, c
  <2> QED
    BY <2>1, TotalUpdated
<1> QED
  BY <1>1, <1>2, <1>3, <1>4, <1>5 DEF b, c

\* And so do tokens locked and unlocked.
LEMMA TokensLocked ==
    ASSUME TypeOK, NEW d \in Domains, NEW n \in Nat,
           locked' = [locked EXCEPT ![d] = locked[d] + n]
    PROVE  /\ locked' \in [Domains -> Nat]
           /\ SumFunction(locked') = SumFunction(locked) + n
<1>1. locked \in [Domains -> Nat] /\ SumFunction(locked) \in Nat
  BY Quantities
<1>2. locked[d] \in Nat /\ locked[d] + n \in Nat
  BY <1>1
<1>3. /\ locked' \in [Domains -> Nat]
      /\ locked'[d] = locked[d] + n
      /\ \A e \in Domains \ {d} : locked'[e] = locked[e]
  BY <1>1, <1>2
<1> DEFINE b == locked
           c == locked'
<1> HIDE DEF b, c
<1>4. SumFunction(c) = SumFunction(b) + (c[d] - b[d])
  <2>1. /\ b \in [Domains -> Nat] /\ c \in [Domains -> Nat]
        /\ \A e \in Domains \ {d} : c[e] = b[e]
    BY <1>1, <1>3 DEF b, c
  <2> QED
    BY <2>1, LockedUpdated
<1> QED
  BY <1>1, <1>2, <1>3, <1>4 DEF b, c

LEMMA TokensUnlocked ==
    ASSUME TypeOK, NEW d \in Domains, NEW n \in Nat,
           n <= locked[d],
           locked' = [locked EXCEPT ![d] = locked[d] - n]
    PROVE  /\ locked' \in [Domains -> Nat]
           /\ SumFunction(locked') = SumFunction(locked) - n
<1>1. locked \in [Domains -> Nat] /\ SumFunction(locked) \in Nat
  BY Quantities
<1>2. locked[d] \in Nat /\ locked[d] - n \in Nat
  BY <1>1
<1>3. /\ locked' \in [Domains -> Nat]
      /\ locked'[d] = locked[d] - n
      /\ \A e \in Domains \ {d} : locked'[e] = locked[e]
  BY <1>1, <1>2
<1> DEFINE b == locked
           c == locked'
<1> HIDE DEF b, c
<1>4. SumFunction(c) = SumFunction(b) + (c[d] - b[d])
  <2>1. /\ b \in [Domains -> Nat] /\ c \in [Domains -> Nat]
        /\ \A e \in Domains \ {d} : c[e] = b[e]
    BY <1>1, <1>3 DEF b, c
  <2> QED
    BY <2>1, LockedUpdated
<1> QED
  BY <1>1, <1>2, <1>3, <1>4 DEF b, c

\* Backed in the next state.
LEMMA BackedNextMeans ==
    Backed' <=> Total(balance') + Value((Genuine \ minted)')
                    = SumFunction(locked') + Value((Impostors \cap minted)')
BY DEF Backed, Value, Total

\* What is under way, and what was minted for impostors, is some messages, finitely
\* many; no message is in both.
LEMMA Messages ==
    ASSUME TypeOK, Numbered
    PROVE  /\ Genuine \ minted \in SUBSET Message
           /\ IsFiniteSet(Genuine \ minted)
           /\ Value(Genuine \ minted) \in Nat
           /\ Impostors \cap minted \in SUBSET Message
           /\ IsFiniteSet(Impostors \cap minted)
           /\ Value(Impostors \cap minted) \in Nat
           /\ Genuine \cap Impostors = {}
<1>1. /\ Genuine \ minted \in SUBSET Message /\ Genuine \ minted \in SUBSET deposits
      /\ Impostors \cap minted \in SUBSET Message
      /\ Impostors \cap minted \in SUBSET deposits
  BY DEF TypeOK, Genuine, Impostors
<1>2. IsFiniteSet(Genuine \ minted) /\ IsFiniteSet(Impostors \cap minted)
  BY <1>1, FS_Subset DEF Numbered
<1>3. Genuine \cap Impostors = {}
  <2>1. \A t \in deposits : t.origin \in Domains
    BY DEF TypeOK, Message
  <2> QED
    BY <2>1, GmpAssumption DEF Genuine, Impostors, IsImpostor
<1> QED
  BY <1>1, <1>2, <1>3, ValueType

\* Without a new deposit, pairing or mint the messages are what they were.
LEMMA MessagesKept ==
    ASSUME UNCHANGED <<pairs, deposits, minted>>, Addressed, Numbered
    PROVE  /\ Addressed' /\ Numbered'
           /\ Value((Genuine \ minted)') = Value(Genuine \ minted)
           /\ Value((Impostors \cap minted)') = Value(Impostors \cap minted)
<1>1. (Genuine \ minted)' = Genuine \ minted
  BY DEF Genuine
<1>2. (Impostors \cap minted)' = Impostors \cap minted
  BY DEF Impostors
<1>3. Addressed' /\ Numbered'
  BY DEF Addressed, Numbered, DepositCount
<1>4. Value((Genuine \ minted)') = Value(Genuine \ minted)
  BY <1>1, Zenon
<1>5. Value((Impostors \cap minted)') = Value(Impostors \cap minted)
  BY <1>2, Zenon
<1> QED
  BY <1>3, <1>4, <1>5

\* A user gets or pays tokens that go to or come from the lockbox.
LEMMA LockboxDepositKeeps ==
    ASSUME IInv, NEW d \in Domains, NEW user \in Users, NEW to \in Users,
           NEW amount \in Amounts, LockboxDeposit(d, user, to, amount)
    PROVE  IInv'
<1> USE DEF IInv
<1>1. amount \in Nat /\ amount <= underlying[d][user]
  BY GmpAssumption DEF LockboxDeposit
<1>2. /\ underlying' = [underlying EXCEPT ![d][user] = underlying[d][user] - amount]
      /\ locked' = [locked EXCEPT ![d] = locked[d] + amount]
      /\ balance' = [balance EXCEPT ![d][to] = balance[d][to] + amount]
      /\ UNCHANGED <<now, limits, pairs, deposits, executed, minted>>
  BY DEF LockboxDeposit
<1>3. /\ balance \in [Domains -> [Users -> Nat]]
      /\ underlying \in [Domains -> [Users -> Nat]]
      /\ locked \in [Domains -> Nat]
  BY Quantities
<1>4. /\ underlying[d][user] - amount \in Nat
      /\ locked[d] + amount \in Nat
      /\ balance[d][to] + amount \in Nat
      /\ balance[d][to] \in Nat /\ locked[d] \in Nat
  BY <1>1, <1>3
<1>7. /\ balance' \in [Domains -> [Users -> Nat]]
      /\ Total(balance') = Total(balance) + amount
  BY <1>1, <1>2, TokensMinted
<1>5. TypeOK'
  <2>1. underlying' \in [Domains -> [Users -> Nat]]
    BY <1>2, <1>3, <1>4
  <2>2. balance' \in [Domains -> [Users -> Nat]]
    BY <1>7
  <2>3. locked' \in [Domains -> Nat]
    BY <1>2, <1>3, <1>4
  <2> QED
    BY <1>2, <2>1, <2>2, <2>3 DEF TypeOK
<1>6. AdapterLimitsKept'
  BY <1>2 DEF AdapterLimitsKept
<1>8. SumFunction(locked') = SumFunction(locked) + amount
  BY <1>1, <1>2, TokensLocked
<1>9. /\ Addressed' /\ Numbered'
      /\ Value((Genuine \ minted)') = Value(Genuine \ minted)
      /\ Value((Impostors \cap minted)') = Value(Impostors \cap minted)
  BY <1>2, MessagesKept
<1>10. Backed'
  <2> DEFINE way == Value(Genuine \ minted)
             fake == Value(Impostors \cap minted)
  <2>1. Total(balance) + way = SumFunction(locked) + fake
    BY DEF Backed
  <2>2. /\ Total(balance) \in Nat /\ SumFunction(locked) \in Nat
        /\ way \in Nat /\ fake \in Nat
    BY Quantities, Messages
  <2> HIDE DEF way, fake
  <2>3. Total(balance') + way = SumFunction(locked') + fake
    BY <1>1, <1>4, <1>7, <1>8, <2>1, <2>2
  <2> QED
    BY <1>9, <2>3, BackedNextMeans DEF way, fake
<1> QED
  BY <1>5, <1>6, <1>9, <1>10

LEMMA LockboxWithdrawKeeps ==
    ASSUME IInv, NEW d \in Domains, NEW user \in Users, NEW to \in Users,
           NEW amount \in Amounts, LockboxWithdraw(d, user, to, amount)
    PROVE  IInv'
<1> USE DEF IInv
<1>1. amount \in Nat /\ amount <= balance[d][user] /\ amount <= locked[d]
  BY GmpAssumption DEF LockboxWithdraw
<1>2. /\ underlying' = [underlying EXCEPT ![d][to] = underlying[d][to] + amount]
      /\ locked' = [locked EXCEPT ![d] = locked[d] - amount]
      /\ balance' = [balance EXCEPT ![d][user] = balance[d][user] - amount]
      /\ UNCHANGED <<now, limits, pairs, deposits, executed, minted>>
  BY DEF LockboxWithdraw
<1>3. /\ balance \in [Domains -> [Users -> Nat]]
      /\ underlying \in [Domains -> [Users -> Nat]]
      /\ locked \in [Domains -> Nat]
  BY Quantities
<1>4. /\ underlying[d][to] + amount \in Nat
      /\ locked[d] - amount \in Nat
      /\ balance[d][user] - amount \in Nat
      /\ balance[d][user] \in Nat /\ locked[d] \in Nat
  BY <1>1, <1>3
<1>7. /\ balance' \in [Domains -> [Users -> Nat]]
      /\ Total(balance') = Total(balance) - amount
  BY <1>1, <1>2, TokensBurnt
<1>5. TypeOK'
  <2>1. underlying' \in [Domains -> [Users -> Nat]]
    BY <1>2, <1>3, <1>4
  <2>2. balance' \in [Domains -> [Users -> Nat]]
    BY <1>7
  <2>3. locked' \in [Domains -> Nat]
    BY <1>2, <1>3, <1>4
  <2> QED
    BY <1>2, <2>1, <2>2, <2>3 DEF TypeOK
<1>6. AdapterLimitsKept'
  BY <1>2 DEF AdapterLimitsKept
<1>8. SumFunction(locked') = SumFunction(locked) - amount
  BY <1>1, <1>2, TokensUnlocked
<1>9. /\ Addressed' /\ Numbered'
      /\ Value((Genuine \ minted)') = Value(Genuine \ minted)
      /\ Value((Impostors \cap minted)') = Value(Impostors \cap minted)
  BY <1>2, MessagesKept
<1>10. Backed'
  <2> DEFINE way == Value(Genuine \ minted)
             fake == Value(Impostors \cap minted)
  <2>1. Total(balance) + way = SumFunction(locked) + fake
    BY DEF Backed
  <2>2. /\ Total(balance) \in Nat /\ SumFunction(locked) \in Nat
        /\ way \in Nat /\ fake \in Nat
    BY Quantities, Messages
  <2> HIDE DEF way, fake
  <2>3. Total(balance') + way = SumFunction(locked') + fake
    BY <1>1, <1>4, <1>7, <1>8, <2>1, <2>2
  <2> QED
    BY <1>9, <2>3, BackedNextMeans DEF way, fake
<1> QED
  BY <1>5, <1>6, <1>9, <1>10

\* A used limit is kept, and the others as they were.
LEMMA LimitUsed ==
    ASSUME TypeOK, AdapterLimitsKept, NEW d \in Domains, NEW s \in Sides, NEW n \in Nat,
           n <= CurrentLimit(limits[d][s], now), now' = now,
           limits' = [limits EXCEPT ![d][s] = AfterUse(limits[d][s], now, n)]
    PROVE  limits' \in [Domains -> [Sides -> Limit]] /\ AdapterLimitsKept'
<1>1. now \in Nat /\ limits \in [Domains -> [Sides -> Limit]]
  BY GmpAssumption DEF TypeOK
<1>2. LimitKept(limits[d][s], now)
  BY DEF AdapterLimitsKept
<1> DEFINE k == AfterUse(limits[d][s], now, n)
<1>3. LimitKept(k, now)
  BY <1>1, <1>2, UseKeepsLimit
<1>4. limits' = [limits EXCEPT ![d][s] = k]
  OBVIOUS
<1> HIDE DEF k
<1>5. k \in Limit
  BY <1>3 DEF LimitKept
<1>6. limits' \in [Domains -> [Sides -> Limit]]
  BY <1>1, <1>4, <1>5
<1>7. ASSUME NEW e \in Domains, NEW r \in Sides PROVE LimitKept(limits'[e][r], now)
  <2>1. LimitKept(limits[e][r], now)
    BY DEF AdapterLimitsKept
  <2>2. limits'[e][r] = IF e = d /\ r = s THEN k ELSE limits[e][r]
    BY <1>1, <1>4
  <2> QED
    BY <1>3, <2>1, <2>2
<1>8. AdapterLimitsKept'
  BY <1>7 DEF AdapterLimitsKept
<1> QED
  BY <1>6, <1>8

\* What a deposit of the adapter says, and so all that there are then.
LEMMA DepositAddressed ==
    ASSUME IInv, NEW d \in Domains, NEW dest \in Domains, NEW user \in Users,
           NEW source \in Addresses, NEW recipient \in Users, NEW amount \in Amounts,
           Deposit(d, user, source, dest, recipient, amount)
    PROVE  /\ Numbered' /\ Addressed'
           /\ \E t \in Message : /\ t \notin deposits /\ deposits' = deposits \cup {t}
                                 /\ t.depositor = Adapter /\ t.amount = amount
                                 /\ t.origin = d /\ t.source = source
<1>1. /\ BurnFrom(d, source, user, amount) /\ pairs' = pairs
      /\ Announce(d, Adapter, dest, Adapter, recipient, source,
                  DestinationToken(d, source, dest), amount)
  BY DEF Deposit
<1>2. PICK token \in Addresses :
        /\ Announce(d, Adapter, dest, Adapter, recipient, source, token, amount)
        /\ token = source \/ <<d, source, dest, token>> \in Pairings
  <2>1. pairs[d][source][dest] \in Addresses \cup {Zero}
    BY DEF IInv, TypeOK
  <2>2. LET token == DestinationToken(d, source, dest)
        IN token \in Addresses /\ (token = source \/ <<d, source, dest, token>> \in Pairings)
    BY <2>1 DEF IInv, DestinationToken, Addressed
  <2> QED
    BY <1>1, <2>2
<1>3. source = TokenOf[d] \/ <<d, source>> \in Counterfeits
  BY <1>1 DEF BurnFrom
<1>4. /\ Numbered'
      /\ \E t \in Message : /\ t \notin deposits /\ deposits' = deposits \cup {t}
                            /\ t.depositor = Adapter /\ t.amount = amount
                            /\ t.origin = d /\ t.dest = dest
                            /\ t.source = source /\ t.token = token
  <2>1. /\ TypeOK /\ Numbered
        /\ Adapter \in Users \cup {Adapter} /\ source \in Addresses \cup {Zero}
    BY DEF IInv
  <2>2. Announce(d, Adapter, dest, Adapter, recipient, source, token, amount)
    BY <1>2
  <2>3. Numbered'
    BY <2>1, <2>2, AnnounceKeeps
  <2>4. \E t \in Message : /\ t \notin deposits /\ deposits' = deposits \cup {t}
                           /\ t.depositor = Adapter /\ t.amount = amount
                           /\ t.origin = d /\ t.dest = dest
                           /\ t.source = source /\ t.token = token
    BY <2>1, <2>2, AnnounceKeeps
  <2> QED
    BY <2>3, <2>4
<1>5. Addressed'
  BY <1>1, <1>2, <1>3, <1>4 DEF IInv, Addressed
<1> QED
  BY <1>4, <1>5

\* Burnt tokens are under way in the new deposit, those of another contract are not.
LEMMA DepositKeeps ==
    ASSUME IInv, NEW d \in Domains, NEW dest \in Domains, NEW user \in Users,
           NEW source \in Addresses, NEW recipient \in Users, NEW amount \in Amounts,
           Deposit(d, user, source, dest, recipient, amount)
    PROVE  IInv'
<1>1. /\ BurnFrom(d, source, user, amount) /\ amount \in Nat
      /\ UNCHANGED <<now, pairs, underlying, locked, executed, minted>>
  BY GmpAssumption DEF Deposit
<1>2. /\ Numbered' /\ Addressed'
      /\ \E t \in Message : /\ t \notin deposits /\ deposits' = deposits \cup {t}
                            /\ t.depositor = Adapter /\ t.amount = amount
                            /\ t.origin = d /\ t.source = source
  BY DepositAddressed
<1>3. PICK t \in Message : /\ t \notin deposits /\ deposits' = deposits \cup {t}
                           /\ t.depositor = Adapter /\ t.amount = amount
                           /\ t.origin = d /\ t.source = source
  BY <1>2
<1> USE DEF IInv
<1>4. t \notin minted
  BY <1>3 DEF TypeOK
<1>5. (Impostors \cap minted)' = Impostors \cap minted
  BY <1>1, <1>3, <1>4 DEF Impostors
<1>6. Value((Impostors \cap minted)') = Value(Impostors \cap minted)
  BY <1>5, Zenon
<1> DEFINE B == Genuine \ minted
           fake == Value(Impostors \cap minted)
<1>7. /\ Total(balance) + Value(B) = SumFunction(locked) + fake
      /\ Total(balance) \in Nat /\ SumFunction(locked) \in Nat /\ fake \in Nat
      /\ B \in SUBSET Message /\ IsFiniteSet(B) /\ Value(B) \in Nat /\ t \notin B
      /\ SumFunction(locked') = SumFunction(locked)
  BY <1>1, <1>3, Quantities, Messages DEF Backed, Genuine
<1>8. CASE source = TokenOf[d]
  <2>1. /\ amount <= balance[d][user]
        /\ amount <= CurrentLimit(limits[d]["burn"], now)
        /\ limits' = [limits EXCEPT
                          ![d]["burn"] = AfterUse(limits[d]["burn"], now, amount)]
        /\ balance' = [balance EXCEPT ![d][user] = balance[d][user] - amount]
    BY <1>1, <1>8, GmpAssumption DEF BurnFrom
  <2>2. limits' \in [Domains -> [Sides -> Limit]] /\ AdapterLimitsKept'
    BY <1>1, <2>1, LimitUsed DEF Sides
  <2>3. /\ balance' \in [Domains -> [Users -> Nat]]
        /\ Total(balance') = Total(balance) - amount
    BY <1>1, <2>1, TokensBurnt
  <2>4. TypeOK'
    <3>1. deposits' \subseteq Message /\ executed' \subseteq deposits'
      BY <1>1, <1>3 DEF TypeOK
    <3> QED
      BY <1>1, <2>2, <2>3, <3>1 DEF TypeOK
  <2>5. (Genuine \ minted)' = B \cup {t}
    BY <1>1, <1>3, <1>4, <1>8 DEF Genuine
  <2>6. Value((Genuine \ minted)') = Value(B \cup {t})
    BY <2>5, Zenon
  <2> HIDE DEF B, fake
  <2>7. Value(B \cup {t}) = Value(B) + amount
    BY <1>3, <1>7, ValueWithOne
  <2>8. Total(balance') + Value(B \cup {t}) = SumFunction(locked') + fake
    BY <1>1, <1>7, <2>3, <2>7
  <2>9. Backed'
    BY <1>6, <2>6, <2>8, BackedNextMeans DEF fake
  <2> QED
    BY <1>2, <2>2, <2>4, <2>9
<1>9. CASE source # TokenOf[d]
  <2>1. UNCHANGED <<limits, balance>>
    BY <1>1, <1>9 DEF BurnFrom
  <2>2. TypeOK'
    <3>1. deposits' \subseteq Message /\ executed' \subseteq deposits'
      BY <1>1, <1>3 DEF TypeOK
    <3> QED
      BY <1>1, <2>1, <3>1 DEF TypeOK
  <2>3. AdapterLimitsKept'
    BY <1>1, <2>1 DEF AdapterLimitsKept
  <2>4. (Genuine \ minted)' = B
    BY <1>1, <1>3, <1>9 DEF Genuine
  <2>5. Value((Genuine \ minted)') = Value(B)
    BY <2>4, Zenon
  <2> HIDE DEF B, fake
  <2>6. Total(balance') + Value(B) = SumFunction(locked') + fake
    BY <1>7, <2>1
  <2>7. Backed'
    BY <1>6, <2>5, <2>6, BackedNextMeans DEF fake
  <2> QED
    BY <1>2, <2>2, <2>3, <2>7
<1> QED
  BY <1>8, <1>9

\* A user's own message names the user, who is not the adapter: it burns nothing
\* and will mint nothing.
LEMMA DepositMessageKeeps ==
    ASSUME IInv, NEW d \in Domains, NEW dest \in Domains, NEW user \in Users,
           NEW depositor, NEW token \in Addresses, NEW amount \in Amounts,
           DepositMessage(d, user, dest, depositor, token, amount)
    PROVE  IInv'
<1> USE DEF IInv
<1>1. /\ Announce(d, user, dest, depositor, user, Zero, token, amount)
      /\ UNCHANGED <<now, limits, pairs, balance, underlying, locked, executed, minted>>
  BY DEF DepositMessage
<1>2. /\ Numbered'
      /\ \E t \in Message : /\ t \notin deposits /\ deposits' = deposits \cup {t}
                            /\ t.depositor = user /\ t.amount = amount
  <2>1. Zero \in Addresses \cup {Zero} /\ user \in Users \cup {Adapter}
    OBVIOUS
  <2> QED
    BY <1>1, <2>1, AnnounceKeeps
<1>3. PICK t \in Message : /\ t \notin deposits /\ deposits' = deposits \cup {t}
                           /\ t.depositor = user /\ t.amount = amount
  BY <1>2
<1>4. TypeOK'
  <2>1. deposits' \subseteq Message /\ executed' \subseteq deposits'
    BY <1>1, <1>3 DEF TypeOK
  <2> QED
    BY <1>1, <2>1 DEF TypeOK
<1>5. AdapterLimitsKept'
  BY <1>1 DEF AdapterLimitsKept
<1>6. t.depositor # Adapter /\ t \notin minted
  BY <1>3, GmpAssumption DEF TypeOK
<1>7. (Genuine \ minted)' = Genuine \ minted
  BY <1>1, <1>3, <1>6 DEF Genuine
<1>8. (Impostors \cap minted)' = Impostors \cap minted
  BY <1>1, <1>3, <1>6 DEF Impostors
<1>9. Value((Genuine \ minted)') = Value(Genuine \ minted)
  BY <1>7, Zenon
<1>10. Value((Impostors \cap minted)') = Value(Impostors \cap minted)
  BY <1>8, Zenon
<1>11. Backed'
  BY <1>1, <1>9, <1>10, BackedNextMeans DEF Backed
<1>12. Addressed'
  BY <1>1, <1>3, <1>6 DEF Addressed
<1> QED
  BY <1>2, <1>4, <1>5, <1>11, <1>12

\* What was under way is its recipient's.
LEMMA ExecuteMintsKeeps ==
    ASSUME IInv, NEW t \in deposits, ExecuteMints(t)
    PROVE  IInv'
<1> USE DEF IInv
<1>1. t \in Message /\ t.dest \in Domains /\ t.recipient \in Users /\ t.amount \in Nat
  <2>1. t \in Message
    BY DEF TypeOK
  <2> QED
    BY <2>1, GmpAssumption DEF Message
<1>2. /\ t \notin executed /\ t.depositor = Adapter
      /\ t.amount <= CurrentLimit(limits[t.dest]["mint"], now)
      /\ limits' = [limits EXCEPT
             ![t.dest]["mint"] = AfterUse(limits[t.dest]["mint"], now, t.amount)]
      /\ balance' = [balance EXCEPT
             ![t.dest][t.recipient] = balance[t.dest][t.recipient] + t.amount]
      /\ executed' = executed \cup {t}
      /\ minted' = minted \cup {t}
      /\ UNCHANGED <<now, pairs, underlying, locked, deposits>>
  BY DEF ExecuteMints, AcceptsOrigin
<1>3. limits' \in [Domains -> [Sides -> Limit]] /\ AdapterLimitsKept'
  BY <1>1, <1>2, LimitUsed DEF Sides
<1>4. /\ balance' \in [Domains -> [Users -> Nat]]
      /\ Total(balance') = Total(balance) + t.amount
  BY <1>1, <1>2, TokensMinted
<1>5. TypeOK'
  <2>1. /\ deposits' \subseteq Message /\ executed' \subseteq deposits'
        /\ minted' \subseteq executed'
    BY <1>2 DEF TypeOK
  <2> QED
    BY <1>2, <1>3, <1>4, <2>1 DEF TypeOK
<1>6. Numbered'
  BY <1>2 DEF Numbered, DepositCount
<1>7. Addressed' /\ t \notin minted /\ t.token = TokenOf[t.dest]
  BY <1>2 DEF Addressed, TypeOK, ExecuteMints
<1> DEFINE B == Genuine \ minted
           C == (Genuine \ minted)'
           I == Impostors \cap minted
           J == (Impostors \cap minted)'
<1>8. /\ Total(balance) + Value(B) = SumFunction(locked) + Value(I)
      /\ Total(balance) \in Nat /\ SumFunction(locked) \in Nat
      /\ B \in SUBSET Message /\ IsFiniteSet(B) /\ Value(B) \in Nat
      /\ I \in SUBSET Message /\ IsFiniteSet(I) /\ Value(I) \in Nat
      /\ SumFunction(locked') = SumFunction(locked)
  BY <1>2, Quantities, Messages DEF Backed
<1>9. Genuine' = Genuine /\ Impostors' = Impostors /\ Genuine \cap Impostors = {}
      /\ C = B \ {t} /\ (t \in Impostors => J = I \cup {t}) /\ (t \notin Impostors => J = I)
  <2>1. Genuine' = Genuine /\ Impostors' = Impostors
    BY <1>2 DEF Genuine, Impostors
  <2> QED
    BY <1>2, <2>1, Messages
<1>10. Total(balance') + Value(C) = SumFunction(locked') + Value(J)
  <2>1. CASE t.source = TokenOf[t.origin]
    <3>1. t \in Genuine /\ t \in B
      BY <1>2, <1>7, <2>1 DEF Genuine
    <3>2. B = C \cup {t} /\ t \notin C /\ J = I
      BY <1>9, <3>1
    <3> HIDE DEF B, C, I, J
    <3>3. C \in SUBSET Message /\ IsFiniteSet(C)
      <4>1. C \in SUBSET B
        BY <3>2
      <4> QED
        BY <1>8, <4>1, FS_Subset
    <3>4. Value(C \cup {t}) = Value(C) + t.amount /\ Value(C) \in Nat
      BY <1>1, <3>2, <3>3, ValueWithOne, ValueType
    <3>5. Value(B) = Value(C \cup {t}) /\ Value(J) = Value(I)
      BY <3>2, Zenon
    <3> QED
      BY <1>1, <1>4, <1>8, <3>4, <3>5
  <2>2. CASE t.source # TokenOf[t.origin]
    <3>1. t \in Impostors /\ t \notin I /\ t \notin Genuine
      BY <1>2, <1>7, <2>2 DEF Impostors, IsImpostor, Addressed, Genuine
    <3>2. J = I \cup {t} /\ C = B
      BY <1>9, <3>1
    <3> HIDE DEF B, C, I, J
    <3>3. Value(I \cup {t}) = Value(I) + t.amount
      BY <1>1, <1>8, <3>1, ValueWithOne
    <3>4. Value(J) = Value(I \cup {t}) /\ Value(C) = Value(B)
      BY <3>2, Zenon
    <3> QED
      BY <1>1, <1>4, <1>8, <3>3, <3>4
  <2> QED
    BY <2>1, <2>2
<1>11. Backed'
  BY <1>10, BackedNextMeans
<1> QED
  BY <1>3, <1>5, <1>6, <1>7, <1>11

\* A failed mint leaves everything where it is, what was burnt under way.
LEMMA ExecuteFailsKeeps ==
    ASSUME IInv, NEW t \in deposits, ExecuteFails(t)
    PROVE  IInv'
<1> USE DEF IInv
<1>1. /\ executed' = executed \cup {t}
      /\ UNCHANGED <<now, limits, pairs, balance, underlying, locked, deposits, minted>>
  BY DEF ExecuteFails
<1>2. TypeOK'
  BY <1>1 DEF TypeOK
<1>3. AdapterLimitsKept' /\ Numbered' /\ Addressed'
  BY <1>1, MessagesKept DEF AdapterLimitsKept
<1>4. Backed'
  BY <1>1, MessagesKept, BackedNextMeans DEF Backed
<1> QED
  BY <1>2, <1>3, <1>4

LEMMA SetTokenPairAddressKeeps ==
    ASSUME IInv, NEW p \in Pairings, SetTokenPairAddress(p[1], p[2], p[3], p[4])
    PROVE  IInv'
<1> USE DEF IInv
<1>1. /\ p[1] \in Domains /\ p[2] \in Addresses /\ p[3] \in Domains
      /\ p[4] \in Addresses \cup {Zero} /\ p = <<p[1], p[2], p[3], p[4]>>
  BY GmpAssumption
<1>2. /\ pairs' = [pairs EXCEPT ![p[1]][p[2]][p[3]] = p[4]]
      /\ UNCHANGED <<now, limits, balance, underlying, locked, deposits, executed, minted>>
  BY DEF SetTokenPairAddress
<1>3. TypeOK'
  <2>1. pairs' \in [Domains -> [Addresses -> [Domains -> Addresses \cup {Zero}]]]
    BY <1>1, <1>2 DEF TypeOK
  <2> QED
    BY <1>2, <2>1 DEF TypeOK
<1>4. AdapterLimitsKept' /\ Numbered'
  BY <1>2 DEF AdapterLimitsKept, Numbered, DepositCount
<1>5. Addressed'
  <2>1. ASSUME NEW d \in Domains, NEW e \in Domains, NEW a \in Addresses,
               pairs'[d][a][e] # Zero
        PROVE  <<d, a, e, pairs'[d][a][e]>> \in Pairings
    <3>1. CASE d = p[1] /\ a = p[2] /\ e = p[3]
      <4>1. pairs'[d][a][e] = p[4]
        BY <1>2, <3>1 DEF TypeOK
      <4> QED
        BY <1>1, <3>1, <4>1
    <3>2. CASE ~ (d = p[1] /\ a = p[2] /\ e = p[3])
      <4>1. pairs'[d][a][e] = pairs[d][a][e]
        BY <1>1, <1>2, <3>2 DEF TypeOK
      <4> QED
        BY <2>1, <4>1 DEF Addressed
    <3> QED
      BY <3>1, <3>2
  <2> QED
    BY <1>2, <2>1 DEF Addressed
<1>6. Backed'
  BY <1>2 DEF Backed, Genuine, Impostors
<1> QED
  BY <1>3, <1>4, <1>5, <1>6

LEMMA SetLimitsKeeps ==
    ASSUME IInv, NEW d \in Domains, NEW m \in NewLimits, NEW n \in NewLimits,
           SetLimits(d, m, n)
    PROVE  IInv'
<1> USE DEF IInv
<1> DEFINE km == AfterChange(limits[d]["mint"], now, m)
           kb == AfterChange(limits[d]["burn"], now, n)
<1>1. now \in Nat /\ limits \in [Domains -> [Sides -> Limit]] /\ m \in Nat /\ n \in Nat
  BY GmpAssumption DEF TypeOK
<1>2. /\ limits' = [limits EXCEPT ![d]["mint"] = km, ![d]["burn"] = kb]
      /\ UNCHANGED <<now, pairs, balance, underlying, locked, deposits, executed, minted>>
  BY <1>1 DEF SetLimits, Sides
<1>3. LimitKept(km, now) /\ LimitKept(kb, now)
  <2>1. LimitKept(limits[d]["mint"], now) /\ LimitKept(limits[d]["burn"], now)
    BY DEF AdapterLimitsKept, Sides
  <2> QED
    BY <1>1, <2>1, ChangeKeepsLimit
<1> HIDE DEF km, kb
<1>4. km \in Limit /\ kb \in Limit
  BY <1>3 DEF LimitKept
<1>5. limits' \in [Domains -> [Sides -> Limit]]
  BY <1>1, <1>2, <1>4 DEF Sides
<1>6. ASSUME NEW e \in Domains, NEW r \in Sides PROVE LimitKept(limits'[e][r], now)
  <2>1. LimitKept(limits[e][r], now)
    BY DEF AdapterLimitsKept
  <2>2. limits'[e][r] = IF e # d THEN limits[e][r] ELSE IF r = "mint" THEN km ELSE kb
    BY <1>1, <1>2 DEF Sides
  <2> QED
    BY <1>3, <2>1, <2>2
<1>7. TypeOK'
  BY <1>2, <1>5 DEF TypeOK
<1>8. AdapterLimitsKept'
  BY <1>2, <1>6 DEF AdapterLimitsKept
<1>9. Numbered' /\ Addressed' /\ Backed'
  BY <1>2, MessagesKept, BackedNextMeans DEF Backed
<1> QED
  BY <1>7, <1>8, <1>9

LEMMA TickKeeps ==
    ASSUME IInv, Tick
    PROVE  IInv'
<1> USE DEF IInv
<1>1. /\ now < MaxTime /\ now' = now + 1
      /\ UNCHANGED <<limits, pairs, balance, underlying, locked, deposits, executed, minted>>
  BY DEF Tick
<1>2. now \in Nat /\ now' \in 0 .. MaxTime
  BY <1>1, GmpAssumption DEF TypeOK
<1>3. TypeOK'
  BY <1>1, <1>2 DEF TypeOK
<1>4. ASSUME NEW d \in Domains, NEW s \in Sides PROVE LimitKept(limits'[d][s], now')
  <2>1. LimitKept(limits[d][s], now)
    BY DEF AdapterLimitsKept
  <2>2. limits[d][s].timestamp \in Nat
    BY <2>1 DEF LimitKept, Limit
  <2> QED
    BY <1>1, <1>2, <2>1, <2>2 DEF LimitKept
<1>5. AdapterLimitsKept'
  BY <1>4 DEF AdapterLimitsKept
<1>6. Numbered' /\ Addressed' /\ Backed'
  BY <1>1, MessagesKept, BackedNextMeans DEF Backed
<1> QED
  BY <1>3, <1>5, <1>6

LEMMA InitInv ==
    ASSUME Init
    PROVE  IInv
<1>1. TypeOK
  <2>1. [d \in Domains |-> [s \in Sides |-> Unset]] \in [Domains -> [Sides -> Limit]]
    BY DEF Unset, Limit
  <2>2. [d \in Domains |-> [u \in Users |-> IF d \in Homes THEN Underlying ELSE 0]]
            \in [Domains -> [Users -> Nat]]
    BY GmpAssumption
  <2>3. 0 \in 0 .. MaxTime
    BY GmpAssumption
  <2> QED
    BY <2>1, <2>2, <2>3 DEF Init, TypeOK
<1>2. AdapterLimitsKept
  BY DEF Init, AdapterLimitsKept, LimitKept, Unset, Limit
<1>3. Numbered
  BY FS_EmptySet DEF Init, Numbered
<1>4. Backed
  <2>1. \A f, S : IsFiniteSet(S) /\ (\A x \in S : f[x] = 0) => SumFunctionOnSet(f, S) = 0
    <3> SUFFICES ASSUME NEW f, NEW S, IsFiniteSet(S), \A x \in S : f[x] = 0
                 PROVE  SumFunctionOnSet(f, S) = 0
      OBVIOUS
    <3>1. SumFunctionOnSet(f, S) = 0 * Cardinality(S)
      BY SumConstant
    <3> QED
      BY <3>1, FS_CardinalityType
  <2> DEFINE F == [d \in Domains |-> SumFunctionOnSet(balance[d], Users)]
             z == [u \in Users |-> 0]
  <2>2. \A d \in Domains : balance[d] = z
    BY DEF Init
  <2>3. SumFunctionOnSet(z, Users) = 0
    BY <2>1, GmpAssumption
  <2>4. \A d \in Domains : F[d] = 0
    BY <2>2, <2>3
  <2>5. Total(balance) = SumFunctionOnSet(F, Domains)
    BY DEF Total, SumFunction
  <2> HIDE DEF F, z
  <2>6. Total(balance) = 0
    BY <2>1, <2>4, <2>5, GmpAssumption
  <2>7. DOMAIN locked = Domains /\ \A d \in Domains : locked[d] = 0
    BY DEF Init
  <2>8. SumFunction(locked) = 0
    BY <2>1, <2>7, GmpAssumption DEF SumFunction
  <2>9. Value(Genuine \ minted) = 0 /\ Value(Impostors \cap minted) = 0
    <3>1. Genuine \ minted = {} /\ Impostors \cap minted = {}
      BY DEF Init, Genuine
    <3>2. Value({}) = 0
      BY SumEmpty DEF Value, SumFunction
    <3> QED
      BY <3>1, <3>2
  <2> QED
    BY <2>6, <2>8, <2>9 DEF Backed
<1>5. Addressed
  BY DEF Init, Addressed
<1> QED
  BY <1>1, <1>2, <1>3, <1>4, <1>5 DEF IInv

LEMMA NextInv ==
    ASSUME IInv, [Next]_vars
    PROVE  IInv'
<1>1. CASE UNCHANGED vars
  <2>1. TypeOK' /\ AdapterLimitsKept'
    BY <1>1 DEF vars, IInv, TypeOK, AdapterLimitsKept
  <2>2. Numbered' /\ Addressed' /\ Backed'
    BY <1>1, MessagesKept, BackedNextMeans DEF vars, IInv, Backed
  <2> QED
    BY <2>1, <2>2 DEF IInv
<1>2. ASSUME NEW d \in Domains, NEW u \in Users, NEW to \in Users, NEW n \in Amounts,
             LockboxDeposit(d, u, to, n) \/ LockboxWithdraw(d, u, to, n)
      PROVE  IInv'
  BY <1>2, LockboxDepositKeeps, LockboxWithdrawKeeps
<1>3. ASSUME NEW d \in Domains, NEW dest \in Domains, NEW u \in Users, NEW to \in Users,
             NEW a \in Addresses, NEW n \in Amounts, Deposit(d, u, a, dest, to, n)
      PROVE  IInv'
  BY <1>3, DepositKeeps
<1>4. ASSUME NEW d \in Domains, NEW dest \in Domains, NEW u \in Users,
             NEW a \in Users \cup {Adapter}, NEW token \in Addresses, NEW n \in Amounts,
             DepositMessage(d, u, dest, a, token, n)
      PROVE  IInv'
  BY <1>4, DepositMessageKeeps
<1>5. ASSUME NEW t \in deposits, ExecuteMints(t) \/ ExecuteFails(t)
      PROVE  IInv'
  BY <1>5, ExecuteMintsKeeps, ExecuteFailsKeeps
<1>6. ASSUME NEW p \in Pairings, SetTokenPairAddress(p[1], p[2], p[3], p[4])
      PROVE  IInv'
  BY <1>6, SetTokenPairAddressKeeps
<1>7. ASSUME NEW d \in Domains, NEW m \in NewLimits, NEW n \in NewLimits, SetLimits(d, m, n)
      PROVE  IInv'
  BY <1>7, SetLimitsKeeps
<1>8. CASE Tick
  BY <1>8, TickKeeps
<1> QED
  BY <1>1, <1>2, <1>3, <1>4, <1>5, <1>6, <1>7, <1>8 DEF Next

-----------------------------------------------------------------------------
\* The token, its lockboxes, the adapters' limits and messages have their types
\* (XERC20Lockbox.sol, XERC20.sol, GmpTransferAdapter.sol, GmpHandler.sol).
THEOREM TypeCorrect == Spec => []TypeOK
<1>1. IInv => TypeOK
  BY DEF IInv
<1> QED
  BY <1>1, InitInv, NextInv, PTL DEF Spec

\* On any number of domains, whatever contracts the adapter is made to burn, the
\* messages users make up themselves, the pairings, limits and failed mints: every
\* token in existence or under way has one locked for it, but for what is minted
\* when a contract was burnt that stands where the token does at the destination,
\* or that an admin paired with it (GmpTransferAdapter.sol: deposit burns what
\* executeProposal mints; GmpHandler.sol's deposit checks who calls).
THEOREM BalancesBacked == Spec => []Backed
<1>1. IInv => Backed
  BY DEF IInv
<1> QED
  BY <1>1, InitInv, NextInv, PTL DEF Spec

\* Nobody else has a contract where the token stands on any domain, and the admins
\* pair nothing but the token.
NoImpostors ==
    /\ \A c \in Counterfeits : c[2] \notin Tokens
    /\ \A p \in Pairings : p[2] = TokenOf[p[1]]

\* Every token in existence, on any domain, under way, or lost by a failed mint is
\* backed by exactly one token in a lockbox.
FullyBacked == Total(balance) + Value(Genuine \ minted) = SumFunction(locked)

\* Where that is so, as GmpTransferAdapter.sol asks for, every token is backed,
\* whatever contracts the adapter is made to burn.
THEOREM FullyBackedWithoutImpostors ==
    ASSUME NoImpostors
    PROVE  Spec => []FullyBacked
<1>1. IInv => FullyBacked
  <2> SUFFICES ASSUME IInv PROVE FullyBacked
    OBVIOUS
  <2>1. Impostors \cap minted = {}
    <3> SUFFICES ASSUME NEW t \in Impostors PROVE FALSE
      OBVIOUS
    <3>1. /\ t.origin \in Domains /\ t.dest \in Domains /\ <<t.origin, t.source>> \in Counterfeits
          /\ t.token = TokenOf[t.dest]
          /\ t.source = t.token \/ <<t.origin, t.source, t.dest, t.token>> \in Pairings
      BY DEF IInv, TypeOK, Message, Impostors, IsImpostor
    <3>2. t.source \notin Tokens /\ t.source # TokenOf[t.origin]
      BY <3>1, GmpAssumption DEF NoImpostors
    <3>3. t.source = t.token
      BY <3>1, <3>2 DEF NoImpostors
    <3> QED
      BY <3>1, <3>2, <3>3 DEF Tokens
  <2>2. Value({}) = 0
    BY SumEmpty DEF Value, SumFunction
  <2>3. SumFunction(locked) \in Nat
    BY Quantities DEF IInv
  <2>4. Value(Impostors \cap minted) = 0
    BY <2>1, <2>2
  <2> QED
    BY <2>3, <2>4 DEF IInv, Backed, FullyBacked
<1> QED
  BY <1>1, InitInv, NextInv, PTL DEF Spec
=============================================================================
