--------------------------- MODULE TransferLimits ---------------------------
(***************************************************************************)
(* The arithmetic of a limit in XERC20 (src/contracts/XERC20/XERC20.sol):  *)
(* what a bridge may mint, or burn, refills with time up to a maximum.     *)
(* A limit is a record [maxLimit, currentLimit, timestamp, ratePerSecond]; *)
(* currentLimit is the value at the last use or change, at timestamp.      *)
(***************************************************************************)
EXTENDS Integers

CONSTANT Duration  \* _DURATION: the seconds of a day

ASSUME DurationAssumption == Duration \in Nat \ {0}

\* A bridge has a limit for minting and one for burning.
Sides == {"mint", "burn"}

Limit == [maxLimit : Nat, currentLimit : Nat, timestamp : Nat, ratePerSecond : Nat]

Unset == [maxLimit |-> 0, currentLimit |-> 0, timestamp |-> 0, ratePerSecond |-> 0]

CurrentLimit(limit, now) ==
    LET refilled == limit.currentLimit
                        + (now - limit.timestamp) * limit.ratePerSecond
    IN  IF \/ limit.currentLimit = limit.maxLimit
           \/ limit.timestamp + Duration <= now
           \/ refilled > limit.maxLimit
        THEN limit.maxLimit
        ELSE refilled

\* Faulty variant of AfterUse: the clock is not restarted.
AfterUseSameClock(limit, now, change) ==
    [limit EXCEPT !.currentLimit = CurrentLimit(limit, now) - change]

AfterUse(limit, now, change) ==
    [limit EXCEPT !.currentLimit = CurrentLimit(limit, now) - change,
                  !.timestamp = now]

\* Faulty variant of NewCurrentLimit: goes below 0.
NewCurrentLimitBelow(newMax, oldMax, current) == current + (newMax - oldMax)

\* The current limit moves with the maximum, but not below 0.
NewCurrentLimit(newMax, oldMax, current) ==
    IF newMax >= oldMax THEN current + (newMax - oldMax)
    ELSE IF current > oldMax - newMax THEN current - (oldMax - newMax)
    ELSE 0

\* Faulty variant of AfterChange: the rate of the old maximum stays.
AfterChangeSameRate(limit, now, newMax) ==
    [limit EXCEPT
        !.maxLimit = newMax,
        !.currentLimit = NewCurrentLimit(newMax, limit.maxLimit, CurrentLimit(limit, now)),
        !.timestamp = now]

AfterChange(limit, now, newMax) ==
    [maxLimit |-> newMax,
     currentLimit |-> NewCurrentLimit(newMax, limit.maxLimit, CurrentLimit(limit, now)),
     timestamp |-> now,
     ratePerSecond |-> newMax \div Duration]
=============================================================================
