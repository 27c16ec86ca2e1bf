\* A day of three seconds; limits that are and are not a multiple of it.
SPECIFICATION XSpec
CONSTANTS
    adapter = adapter
    none = none
    Duration = 3
    Bridges = {adapter}
    NoLockbox = none
    Maxima = {0, 2, 4}
    MaxUint = 9
    Draws = {0, 1, 3}
    LastSecond = 5
    MaxAllowed = 18
    Watched <- WatchMint
INVARIANT XTypeOK
INVARIANT UsageBounded
INVARIANT ReplenishesInTime
INVARIANT LimitsKept
