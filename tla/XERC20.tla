------------------------------- MODULE XERC20 -------------------------------
(***************************************************************************)
(* The mint and burn limits of one XERC20 token in time                    *)
(* (src/contracts/XERC20/XERC20.sol, XERC20Factory.sol).  Bridges draw on  *)
(* their limits while the owner changes them.  The balances, and the       *)
(* lockbox as their backing, are in GmpTransfers.  No name is shared with  *)
(* that module, so that one module proves theorems about both.             *)
(*                                                                         *)
(* One limit, of any side and bridge, is watched: `watch` is an observer   *)
(* that starts anew at any moment.                                         *)
(***************************************************************************)
EXTENDS TransferLimits

CONSTANTS
    Bridges,    \* callers of mint and burn, a lockbox among them
    NoLockbox,  \* address(0)
    Maxima,     \* the maxima the owner sets
    MaxUint,    \* the largest uint256
    Draws,      \* the amounts minted and burned
    LastSecond, \* bound: the last second
    MaxAllowed, \* bound: a raise must not take watch.allowed beyond
    Watched     \* the watched limit: <<side, bridge>>

ASSUME LimitAssumption ==
    /\ Maxima \subseteq Nat
    /\ MaxUint \in Nat
    /\ Draws \subseteq Nat
    /\ LastSecond \in Nat
    /\ MaxAllowed \in Nat
    /\ Watched \in Sides \X Bridges
    /\ NoLockbox \notin Bridges

VARIABLES
    blockTime,  \* block.timestamp
    bridges,    \* bridges[side][bridge]: the bridge's limit
    lockbox,    \* the caller without limits
    watch       \* what was drawn on the watched limit, what its maximum allows,
                \* and when it was last drawn on or changed

xvars == <<blockTime, bridges, lockbox, watch>>

XTypeOK ==
    /\ blockTime \in 0 .. LastSecond
    /\ bridges \in [Sides -> [Bridges -> Limit]]
    /\ lockbox \in Bridges \cup {NoLockbox}
    /\ watch \in [drawn : Nat, allowed : Nat, since : Nat]

XInit ==
    /\ blockTime = 0
    /\ bridges = [s \in Sides |-> [b \in Bridges |-> Unset]]
    /\ lockbox = NoLockbox
    /\ watch = [drawn |-> 0, allowed |-> 0, since |-> 0]

WatchedLimit == bridges[Watched[1]][Watched[2]]

-----------------------------------------------------------------------------
\* _mintWithCaller and _burnWithCaller; a mint or burn by the lockbox leaves
\* the limits alone.
Use(side, caller, amount) ==
    /\ caller # lockbox
    /\ amount <= CurrentLimit(bridges[side][caller], blockTime)
    /\ bridges' = [bridges EXCEPT ![side][caller] = AfterUse(@, blockTime, amount)]
    /\ watch' = IF <<side, caller>> = Watched
                THEN [watch EXCEPT !.drawn = @ + amount,
                                   !.since = IF amount > 0 THEN blockTime ELSE @]
                ELSE watch
    /\ UNCHANGED <<blockTime, lockbox>>

Mint(caller, amount) == Use("mint", caller, amount)

Burn(caller, amount) == Use("burn", caller, amount)

\* The owner's setLimits, and the factory's on deployment.
SetBridgeLimits(bridge, mintingLimit, burningLimit) ==
    LET newMax == [s \in Sides |-> IF s = "mint" THEN mintingLimit ELSE burningLimit]
        raise == newMax[Watched[1]] - WatchedLimit.maxLimit
    IN  /\ \A s \in Sides : newMax[s] <= MaxUint \div 2
        /\ bridge = Watched[2] => watch.allowed + raise * Duration <= MaxAllowed
        /\ bridges' = [s \in Sides |->
               [bridges[s] EXCEPT ![bridge] = AfterChange(@, blockTime, newMax[s])]]
        /\ watch' = IF bridge # Watched[2] THEN watch
                    ELSE [watch EXCEPT
                             !.allowed = IF raise > 0 THEN @ + raise * Duration ELSE @,
                             !.since = blockTime]
        /\ UNCHANGED <<blockTime, lockbox>>

\* The factory deploys at most one lockbox for a token.
DeployLockbox(box) ==
    /\ lockbox = NoLockbox
    /\ lockbox' = box
    /\ UNCHANGED <<blockTime, bridges, watch>>

-----------------------------------------------------------------------------
SecondPasses ==
    /\ blockTime < LastSecond
    /\ blockTime' = blockTime + 1
    /\ watch' = [watch EXCEPT !.allowed = @ + WatchedLimit.maxLimit]
    /\ UNCHANGED <<bridges, lockbox>>

\* The observer starts anew, allowing one whole maximum at once.
Watch ==
    /\ watch' = [watch EXCEPT !.drawn = 0, !.allowed = WatchedLimit.maxLimit * Duration]
    /\ UNCHANGED <<blockTime, bridges, lockbox>>

XNext ==
    \/ \E b \in Bridges, n \in Draws : Mint(b, n) \/ Burn(b, n)
    \/ \E b \in Bridges, m, n \in Maxima : SetBridgeLimits(b, m, n)
    \/ \E b \in Bridges : DeployLockbox(b)
    \/ SecondPasses
    \/ Watch

XSpec == XInit /\ [][XNext]_xvars

-----------------------------------------------------------------------------
(* Properties *)

\* From any moment on, a bridge draws no more than one maximum, plus what refills
\* over a Duration for every maximum in force (so at most two maxima in any span
\* of one Duration), plus what the owner raised: whatever the order of uses,
\* changes and idle days, which refill at once.
UsageBounded == watch.drawn * Duration <= watch.allowed

\* "The duration it takes for the limits to fully replenish" (XERC20.sol): a
\* Duration after tokens were last drawn or the limit changed, the limit is full
\* again, but for less than one unit a second that ratePerSecond rounds away each
\* time an empty draw restarts the clock.
ReplenishesInTime ==
    blockTime - watch.since >= Duration =>
        WatchedLimit.maxLimit - CurrentLimit(WatchedLimit, blockTime) < Duration

\* The inductive invariant behind UsageBounded.  Level is Duration times the
\* limit of an exact token bucket that stood at currentLimit at timestamp.
Level(limit, time) ==
    LET full == limit.maxLimit * Duration
        refilled == limit.currentLimit * Duration
                        + limit.maxLimit * (time - limit.timestamp)
    IN  IF refilled > full THEN full ELSE refilled

LimitOK(limit, time) ==
    /\ limit.currentLimit <= limit.maxLimit
    /\ limit.ratePerSecond * Duration <= limit.maxLimit
    /\ limit.timestamp <= time

\* No limit is above its maximum or refills faster than it, and what was drawn
\* on the watched one leaves room for all that may still be drawn.
LimitsKept ==
    /\ \A s \in Sides, b \in Bridges : LimitOK(bridges[s][b], blockTime)
    /\ watch.drawn * Duration + Level(WatchedLimit, blockTime) <= watch.allowed
=============================================================================
