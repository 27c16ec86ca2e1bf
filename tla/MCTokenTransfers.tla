-------------------------- MODULE MCTokenTransfers --------------------------
(* Small instances of TokenTransfers for TLC. *)
EXTENDS TokenTransfers, TLC

CONSTANTS h1, h2, alice

\* The token's home is domain 1; domain 2 mints and burns.
MCDecimals == (1 :> 2) @@ (2 :> 0)

MCMinted == (1 :> 5) @@ (2 :> 0)

AllUpgraded == {1, 2} \X {h1, h2}
=============================================================================
