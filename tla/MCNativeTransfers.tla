------------------------- MODULE MCNativeTransfers -------------------------
(* A small instance of NativeTransfers for TLC. *)
EXTENDS NativeTransfers, TLC

CONSTANTS h1, h2, alice, adapter, zero, treasury

MCDecimals == (1 :> 2) @@ (2 :> 1)

MCFeeKind == (1 :> "twap") @@ (2 :> "basic")

MCOwned == (1 :> 3) @@ (2 :> 1)

\* Domain 1 gets a second handler.
MCUpgrades == {<<1, h1>>, <<1, h2>>, <<2, h1>>}
=============================================================================
