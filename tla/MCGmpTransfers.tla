--------------------------- MODULE MCGmpTransfers ---------------------------
(* Small instances of GmpTransfers for TLC. *)
EXTENDS GmpTransfers, TLC

CONSTANTS d1, d2, alice, adapter, zero, x1, x2, y

MCTokenOf == (d1 :> x1) @@ (d2 :> x2)

\* On d1 a contract stands where the token stands on d2; y is an address of its own.
MCCounterfeits == {<<d1, x2>>, <<d1, y>>}

\* The token's admins pair the token only.
MCPairings == {<<d1, x1, d2, x2>>, <<d2, x2, d1, x1>>}
=============================================================================
