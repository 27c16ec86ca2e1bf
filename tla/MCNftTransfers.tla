--------------------------- MODULE MCNftTransfers ---------------------------
(* Two domains for TLC. *)
EXTENDS NftTransfers, TLC

CONSTANTS h1, h2, alice, none, x

MCFirstOwner == (1 :> (x :> alice)) @@ (2 :> (x :> none))

MCFirstURI == x :> <<"uri">>

\* Only the second domain's token contract has a base URI.
MCBaseURI == (1 :> <<>>) @@ (2 :> <<"base">>)

\* The second domain's handler is replaced, and back.
MCUpgrades == {<<1, h1>>, <<2, h1>>, <<2, h2>>}
=============================================================================
