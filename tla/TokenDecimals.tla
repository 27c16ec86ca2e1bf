--------------------------- MODULE TokenDecimals ---------------------------
(***************************************************************************)
(* Conversion between the decimals of a domain's token or coin and those   *)
(* of the proposals (src/contracts/handlers/ERCHandlerHelpers.sol).  A     *)
(* token registered without decimals counts as one of DefaultDecimals.     *)
(***************************************************************************)
EXTENDS Integers

CONSTANTS
    Domains,
    Decimals,         \* Decimals[d]: the decimals of d's token
    DefaultDecimals,  \* the decimals of amounts in proposals (18)
    MaxDecimals,      \* the finest of all these decimals
    Base              \* what one decimal is worth (10)

ASSUME DecimalsAssumption ==
    /\ Base \in Nat \ {0}
    /\ MaxDecimals \in Nat
    /\ Decimals \in [Domains -> 0 .. MaxDecimals]
    /\ DefaultDecimals \in 0 .. MaxDecimals

\* 10 ** n.
Worth[n \in 0 .. MaxDecimals] == IF n = 0 THEN 1 ELSE Base * Worth[n - 1]

\* Faulty variant of ConvertToInternal: rounds up.
RoundUpToInternal(d, amount) ==
    IF Decimals[d] >= DefaultDecimals
    THEN LET u == Worth[Decimals[d] - DefaultDecimals]
         IN  (amount + u - 1) \div u
    ELSE amount * Worth[DefaultDecimals - Decimals[d]]

ConvertToInternal(d, amount) ==
    IF Decimals[d] >= DefaultDecimals
    THEN amount \div Worth[Decimals[d] - DefaultDecimals]
    ELSE amount * Worth[DefaultDecimals - Decimals[d]]

\* Faulty variant of ConvertToExternal: the token's decimals are ignored.
UnconvertedExternal(d, amount) == amount

ConvertToExternal(d, amount) ==
    IF Decimals[d] >= DefaultDecimals
    THEN amount * Worth[Decimals[d] - DefaultDecimals]
    ELSE amount \div Worth[DefaultDecimals - Decimals[d]]

\* What one unit of d's token, and of an amount in a proposal, is worth in units
\* of MaxDecimals.
Unit(d) == Worth[MaxDecimals - Decimals[d]]

ProposalUnit == Worth[MaxDecimals - DefaultDecimals]
=============================================================================
