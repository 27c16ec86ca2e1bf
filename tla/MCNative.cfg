\* Two domains, coarser and finer than the proposals, with either kind of fee.
SPECIFICATION Spec
CONSTANTS
    h1 = h1
    h2 = h2
    alice = alice
    treasury = treasury
    adapter = adapter
    zero = zero
    Domains = {1, 2}
    Decimals <- MCDecimals
    DefaultDecimals = 1
    MaxDecimals = 2
    Base = 2
    Users = {alice}
    Handlers = {h1, h2}
    Unmapped = unmapped
    Adapter = adapter
    FeeHandler = feeHandler
    Receiver = receiver
    Zero = zero
    FeeKind <- MCFeeKind
    Fees = {1}
    Owned <- MCOwned
    Values = {1, 3}
    Recipients = {zero}
    Messages = {"valid", "invalid"}
    Upgrades <- MCUpgrades
    WithdrawTo = {h2, treasury}
    Treasury = treasury
    MaxNonce = 1
INVARIANT TypeOK
INVARIANT Funded
INVARIANT FeesAsQuoted
