\* Two domains, two handlers each, the admin upgrading and withdrawing; relayers resubmit.
SPECIFICATION FairSpec
CONSTANTS
    h1 = h1
    h2 = h2
    alice = alice
    Domains = {1, 2}
    Handlers = {h1, h2}
    Unmapped = unmapped
    Users = {alice}
    Receiver = receiver
    Zero = zero
    Burnable = {2}
    Decimals <- MCDecimals
    DefaultDecimals = 1
    MaxDecimals = 2
    Base = 2
    Minted <- MCMinted
    Amounts = {1, 4}
    Recipients = {alice, zero}
    Messages = {"absent", "valid", "invalid"}
    Upgrades <- AllUpgraded
    WithdrawTo = {h2, alice}
    MaxNonce = 1
INVARIANTS
    TypeOK
    NoValueCreated
    LosesOnlyDust
PROPERTIES
    BridgesKeepLedgers
    EventuallyPaid
