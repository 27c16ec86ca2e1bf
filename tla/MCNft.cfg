\* A token goes to and fro between two domains that lock or mint it.
SPECIFICATION FairSpec
CONSTANTS
    h1 = h1
    h2 = h2
    alice = alice
    none = none
    x = x
    Domains = {1, 2}
    Handlers = {h1, h2}
    Unmapped = unmapped
    Users = {alice}
    Zero = zero
    Nobody = none
    TokenIDs = {x}
    Burnable = {1, 2}
    FirstOwner <- MCFirstOwner
    FirstURI <- MCFirstURI
    BaseURI <- MCBaseURI
    Recipients = {alice, zero}
    Upgrades <- MCUpgrades
    WithdrawTo = {h2, alice}
    MaxNonce = 2
INVARIANTS
    TypeOK
    OneOwner
    MetadataKept
PROPERTY EventuallyDelivered
