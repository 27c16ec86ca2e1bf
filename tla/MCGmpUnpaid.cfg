\* The same instance: has an executed transfer paid its recipient?
SPECIFICATION Spec
CONSTANTS
    d1 = d1
    d2 = d2
    alice = alice
    adapter = adapter
    zero = zero
    x1 = x1
    x2 = x2
    y = y
    Duration = 1
    Domains = {d1, d2}
    Users = {alice}
    Adapter = adapter
    Zero = zero
    TokenOf <- MCTokenOf
    Counterfeits <- MCCounterfeits
    Homes = {d1}
    Underlying = 2
    Amounts = {1}
    Pairings <- MCPairings
    NewLimits = {1}
    MaxNonce = 2
    MaxTime = 1
INVARIANT ExecutedTransfersArePaid
