\* Signed batches that name a resource without a handler.
SPECIFICATION Spec
CONSTANTS
    r1 = r1
    r2 = r2
    h1 = h1
    h2 = h2
    f1 = f1
    mpc = mpc
    other = other
    zero = zero
    DomainID = 1
    Domains <- MCDomains
    Resources = {r1, r2}
    Handlers = {h1}
    FeeHandlers = {}
    Accounts = {mpc, other}
    Zero = zero
    Proposals <- MCProposals
    Signed <- MCSigned
    Requests <- NoRequests
    NonceJumps = {}
    MaxDepositNonce = 0
    MaxDepth = 1
INVARIANT EveryProposalCanBeTried
