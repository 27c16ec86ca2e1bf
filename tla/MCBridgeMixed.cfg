\* Executions, deposits and nonce jumps within each other, against the abstract ledger.
SPECIFICATION Spec
CONSTANTS
    r1 = r1
    r2 = r2
    h1 = h1
    h2 = h2
    f1 = f1
    mpc = mpc
    other = other
    zero = zero
    DomainID = 1
    Domains <- MCDomains
    Resources = {r1, r2}
    Handlers = {h1}
    FeeHandlers = {f1}
    Accounts = {mpc}
    Zero = zero
    Proposals <- FewProposals
    Signed <- FewSigned
    Requests <- MCRequests
    NonceJumps = {2}
    MaxDepositNonce = 2
    MaxDepth = 2
INVARIANT TransactionsOnlyAdd
INVARIANT DepositNoncesAccounted
PROPERTY RefinesLedger
