\* Three messages, nested in each other, whose actions fail at any point.
SPECIFICATION Spec
CONSTANTS
    native = native
    t = t
    u = u
    self = self
    handler = handler
    outside = outside
    r1 = r1
    r2 = r2
    none = none
    Native = native
    Tokens = {t, u}
    Self = self
    Handler = handler
    Outside = outside
    Receivers = {r1, r2}
    NoToken = none
    Messages <- MCMessages
    RecoverGas = 1
    CallCost = 1
    ReturnCost = 1
    InitiallyOwned <- MCOwned
    MaxDepth = 3
INVARIANTS
    TypeOK
    RecoveredInFull
    NothingLeftBehind
    PaidForHandled
PROPERTY RecoversGivenGas
\* The messages may all have been handled, and nothing be left to send.
CHECK_DEADLOCK FALSE
