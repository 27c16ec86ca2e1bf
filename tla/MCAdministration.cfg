\* Two forwarders, two access controls, requests nested two deep.
SPECIFICATION Spec
CONSTANTS
    alice = alice
    bob = bob
    zero = zero
    f1 = f1
    f2 = f2
    c1 = c1
    c2 = c2
    Accounts = {alice, bob}
    Zero = zero
    Forwarders = {f1, f2}
    Controls = {c1, c2}
    FirstControl = c1
    FirstAccess <- MCFirstAccess
    OtherFunctions = {"adminPauseTransfers"}
    Grants <- MCGrants
    Requests <- MCRequests
    MaxDepth = 2
INVARIANT TypeOK
INVARIANT RequestsRunOnce
INVARIANT EffectsWereAllowed
