\* Every migration, stopped up to twice at any point, with token handlers redeployed.
SPECIFICATION FairSpec
CONSTANTS
    deployer = deployer
    mpc = mpc
    admin = admin
    owner = owner
    none = none
    Deployer = deployer
    None = none
    Resources = {"mb", "lr", "nft", "multi", "gmp"}
    Routes <- MCRoutes
    Network <- MCNetwork
    Methods <- MCMethods
    OnlyAllowed <- MCOnlyAllowed
    Includes <- MCIncludes
    RedeployTokenHandlers = TRUE
    DeployFrostKeygen = TRUE
    ExistingTokens <- MCExistingTokens
    MaxStops = 2
INVARIANTS
    MTypeOK
    OpenBridgesAreConfigured
    DepositsAsConfigured
    HandoverLosesNoRole
    HandedOver
PROPERTY CompletesUnlessIrrevocable
\* The migrations end.
CHECK_DEADLOCK FALSE
