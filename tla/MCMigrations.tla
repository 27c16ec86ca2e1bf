---------------------------- MODULE MCMigrations ----------------------------
(* Configurations to migrate, for TLC. *)
EXTENDS Migrations, TLC

CONSTANTS deployer, mpc, admin, owner, none

MCRoutes == {<<2, "mb">>, <<2, "lr">>, <<3, "lr">>, <<2, "gmp">>}

MCOnlyAllowed == {"adminPauseTransfers", "adminUnpauseTransfers", "adminSetResource",
    "adminSetBurnable", "adminSetDepositNonce", "adminSetForwarder",
    "adminChangeAccessControl", "adminChangeFeeHandler", "adminWithdraw",
    "startKeygen", "endKeygen", "refreshKey", "retry"}

MCMethods == MCOnlyAllowed \cup {"deposit", "executeProposal", "executeProposals"}

\* In Bridge.sol no signature includes the name of another guarded function.
MCIncludes == {<<m, m>> : m \in MCMethods} \cup {<<"executeProposals", "executeProposal">>}

\* A token of the network that is older than the bridge.
Existing == Address("lr", 1)

MCExistingTokens == Existing :> NewToken

Token(resource, address) == [resourceID |-> resource, address |-> address]

Erc20(resource, address, strategy) ==
    [resourceID |-> resource, address |-> address, strategy |-> strategy]

Fee(type, domain, resource, amount) ==
    [type |-> type, route |-> <<domain, resource>>, feeAmount |-> amount]

Grant(function, account) == [function |-> function, account |-> account]

\* Every script has something to do.  grantAccess is given away last, as in
\* mainnet.json.
MCNetwork == [
    name |-> "test",
    MPCAddress |-> mpc,
    erc20 |-> <<Erc20("mb", none, "mb"), Erc20("lr", Existing, "lr")>>,
    erc721 |-> <<Token("nft", none)>>,
    erc1155 |-> <<Token("multi", none)>>,
    xc20 |-> none,
    gmp |-> "gmp",
    fee |-> <<Fee("basic", 2, "mb", 1), Fee("percentage", 2, "lr", 2),
              Fee("basic", 3, "lr", 1), Fee("basic", 2, "gmp", 1)>>,
    access |-> [
        feeHandlerAdmin |-> owner,
        feeRouterAdmin |-> admin,
        defaultMessageReceiverAdmin |-> admin,
        accessControl |-> <<Grant("adminSetResource", admin), Grant("adminPauseTransfers", owner),
                            Grant("grantAccess", admin)>>]]
=============================================================================
