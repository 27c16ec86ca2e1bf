-------------------------- MODULE MigrationScripts --------------------------
(***************************************************************************)
(* The migration scripts (src/migrations/*.js): for the network they are   *)
(* run on, the sequence of transactions each sends, one after the other is *)
(* confirmed.  A script reads the chain c and the artifacts, the addresses *)
(* earlier migrations have saved; an address it deploys itself is the next *)
(* one of its kind.  Where a script throws, the sequence has Throw.        *)
(***************************************************************************)
EXTENDS DeployedContracts, Sequences, SequencesExt

CONSTANTS
    Network,               \* the network's entry in the configuration file
    Methods,               \* the Bridge's documented functions
    OnlyAllowed,           \* names of its functions with that modifier
    Includes,              \* pairs of a function and a name its signature includes
    RedeployTokenHandlers, \* the flag --redeploy-token-handlers
    DeployFrostKeygen      \* the flag --deploy-frost-keygen

\* Not a transaction: the script stops there with an exception.
Throw == [tx |-> "throw"]

Concat(scripts) == FlattenSeq(scripts)

\* for (const x of list) ..., where the entry may be missing or no list.
ForEach(list, Do(_)) ==
    IF list = None THEN <<Throw>> ELSE Concat([i \in DOMAIN list |-> Do(list[i])])

When(condition, script) == IF condition THEN script ELSE <<>>

\* A script that starts with `await Contract.deployed()`, which throws unless the
\* artifacts have an address.  Later scripts start with it as well, but come after
\* the one of migration 5.
WithDeployed(d, kinds, script) ==
    IF \E k \in kinds : d[k] = None THEN <<Throw>> ELSE script

\* The names between "function" and "onlyAllowed" in Bridge.sol, then the
\* documented functions whose signature includes one of them.
GenerateAccessControlFuncSignatures ==
    {m \in Methods : \E name \in OnlyAllowed : <<m, name>> \in Includes}

-----------------------------------------------------------------------------
(* utils.js *)

\* The token a configuration names, or the one that is deployed for it.
TokenAddress(c, token) ==
    IF token.address = None THEN Fresh(c, token.resourceID) ELSE token.address

DeployToken(c, token) ==
    When(token.address = None, <<Deploy(TokenAddress(c, token), NewToken)>>)

\* Faulty variant of MakeBurnable: the handler may not mint.
MakeBurnableWithoutMinter(bridge, handler, token) ==
    <<AdminSetBurnable(bridge, handler, token)>>

MakeBurnable(bridge, handler, token) ==
    <<GrantMinter(token, handler), AdminSetBurnable(bridge, handler, token)>>

SetupErc20(c, erc20, bridge, handler) ==
    LET token == TokenAddress(c, erc20)
    IN DeployToken(c, erc20)
        \o <<AdminSetResource(bridge, handler, erc20.resourceID, token)>>
        \o When(erc20.strategy = "mb", MakeBurnable(bridge, handler, token))
        \o <<Mint(token, Deployer), Mint(token, handler)>>

\* Faulty variant of SetupNft: burnable before it has a handler.
SetupNftBurnableFirst(c, nft, bridge, handler) ==
    LET token == TokenAddress(c, nft)
    IN DeployToken(c, nft)
        \o MakeBurnable(bridge, handler, token)
        \o <<AdminSetResource(bridge, handler, nft.resourceID, token)>>

\* Non-fungible tokens have no strategy: they are minted and burnt.
SetupNft(c, nft, bridge, handler) ==
    LET token == TokenAddress(c, nft)
    IN DeployToken(c, nft)
        \o <<AdminSetResource(bridge, handler, nft.resourceID, token)>>
        \o MakeBurnable(bridge, handler, token)

SetupErc721(c, erc721, bridge, handler) == SetupNft(c, erc721, bridge, handler)

SetupErc1155(c, erc1155, bridge, handler) == SetupNft(c, erc1155, bridge, handler)

\* Faulty variant of MigrateToNewTokenHandler: not burnable again.
MigrateToLockingHandler(c, tokenConfig, bridge, old, new, receiver) ==
    <<AdminSetResource(bridge, new, tokenConfig.resourceID,
                       c[old].tokenOf[tokenConfig.resourceID])>>

\* The token is the one the old handler has for the resource.
MigrateToNewTokenHandler(c, tokenConfig, bridge, old, new, receiver) ==
    LET token == c[old].tokenOf[tokenConfig.resourceID]
    IN <<AdminSetResource(bridge, new, tokenConfig.resourceID, token)>>
        \o When(tokenConfig.strategy = "mb", MakeBurnable(bridge, new, token))
        \o When(receiver # None, <<GrantSygmaHandler(receiver, new)>>)

\* One new handler, deployed for the first of the tokens.
RedeployHandler(c, tokens, bridge, old, kind, receiver) ==
    LET new == Fresh(c, kind)
        Migrate(token) == MigrateToNewTokenHandler(c, token, bridge, old, new, receiver)
    IN When(tokens # <<>>, <<Deploy(new, NewHandler(bridge))>>) \o ForEach(tokens, Migrate)

-----------------------------------------------------------------------------
(* The migrations.  `d` are the artifacts: the deployed address of a kind. *)

\* The contract that keeps account of them; see Migrations.
InitialMigration(c, d) == <<Deploy(Fresh(c, "Migrations"), <<>>)>>

DeployContracts(c, d) ==
    LET access == Fresh(c, "AccessControlSegregator")
        bridge == Fresh(c, "Bridge")
        receiver == Fresh(c, "DefaultMessageReceiver")
        erc20Handler == Fresh(c, "ERC20Handler")
        erc721Handler == Fresh(c, "ERC721Handler")
        router == Fresh(c, "FeeHandlerRouter")
        Erc20(token) == SetupErc20(c, token, bridge, erc20Handler)
        Erc721(token) == SetupErc721(c, token, bridge, erc721Handler)
    IN <<Deploy(access, NewAccess(GenerateAccessControlFuncSignatures)),
         Deploy(Fresh(c, "Pausable"), <<>>),
         Deploy(bridge, NewBridge(access)),
         Deploy(receiver, NewReceiver),
         Deploy(erc20Handler, NewHandler(bridge)),
         Deploy(erc721Handler, NewHandler(bridge)),
         Deploy(router, NewRouter(bridge)),
         Deploy(Fresh(c, "BasicFeeHandler"), NewFeeHandler),
         Deploy(Fresh(c, "PercentageERC20FeeHandler"), NewFeeHandler),
         AdminChangeFeeHandler(bridge, router),
         GrantSygmaHandler(receiver, erc20Handler)>>
        \o ForEach(Network.erc20, Erc20)
        \o ForEach(Network.erc721, Erc721)
        \o When(Network.MPCAddress # None, <<EndKeygen(bridge, Network.MPCAddress)>>)

DeployGmpHandler(c, d) ==
    LET handler == Fresh(c, "GmpHandler")
    IN When(Network.gmp # None, WithDeployed(d, {"Bridge"},
        <<Deploy(handler, NewHandler(d["Bridge"])),
          AdminSetResource(d["Bridge"], handler, Network.gmp, d["Bridge"])>>))

\* The condition holds of every name: no XC20 handler is deployed anywhere.
DeployXC20Contracts(c, d) ==
    LET handler == Fresh(c, "XC20Handler")
        Xc20(token) == SetupErc20(c, token, d["Bridge"], handler)
    IN IF \/ Network.name # "astar"
          \/ Network.name # "shiden"
          \/ Network.name # "shibuya"
       THEN <<>>
       ELSE <<Deploy(handler, NewHandler(d["Bridge"]))>> \o ForEach(Network.xc20, Xc20)

DeployErc1155(c, d) ==
    LET handler == Fresh(c, "ERC1155Handler")
        Erc1155(token) == SetupErc1155(c, token, d["Bridge"], handler)
    IN WithDeployed(d, {"Bridge"},
        <<Deploy(handler, NewHandler(d["Bridge"]))>> \o ForEach(Network.erc1155, Erc1155))

\* A fee of another type is passed over.
RegisterRoutes(c, d) ==
    LET Register(fee, feeHandler) ==
            <<AdminSetResourceHandler(d["FeeHandlerRouter"], fee.route, feeHandler),
              ChangeFee(feeHandler, fee.route, fee.feeAmount)>>
        Fee(fee) ==
            When(fee.type = "basic", Register(fee, d["BasicFeeHandler"]))
                \o When(fee.type = "percentage", Register(fee, d["PercentageERC20FeeHandler"]))
    IN ForEach(Network.fee, Fee)

RedeployHandlers(c, d) ==
    When(RedeployTokenHandlers,
        RedeployHandler(c, Network.erc20, d["Bridge"], d["ERC20Handler"],
                        "ERC20Handler", d["DefaultMessageReceiver"])
        \o When(Network.xc20 # None /\ d["XC20Handler"] # None,
            RedeployHandler(c, Network.xc20, d["Bridge"], d["XC20Handler"],
                            "XC20Handler", None)))

\* Faulty variant of HandOver: the other way round.
HandOverRenouncing(contract, admin) == <<RenounceRole(contract), GrantAdmin(contract, admin)>>

\* Faulty variant of HandOver: keeps the role.
HandOverGranting(contract, admin) == <<GrantAdmin(contract, admin)>>

HandOver(contract, admin) == <<GrantAdmin(contract, admin), RenounceRole(contract)>>

RenounceAdmins(c, d) ==
    LET access == Network.access
        Grant(entry) ==
            <<GrantAccess(d["AccessControlSegregator"], entry.function, entry.account)>>
    IN IF access = None THEN <<>>
       ELSE When(access.feeHandlerAdmin # None,
                <<RenounceAdmin(d["BasicFeeHandler"], access.feeHandlerAdmin),
                  RenounceAdmin(d["PercentageERC20FeeHandler"], access.feeHandlerAdmin)>>)
            \o When(access.feeRouterAdmin # None,
                HandOver(d["FeeHandlerRouter"], access.feeRouterAdmin))
            \o When(access.defaultMessageReceiverAdmin # None,
                HandOver(d["DefaultMessageReceiver"], access.defaultMessageReceiverAdmin))
            \o ForEach(access.accessControl, Grant)

DeployFROSTKeygen(c, d) ==
    When(DeployFrostKeygen, <<Deploy(Fresh(c, "FROSTKeygen"), <<>>)>>)

DeployRetry(c, d) == <<Deploy(Fresh(c, "Retry"), <<>>)>>

\* Truffle runs them in the order of their numbers.
Migrations == 1..10

Script(m, c, d) ==
    CASE m = 1 -> InitialMigration(c, d)
      [] m = 2 -> DeployContracts(c, d)
      [] m = 3 -> DeployGmpHandler(c, d)
      [] m = 4 -> DeployXC20Contracts(c, d)
      [] m = 5 -> DeployErc1155(c, d)
      [] m = 6 -> RegisterRoutes(c, d)
      [] m = 7 -> RedeployHandlers(c, d)
      [] m = 8 -> RenounceAdmins(c, d)
      [] m = 9 -> DeployFROSTKeygen(c, d)
      [] m = 10 -> DeployRetry(c, d)
=============================================================================
