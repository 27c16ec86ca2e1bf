------------------------- MODULE DeployedContracts -------------------------
(***************************************************************************)
(* The contracts of one network as its deployer's transactions see them:   *)
(* how each is when deployed, when a transaction reverts, and what it      *)
(* leaves behind.  A chain maps the address of every contract ever         *)
(* deployed to its storage; an address is a kind and a number.             *)
(*                                                                         *)
(* Only what the migrations (src/migrations) set is kept.  Transfers are   *)
(* in the other modules; minting merely asks who may mint.                 *)
(***************************************************************************)
EXTENDS Naturals, FiniteSets

CONSTANTS
    Deployer,  \* the account that runs the migrations
    None,      \* address(0), nobody, nothing
    Resources, \* resource IDs
    Routes     \* pairs of a destination domain and a resource ID

ASSUME DeployerAssumption == Deployer # None

Address(kind, n) == <<kind, n>>

NumberOf(c, kind) == Cardinality({a \in DOMAIN c : a[1] = kind})

\* The address the next contract of a kind gets.
Fresh(c, kind) == Address(kind, NumberOf(c, kind) + 1)

-----------------------------------------------------------------------------
(* Contracts as their constructors leave them. *)

NewAccess(functions) == [f \in functions \cup {"grantAccess"} |-> Deployer]

NewBridge(access) ==
    [access |-> access, feeHandler |-> None, mpc |-> None,
     handlerOf |-> [r \in Resources |-> None]]

\* Also the generic handler, whose setResource keeps nothing of this.  Which default
\* message receiver an ERC20Handler is constructed with is not kept: every script
\* passes the one it grants the handler's role.
NewHandler(bridge) ==
    [bridge |-> bridge, tokenOf |-> [r \in Resources |-> None], burnable |-> <<>>]

NewToken == [admins |-> {Deployer}, minters |-> {Deployer}]

NewReceiver == [admins |-> {Deployer}, handlers |-> {}]

NewRouter(bridge) ==
    [bridge |-> bridge, admins |-> {Deployer}, handlerOf |-> [r \in Routes |-> None]]

NewFeeHandler == [admins |-> {Deployer}, fee |-> [r \in Routes |-> 0]]

-----------------------------------------------------------------------------
(* Transactions of the deployer. *)

Deploy(address, contract) == [tx |-> "deploy", to |-> address, contract |-> contract]

AdminSetResource(bridge, handler, resource, contract) ==
    [tx |-> "adminSetResource", to |-> bridge, handler |-> handler,
     resource |-> resource, contract |-> contract]

AdminSetBurnable(bridge, handler, token) ==
    [tx |-> "adminSetBurnable", to |-> bridge, handler |-> handler, token |-> token]

AdminChangeFeeHandler(bridge, feeHandler) ==
    [tx |-> "adminChangeFeeHandler", to |-> bridge, feeHandler |-> feeHandler]

EndKeygen(bridge, mpc) == [tx |-> "endKeygen", to |-> bridge, mpc |-> mpc]

GrantMinter(token, handler) == [tx |-> "grantMinter", to |-> token, handler |-> handler]

Mint(token, account) == [tx |-> "mint", to |-> token, account |-> account]

GrantSygmaHandler(receiver, handler) ==
    [tx |-> "grantSygmaHandler", to |-> receiver, handler |-> handler]

AdminSetResourceHandler(router, route, feeHandler) ==
    [tx |-> "adminSetResourceHandler", to |-> router, route |-> route,
     feeHandler |-> feeHandler]

ChangeFee(feeHandler, route, fee) ==
    [tx |-> "changeFee", to |-> feeHandler, route |-> route, fee |-> fee]

RenounceAdmin(feeHandler, account) ==
    [tx |-> "renounceAdmin", to |-> feeHandler, account |-> account]

GrantAdmin(contract, account) == [tx |-> "grantAdmin", to |-> contract, account |-> account]

RenounceRole(contract) == [tx |-> "renounceRole", to |-> contract]

GrantAccess(access, function, account) ==
    [tx |-> "grantAccess", to |-> access, function |-> function, account |-> account]

-----------------------------------------------------------------------------
(* What they require and do. *)

\* onlyAllowed, for the deployer.
DeployerHasAccess(c, bridge, function) == c[c[bridge].access][function] = Deployer

IsAdmin(c, contract) == Deployer \in c[contract].admins

\* A call to the handler of a Bridge, which accepts calls of that Bridge only.
FromBridge(c, t) == DeployerHasAccess(c, t.to, t.tx) /\ c[t.handler].bridge = t.to

\* The constructor of the access control takes an account for each function,
\* and the migration passes it thirteen accounts.
Accepted(c, t) ==
    CASE t.tx = "deploy" ->
            t.to[1] = "AccessControlSegregator" =>
                Cardinality(DOMAIN t.contract \ {"grantAccess"}) = 13
      [] t.tx = "adminSetResource" -> FromBridge(c, t) /\ t.contract # None
      [] t.tx = "adminSetBurnable" ->
            FromBridge(c, t) /\ t.token \in DOMAIN c[t.handler].burnable
      [] t.tx = "adminChangeFeeHandler" -> DeployerHasAccess(c, t.to, t.tx)
      [] t.tx = "endKeygen" ->
            DeployerHasAccess(c, t.to, t.tx) /\ t.mpc # None /\ c[t.to].mpc = None
      [] t.tx = "mint" -> Deployer \in c[t.to].minters
      [] t.tx = "changeFee" -> IsAdmin(c, t.to) /\ c[t.to].fee[t.route] # t.fee
      [] t.tx = "renounceAdmin" -> IsAdmin(c, t.to) /\ t.account # Deployer
      [] t.tx = "renounceRole" -> TRUE
      [] t.tx = "grantAccess" -> c[t.to]["grantAccess"] = Deployer
      [] OTHER -> IsAdmin(c, t.to)

\* A contract, once deployed, is at its address for good.
Deployed(c, address, contract) ==
    [a \in DOMAIN c \cup {address} |-> IF a \in DOMAIN c THEN c[a] ELSE contract]

\* The mapping f after f[x] = value.
With(f, x, value) == [y \in DOMAIN f \cup {x} |-> IF y = x THEN value ELSE f[y]]

After(c, t) ==
    CASE t.tx = "deploy" -> Deployed(c, t.to, t.contract)
      [] t.tx = "adminSetResource" ->
            [c EXCEPT ![t.to].handlerOf[t.resource] = t.handler,
                      ![t.handler].tokenOf[t.resource] = t.contract,
                      ![t.handler].burnable = With(@, t.contract, FALSE)]
      [] t.tx = "adminSetBurnable" -> [c EXCEPT ![t.handler].burnable[t.token] = TRUE]
      [] t.tx = "adminChangeFeeHandler" -> [c EXCEPT ![t.to].feeHandler = t.feeHandler]
      [] t.tx = "endKeygen" -> [c EXCEPT ![t.to].mpc = t.mpc]
      [] t.tx = "grantMinter" -> [c EXCEPT ![t.to].minters = @ \cup {t.handler}]
      [] t.tx = "mint" -> c
      [] t.tx = "grantSygmaHandler" -> [c EXCEPT ![t.to].handlers = @ \cup {t.handler}]
      [] t.tx = "adminSetResourceHandler" ->
            [c EXCEPT ![t.to].handlerOf[t.route] = t.feeHandler]
      [] t.tx = "changeFee" -> [c EXCEPT ![t.to].fee[t.route] = t.fee]
      [] t.tx = "renounceAdmin" ->
            [c EXCEPT ![t.to].admins = (@ \cup {t.account}) \ {Deployer}]
      [] t.tx = "grantAdmin" -> [c EXCEPT ![t.to].admins = @ \cup {t.account}]
      [] t.tx = "renounceRole" -> [c EXCEPT ![t.to].admins = @ \ {Deployer}]
      [] t.tx = "grantAccess" -> [c EXCEPT ![t.to] = With(@, t.function, t.account)]

-----------------------------------------------------------------------------
(* What users get. *)

\* The Bridge starts paused; ending the key generation unpauses it.
IsOpen(c, bridge) == c[bridge].mpc # None

\* Where deposits succeed: the fee router, once there is one, finds a fee handler
\* for the route, and the resource has a handler.
OpenRoutes(c, bridge) == {route \in Routes :
    /\ IsOpen(c, bridge)
    /\ c[bridge].feeHandler # None => c[c[bridge].feeHandler].handlerOf[route] # None
    /\ c[bridge].handlerOf[route[2]] # None}

\* The fee of a deposit on an open route; without a fee router there is none.
FeeDue(c, bridge, route) ==
    LET router == c[bridge].feeHandler
    IN IF router = None THEN 0 ELSE c[c[router].handlerOf[route]].fee[route]

\* Whether a deposit of the resource burns the token rather than lock it.
BurnsDeposits(c, bridge, resource) ==
    LET handler == c[c[bridge].handlerOf[resource]]
        token == handler.tokenOf[resource]
    IN token \in DOMAIN handler.burnable /\ handler.burnable[token]
=============================================================================
