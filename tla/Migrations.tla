----------------------------- MODULE Migrations -----------------------------
(***************************************************************************)
(* `truffle migrate` runs the scripts of MigrationScripts in order, each   *)
(* once: the contract Migrations (src/contracts/Migrations.sol) keeps the  *)
(* number of the last one completed, and the project's artifacts the       *)
(* addresses the completed ones deployed.  A script that stops half way,   *)
(* because it throws, a transaction reverts or times out, or its process   *)
(* ends, is run again from its first line.  What its first run sent stays  *)
(* on the chain, but the addresses it deployed are forgotten; and a        *)
(* transaction that timed out may be mined later.  Truffle sends the       *)
(* number (setCompleted) when the script has returned, and saves the       *)
(* artifacts when that is confirmed.                                       *)
(***************************************************************************)
EXTENDS MigrationScripts

CONSTANTS
    ExistingTokens, \* the chain's tokens before the migrations, by address
    MaxStops        \* bound: runs that stop half way before the operator gives up

ASSUME BoundAssumption == MaxStops \in Nat

\* The contracts whose artifacts scripts read or deploy; tokens are not kept.
Kinds == {"Migrations", "AccessControlSegregator", "Pausable", "Bridge",
    "DefaultMessageReceiver", "ERC20Handler", "ERC721Handler", "ERC1155Handler",
    "GmpHandler", "XC20Handler", "FeeHandlerRouter", "BasicFeeHandler",
    "PercentageERC20FeeHandler", "FROSTKeygen", "Retry"}

\* The entries of a list of the configuration, which may be missing.
Entries(list) == IF list = None THEN {} ELSE ToSet(list)

ResourceIDs(list) == {token.resourceID : token \in Entries(list)}

IsList(list) == list = None \/ list \in Seq(ToSet(list))

\* Tokens for different resources.  The address of a token that exists is written
\* as those are that the scripts deploy: its resource, and a number.
IsTokenList(list) ==
    /\ IsList(list)
    /\ \A token \in Entries(list) :
        /\ token.resourceID \in Resources
        /\ token.address # None =>
            token.address \in DOMAIN ExistingTokens /\ token.address[1] = token.resourceID
    /\ list # None => IsInjective([i \in DOMAIN list |-> list[i].resourceID])

\* What a chain and a configuration are.  An object's keys differ, so no function
\* of the Bridge is given to two accounts; a role is given to another account
\* than the deployer, who would renounce it.
ASSUME NetworkAssumption ==
    /\ Resources \cap Kinds = {}
    /\ None \notin (Resources \cup Kinds) \X Nat
    /\ Routes \subseteq {route[1] : route \in Routes} \X Resources
    /\ IsFiniteSet(DOMAIN ExistingTokens)
    /\ ExistingTokens = [a \in DOMAIN ExistingTokens |-> ExistingTokens[a]]
    /\ DOMAIN ExistingTokens \subseteq Resources \X Nat
    /\ \A a \in DOMAIN ExistingTokens :
        /\ a[2] \in 1 .. NumberOf(ExistingTokens, a[1])
        /\ DOMAIN ExistingTokens[a] = {"admins", "minters"}
    /\ \A list \in {Network.erc20, Network.erc721, Network.erc1155} : IsTokenList(list)
    /\ ResourceIDs(Network.erc20) \cap ResourceIDs(Network.erc721) = {}
    /\ ResourceIDs(Network.erc1155) \cap
           (ResourceIDs(Network.erc20) \cup ResourceIDs(Network.erc721)) = {}
    /\ Network.gmp # None =>
        /\ Network.gmp \in Resources
        /\ Network.gmp \notin UNION {ResourceIDs(Network.erc20),
                                     ResourceIDs(Network.erc721), ResourceIDs(Network.erc1155)}
    /\ IsList(Network.fee)
    /\ \A fee \in Entries(Network.fee) : fee.route \in Routes
    /\ Network.access # None =>
        /\ Deployer \notin {Network.access.feeRouterAdmin,
                           Network.access.defaultMessageReceiverAdmin}
        /\ IsList(Network.access.accessControl)
        /\ \A e, f \in Entries(Network.access.accessControl) :
            e.function = f.function => e = f

VARIABLES
    chain,     \* the contracts
    completed, \* last_completed_migration
    artifacts, \* the address saved for each kind
    process,   \* the migration that runs, its transactions to come, its addresses
    pending,   \* the transaction that timed out, and may be mined yet
    stops      \* history: the migrations that stopped half way, in order

mvars == <<chain, completed, artifacts, process, pending, stops>>

Idle == [migration |-> 0]

Running == process # Idle

\* Begun and not completed: running, or stopped half way.
Unfinished == IF Running \/ completed + 1 \in ToSet(stops) THEN completed + 1 ELSE 0

MInit ==
    /\ chain = ExistingTokens
    /\ completed = 0
    /\ artifacts = [k \in Kinds |-> None]
    /\ process = Idle
    /\ pending = {}
    /\ stops = <<>>

\* The next migration of a run, or the one the last run stopped in.
Begin ==
    /\ ~Running
    /\ completed + 1 \in Migrations
    /\ Len(stops) <= MaxStops
    /\ pending = {}
    /\ process' = [migration |-> completed + 1,
                   todo |-> Script(completed + 1, chain, artifacts),
                   deployed |-> artifacts]
    /\ UNCHANGED <<chain, completed, artifacts, pending, stops>>

\* The script has a transaction to send, and it would not revert.
CanSend(t) == t # Throw /\ Accepted(chain, t)

Saving(deployed, t) ==
    IF t.tx = "deploy" /\ t.to[1] \in Kinds
    THEN [deployed EXCEPT ![t.to[1]] = t.to] ELSE deployed

\* The next transaction is confirmed.
Confirm ==
    /\ Running
    /\ process.todo # <<>>
    /\ LET t == Head(process.todo)
       IN /\ CanSend(t)
          /\ chain' = After(chain, t)
          /\ process' = [process EXCEPT !.todo = Tail(@),
                                        !.deployed = Saving(@, t)]
    /\ UNCHANGED <<completed, artifacts, pending, stops>>

\* Faulty variant of Complete: the addresses are not saved.
CompleteUnsaved ==
    /\ Running
    /\ process.todo = <<>>
    /\ completed' = process.migration
    /\ process' = Idle
    /\ UNCHANGED <<chain, artifacts, pending, stops>>

\* The script has returned; Truffle's setCompleted is confirmed, and it saves.
Complete ==
    /\ Running
    /\ process.todo = <<>>
    /\ completed' = process.migration
    /\ artifacts' = process.deployed
    /\ process' = Idle
    /\ UNCHANGED <<chain, pending, stops>>

\* setCompleted is mined, but nothing saved: the process ends in between, or has
\* ended because the transaction timed out, and it is mined before the next run.
\* A setCompleted that is never mined is an Interrupt.  Without the address of
\* the contract Migrations the next run starts from the first.
StopUnsaved ==
    /\ Running
    /\ process.todo = <<>>
    /\ Len(stops) < MaxStops
    /\ completed' = IF process.migration = 1 THEN completed ELSE process.migration
    /\ process' = Idle
    /\ stops' = Append(stops, process.migration)
    /\ UNCHANGED <<chain, artifacts, pending>>

Stop ==
    /\ process' = Idle
    /\ stops' = Append(stops, process.migration)
    /\ UNCHANGED <<chain, completed, artifacts>>

\* The script throws, or its transaction would revert: estimating its gas fails.
Fail ==
    /\ Running
    /\ process.todo # <<>>
    /\ ~CanSend(Head(process.todo))
    /\ Stop
    /\ UNCHANGED pending

\* The process ends between two transactions, setCompleted the last.
Interrupt ==
    /\ Running
    /\ Len(stops) < MaxStops
    /\ Stop
    /\ UNCHANGED pending

\* The transaction is not mined within the network's timeoutBlocks.
TimeOut ==
    /\ Running
    /\ Len(stops) < MaxStops
    /\ process.todo # <<>>
    /\ CanSend(Head(process.todo))
    /\ pending' = {Head(process.todo)}
    /\ Stop

\* It is mined after all, or never.  The deployer's transactions are mined in
\* the order of their nonces: no later one before this is settled.
Settle ==
    \E t \in pending :
        /\ chain' \in {chain, After(chain, t)}
        /\ pending' = {}
        /\ UNCHANGED <<completed, artifacts, process, stops>>

MNext ==
    \/ Begin \/ Confirm \/ Complete \/ StopUnsaved
    \/ Fail \/ Interrupt \/ TimeOut \/ Settle

MSpec == MInit /\ [][MNext]_mvars

\* Truffle goes on with a migration it has begun, and the operator runs it
\* again.  Nothing makes a run stop.
FairSpec ==
    /\ MSpec
    /\ WF_mvars(Begin \/ Confirm \/ Complete \/ Fail)
    /\ WF_mvars(Settle)

-----------------------------------------------------------------------------
(* Properties. *)

At(kind) == {a \in DOMAIN chain : a[1] = kind}

\* The state of a deployment is well formed: what is saved exists, and is what
\* was deployed last unless a run has stopped.
MTypeOK ==
    /\ completed \in Migrations \cup {0}
    /\ stops \in Seq(Migrations)
    /\ Len(stops) <= MaxStops + 1
    /\ \A k \in Kinds : artifacts[k] \in At(k) \cup {None}
    /\ Running =>
        /\ process.migration = completed + 1
        /\ \A k \in Kinds : process.deployed[k] \in At(k) \cup {None}
    /\ Cardinality(pending) <= 1
    /\ Running => pending = {}
    /\ \A a \in DOMAIN chain :
        a[1] \in Kinds /\ a # artifacts[a[1]] =>
            \/ Running /\ a = process.deployed[a[1]]
            \/ stops # <<>>
            \/ a[1] = "ERC20Handler" /\ RedeployTokenHandlers

\* Whether the Bridge's handler burns or locks a token as its configuration asks
\* for, and may mint what it burns.  Of what a handler owns to release this says
\* nothing.
Configured(bridge, token, burnable) ==
    LET handler == chain[bridge].handlerOf[token.resourceID]
    IN /\ handler # None
       /\ chain[handler].bridge = bridge
       /\ BurnsDeposits(chain, bridge, token.resourceID) <=> burnable
       /\ burnable => handler \in chain[chain[handler].tokenOf[token.resourceID]].minters

HandlesMessages(bridge, token) ==
    \E receiver \in At("DefaultMessageReceiver") :
        chain[bridge].handlerOf[token.resourceID] \in chain[receiver].handlers

\* A Bridge that is open, also one that a stopped run has left behind or that
\* opens late, has its fee router, and handlers that mint, burn and run messages
\* for its tokens as configured; a redeployment of the handlers is the only time
\* this is not so.  endKeygen is the last transaction of its script.
OpenBridgesAreConfigured ==
    \A b \in At("Bridge") : IsOpen(chain, b) =>
        /\ chain[b].feeHandler # None
        /\ b # artifacts["Bridge"] \/ Unfinished # 7 =>
            /\ \A token \in Entries(Network.erc20) :
                /\ Configured(b, token, token.strategy = "mb")
                /\ HandlesMessages(b, token)
            /\ \A token \in Entries(Network.erc721) : Configured(b, token, TRUE)

\* A deposit that succeeds is made on the Bridge that was saved, never on one
\* a stopped run has left behind.  It pays the configured fee unless routes are
\* being registered, and burns or locks as configured unless handlers are being
\* redeployed; a generic message burns and locks nothing.
DepositsAsConfigured ==
    \A b \in At("Bridge") : \A route \in OpenRoutes(chain, b) :
        /\ b = artifacts["Bridge"]
        /\ Unfinished # 6 =>
            \E fee \in Entries(Network.fee) :
                fee.route = route /\ FeeDue(chain, b, route) = fee.feeAmount
        /\ Unfinished # 7 /\ route[2] # Network.gmp =>
            BurnsDeposits(chain, b, route[2]) <=>
                \A token \in Entries(Network.erc20) :
                    token.resourceID = route[2] => token.strategy = "mb"

\* What the configuration says of a role, or the deployer while it says nothing.
Heir(account) == IF account = None THEN Deployer ELSE account

\* Whom a contract is to be handed over to.
AdminOf(kind) ==
    IF Network.access = None THEN Deployer
    ELSE CASE kind \in {"BasicFeeHandler", "PercentageERC20FeeHandler"} ->
                Heir(Network.access.feeHandlerAdmin)
           [] kind = "FeeHandlerRouter" -> Heir(Network.access.feeRouterAdmin)
           [] kind = "DefaultMessageReceiver" ->
                Heir(Network.access.defaultMessageReceiverAdmin)

Administered == {"BasicFeeHandler", "PercentageERC20FeeHandler", "FeeHandlerRouter",
    "DefaultMessageReceiver"}

FunctionHeirs(function) ==
    {entry.account : entry \in {entry \in Entries(Network.access.accessControl) :
        entry.function = function}}

\* At no point of the handover, wherever it stops, is a contract or a function
\* of the Bridge without an administrator, or with one that is neither the
\* deployer nor the account configured.
HandoverLosesNoRole ==
    /\ \A kind \in Administered : \A a \in At(kind) :
        /\ chain[a].admins # {}
        /\ chain[a].admins \subseteq {Deployer, AdminOf(kind)}
    /\ \A a \in At("AccessControlSegregator") : \A f \in DOMAIN chain[a] :
        chain[a][f] \in {Deployer} \cup FunctionHeirs(f)

\* Once the handover is complete the deployer administers nothing that was
\* configured to be somebody else's.
HandedOver ==
    completed >= 8 /\ Network.access # None =>
        /\ \A kind \in Administered : chain[artifacts[kind]].admins = {AdminOf(kind)}
        /\ \A entry \in Entries(Network.access.accessControl) :
            chain[artifacts["AccessControlSegregator"]][entry.function] = entry.account

\* Migration 6 cannot be run again: changeFee refuses the fee a route has.
FeesAreSet ==
    /\ completed = 5
    /\ \E fee \in Entries(Network.fee), kind \in {"BasicFeeHandler", "PercentageERC20FeeHandler"} :
        chain[artifacts[kind]].fee[fee.route] = fee.feeAmount

\* Nor migration 8: who has renounced a role cannot grant it.
RolesAreGone ==
    /\ completed = 7
    /\ \E kind \in Administered : Deployer \notin chain[artifacts[kind]].admins

\* Migration 2 counts as completed, and its addresses were not saved: the next
\* migration that asks for the Bridge throws, in every run.
AddressesAreLost == completed \in 2..4 /\ artifacts["Bridge"] = None

\* A deployment that stops, wherever it does and whatever is mined late,
\* completes when it is run again, unless it stopped after it had set a fee or
\* given away a role, or between migration 2's setCompleted and its saving.
CompletesUnlessIrrevocable ==
    <>[](completed = 10 \/ FeesAreSet \/ RolesAreGone \/ AddressesAreLost)
=============================================================================
