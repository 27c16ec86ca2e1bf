# Sygma bridge contracts in TLA+

A verification development of the Solidity contracts under `src/contracts` and of the
migrations that deploy them (`src/migrations`): TLA+ modules translated from the code, TLC
configurations that check them on small instances, and proofs checked by TLAPS for every
value of the constants.

## 1. The system

A Bridge contract runs on every *domain* (chain). A deposit on one domain takes the
user's tokens and announces a deposit number for a destination; off-chain relayers
sign, with one shared MPC key, a batch of *proposals* for the destination; anybody may
submit the signed batch there, where each proposal is executed by the handler of its
resource.

| component | state | operations | talks to |
|---|---|---|---|
| Bridge (`Bridge.sol`) | deposit counts, used-nonce bitmaps, handler of each resource, fee handler, MPC address, paused flag, forwarders, access control | `deposit`, `executeProposal(s)`, admin functions, key generation | calls fee handler, then handler (`deposit`); calls handler in a `try` (`executeProposals`) |
| Handlers and safes (`handlers/*`, `ERC*Safe.sol`) | token of each resource, whitelisting, burnable flag, decimals, the tokens they own | `deposit`, `executeProposal`, `setResource`, `setBurnable`, `withdraw` | called by the Bridge; call tokens, then a message recipient |
| Native adapter and handler | the native coins they own | `deposit*`; `executeProposal`, `withdraw` | the adapter calls fee calculation, the Bridge, the handler, the sender |
| GMP handler and transfer adapter | token pairs | `deposit`, `executeProposal` | the adapter burns an XERC20 and deposits; the handler calls any contract, the adapter mints |
| XERC20, lockbox, factory | balances, mint and burn limits of each bridge with their clocks | `mint`, `burn`, `setLimits`; `deposit`, `withdraw` | called by adapters and users |
| Default message receiver | tokens in passing | `handleSygmaMessage` | called by handlers, calls anything, forwards what is left |
| Fee handlers, router, TWAP oracle | fees, bounds, whitelist, gas prices | `collectFee`, `calculateFee`, admin | called by the Bridge; may refund the sender |
| Forwarder, access control | request nonces; the account allowed each function | `execute`; `grantAccess` | calls the Bridge on behalf of a signer |
| Migrations (`src/migrations`, `Migrations.sol`) | the last completed migration, saved addresses, what earlier runs left on the chain | ten scripts, each a sequence of transactions | deploy and configure all of the above, hand the administration over |
| Relayers (not in the repository) | the MPC key | sign, submit, resubmit | read Deposit events, call `executeProposals` |

### What is hard

* **Re-entrancy.** `deposit` and `executeProposals` call code the Bridge does not know
  (token hooks, fee refunds, message recipients, GMP targets), which may call the
  Bridge again, with another signed batch or the same one.
* **Partial rollback.** A failing handler undoes everything done inside its call, nested
  Bridge calls included, but not the mark set before it; an outer revert undoes all.
* **Order.** Signed batches arrive late, repeatedly, in any order, overlapping, or
  re-signed with other data after a retry.
* **Administration under traffic.** Pausing, jumping nonces, remapping resources,
  replacing handlers, resetting the burnable flag, withdrawing liquidity.
* **Shared balances.** The default message receiver runs anybody's actions, and messages
  within them, on one balance and one set of allowances, and must give each message what
  is its own, or all of it back when an action fails or the gas runs out.
* **Deployments that stop.** A migration sends tens of transactions; it may stop between any
  two, a transaction that timed out may be mined later, and the next run starts its script
  from the first line, without what the stopped one had deployed.
* **Arithmetic.** A bitmap of 256 nonces to a word; amounts rounded twice between
  tokens with different decimals; checked increments at the end of their type.

`PROJECT.json` lists these hazards one by one, at the line where each bites, with the
properties that would show it going wrong.

### What makes each component correct

* *Bridge*: no deposit is executed twice; a nonce is used if and only if its deposit was
  delivered; only signed proposals are delivered; deposit numbers are neither lost nor
  repeated; a paused bridge neither delivers nor announces.
* *Token handlers*: no value is created by a transfer, whatever the admin changes under
  it; conversions lose only dust; a deposit is paid in the end.
* *Native transfers*: announced deposits are covered by coins, those that an invalid
  message swallows included; the fee handler gets exactly the fees quoted.
* *GMP and XERC20*: every token on any domain is backed by one in a lockbox, unless a stranger
  has a contract at its address on another domain; a limit bounds what is minted in any window
  of time and refills within a day.
* *Forwarder, access control*: a signed request runs once; an admin function has effect
  only for the account that holds it.
* *Default message receiver*: messages whose actions failed reach their receiver in full, the
  contract keeps nothing, neither funds nor allowances it was not told to give, and enough gas
  always recovers.
* *Non-fungible tokens*: a token has one owner over all domains, keeps its URI, and arrives.
* *Migrations*: a Bridge that is open is configured; no handover leaves a contract without an
  administrator; a deployment that stops can be completed, with three exceptions.
* *Percentage fees* (not modelled): the fee stays within its bounds.

## 2. The modules

| module | stands for |
|---|---|
| `NonceBitmap` | the bitmap `usedNonces`: a word is the set of its 1 bits |
| `Bridge` | one Bridge contract: storage, stack of calls in progress, rollback |
| `BridgeLedger` | the abstract promise: atomic transactions on an append-only ledger |
| `BridgeProofs` | theorems about the executions of `Bridge` and its deposit numbers, and that it implements `BridgeLedger` |
| `RecursionTheorems` | lemmas about sums over finite sets, powers, finite subsets and rounding, for the proofs below |
| `TokenDecimals` | conversion of amounts between tokens and proposals |
| `TokenTransfers` | one ERC-20 resource on several domains, with its handlers |
| `TokenTransfersProofs` | theorems about its values, and about each domain's ledger |
| `NativeTransfers` | native coins on several domains: adapters, handlers, fees |
| `NativeTransfersProofs` | theorems about its balances, fees and what deposits are owed |
| `TransferLimits` | the arithmetic of one mint or burn limit |
| `XERC20` | the limits of one XERC20 token in time |
| `GmpTransfers` | one XERC20 token on several domains: lockboxes, adapters, GMP handler |
| `XERC20Proofs` | theorems about the limits, and that every token is backed: both parts of the token |
| `Administration` | forwarders, access controls and the guards of the admin functions |
| `AdministrationProofs` | theorems about them, and about `Migrations` |
| `MessageReceiver` | the default message receiver: actions, recovery, rejection, nested messages |
| `MessageReceiverProofs` | theorems about what it forwards, keeps and recovers |
| `NftTransfers` | one ERC-721 resource on several domains, with its handlers and token contracts |
| `NftTransfersProofs` | theorems about owners and URIs |
| `DeployedContracts` | the contracts of a network, as the deployer's transactions see them |
| `MigrationScripts` | the migration scripts, each as the transactions it sends |
| `Migrations` | runs of the scripts that stop, fail, time out and are repeated |
| `MCBridge`, `MCTokenTransfers`, `MCNativeTransfers`, `MCXERC20`, `MCGmpTransfers`, `MCAdministration`, `MCMessageReceiver`, `MCNftTransfers`, `MCMigrations` | the instances TLC checks |

### Bridge

`store` is the contract's storage and three pieces of history (`delivered`: how often
each proposal's handler succeeded and was kept; `announced`: how often each deposit
number was announced; `skipped`: the numbers jumped over by the admin). History lives
in the storage because the EVM restores it with the storage: an event of a reverted
call never happened.

`stack` holds the Bridge calls in progress. Each frame keeps `entry`, the storage found
when the call began; an execution frame also keeps `before`, the storage handed to
the handler call of its current proposal. The steps are:

* `Deposit` → `FeeCollected` → `AllocateNonce` → `DepositHandled`: `deposit` split where
  it waits for the fee handler and for the handler. The handler and the count are read
  in `AllocateNonce`, after the fee handler's code ran, as in lines 269-272.
* `ExecuteProposals`, then for each proposal `SkipExecuted`, or `CallHandler` followed by
  `HandlerSucceeds` or `HandlerReverts`; `ReturnFromExecute` ends the batch.
* `Revert`: the innermost call reverts for any reason, at any point: its `entry` comes
  back. `HandlerReverts` brings back `before` and then clears the nonce, as the catch
  branch does.
* The admin functions and `EndKeygen`, enabled whenever foreign code runs: between
  transactions, and inside calls to handlers.

Foreign code is not modelled: while it runs (`ExternalControl`) it may start any of these
calls, and end by succeeding or reverting. The token movements of the handlers are in
`TokenTransfers`.

A proposal is a record [origin, nonce, resource, data]; `Signed[a]` are the batches account
`a` ever signs for this bridge. A signature names the whole array, the chain and the
bridge (EIP-712), so a batch is signed or it is not.

### BridgeLedger

Watchers of the chain see whole transactions. `BridgeLedger` says what they rely on: a
transaction of an unpaused bridge adds some deliveries, all signed by the key, never two
for one deposit, and some announcements; nothing is ever taken back; the key is set once
and the bridge is paused until then. `Bridge` implements it under the mapping
`Committed` (the storage outside any transaction, or the one found by the transaction in
progress), and each domain of `TokenTransfers` takes only steps it allows. That is how
the two models compose: `TokenTransfers` may treat a whole transaction as one step
because `Bridge` implements the ledger.

### TokenTransfers

One resource, several domains. For each domain: the paused flag, the handler of the
resource, which handlers know the token and which mint and burn it, and who owns how
much of the token. The set `deposits` stands for the Deposit events and so for the
proposals the relayers sign, with amounts in the proposals' decimals. A deposit is
burnt or locked according to the handler's flag at that moment, an execution minted or
released according to the flag at the destination *at execution time*. Executions that
would be skipped or would fail change nothing and are not steps.

Upgrading a handler, resetting and setting the burnable flag, withdrawing (to a new
handler or elsewhere) and pausing are separate actions, free to happen at any moment.
A message is absent, valid or invalid: an invalid one is not delivered and the tokens
stay with the named recipient; a valid one for address(0) goes to the default receiver. The
call with a valid message may fail (`ERC20Handler.sol:97-100`), which reverts the execution,
payment included, at that attempt and at every other while the payee would still refuse:
`refused` holds the announced deposits of which this is so at the moment, and
`PayeeChangesAnswer` lets any payee change its mind at any time, or never.

`AdminSetResource` registers a token with its own decimals, each time: that the admin might
give a handler other decimals than the token's is left out.

### NativeTransfers

A deposit goes through the adapter, which pays the quoted fee with the Bridge's `deposit`,
then funds the handler, then sends *all* it owns back to the sender: coins somebody sent
it, and refunds that were refused earlier, go to the next depositor. Whole transactions
are the steps. The payment or refund is the last thing each contract here does, so what
its recipient calls in it is a step that follows; only the TWAP handler refunds in the
middle of a deposit of the Bridge, where what follows is the Bridge's handler call, which
`Bridge` interleaves. Pausing is left to `Bridge` and `TokenTransfers`.

Fees are those of the router with a basic handler (exact payment) or a TWAP handler (enough
payment, excess sent back); price, gas price and configuration changes appear as
`ChangeFee`. `DepositOther` is a deposit of any other resource, whose fee comes from the
user. `AdminWithdraw` has the guard of the code as it is: the balance is compared with an
amount decoded only on the next line, so an empty handler is refused and a larger amount
fails in the payment. Fee handlers have no function that receives coins, so a payment to one
reverts: `NativeAssumption` keeps them out of the recipients. A payment without a message to address(0) burns the coins; with a
valid message it goes to the default receiver; an invalid message swallows the proposal.

### TransferLimits and XERC20

A limit is what a bridge may still mint, or burn: it shrinks with use, refills at
`maxLimit \div Duration` a second up to the maximum, is full after a whole idle `Duration`,
and moves with the maximum when the owner changes that. `XERC20` lets bridges use the
limits and the owner change them while time passes; the factory names a lockbox once,
which has no limits. `XERC20` shares no name with `GmpTransfers` (`XInit`, `XNext`, `bridges`,
`SetBridgeLimits`, `SecondPasses`, ...), because one module, `XERC20Proofs`, proves theorems about both.

A property about every window of time needs a memory. The observer `watch` follows one
limit: what was drawn since it began (`drawn`), what the maxima in force allow over the same
time (`allowed`: one whole maximum at once, then each second the maximum of that second, and
what the owner raises, all times `Duration`), and when the limit was last drawn on. It may
start anew at any step, so the invariant `UsageBounded` is about every window.

### GmpTransfers

For each domain the token's balances, its limits for the adapter, the lockbox where there is
one, and the adapter's token pairs; `deposits`, `executed` and `minted` are the messages
announced, executed, and those whose call minted. The adapter burns and deposits in its
own name; users may deposit any message in theirs. An execution whose call fails, for
whatever reason, succeeds for the Bridge: `ExecuteFails` is possible for every message,
because the submitter of a batch chooses the gas. The native fee is left out.

`deposit` burns the contract its caller names, whichever it is (`BurnFrom`). `Counterfeits`
says where contracts other than the token stand whose `burn` is for nothing, under addresses
of their own or under the one the token has on another domain; a deposit of theirs is announced
like any other, as the token they are paired with or under their own address. So an
*impostor* can be minted for: a counterfeit that stands where the token does at the destination,
which is what the comment of the adapter warns of (`GmpTransferAdapter.sol:20-25`), or one
that an admin has paired with the token. `Backed` counts exactly those: nothing else that
anybody deposits mints what was not burnt. Where there are no impostors
(`NoImpostors`), every token is backed (`FullyBackedWithoutImpostors`). What other contracts mint
when they are called as tokens is their own affair; such an execution is an `ExecuteFails`.

### Administration

`store` and `stack` are as in `Bridge`, for calls of a forwarder's `execute`. A frame keeps the
storage found by `execute` (`entry`), which its own revert brings back, and the storage handed
to the target (`before`), which a failing target brings back while the nonce stays used. The
target is the Bridge or an access control (`CallTarget`, if the guards allow the call) or any
other contract, which may call anything again.

`MsgSender` is `_msgSender`: the address at the end of the call data counts only from a
forwarder in force. `grantAccess` looks at `msg.sender` itself, so requests for it fail unless
the forwarder's own address were granted it; forwarders are assumed to be `Forwarder`
contracts, which act only on requests. Each account may append any address to its own
calls. The history in `store` counts the times the call of a request was begun (`ran`) and
keeps of the last effective admin call who held the function and who asked for it.

### MessageReceiver

`store` is what the EVM restores: who owns how much of each asset, the allowances the receiver
has given, and what became of each message; `frames` are the calls of `handleSygmaMessage` in
progress, each with the storage before the handler paid (`entered`) and before the actions
(`before`). `HandleSygmaMessage` is the handler's payment and the call; then each action is
`CallOutside`, `CallToken`, `CallApprove` or `TransferBalanceAction`, and the end is `ReturnNative`
and `Finish`. An action's target and data are the message's choice, and so `CallApprove` is a call of
`approve` of a token in the receiver's own name, for an allowance or to end one. It lasts: the
receiver takes back, at the end, the allowances it gave for `tokenSend`, not those. It stands
for every function of a token that changes an allowance.
While code outside runs, it may take what it is allowed (`TakeAllowed`), send tokens or coins
(`SendToReceiver`) or execute the proposal of another message.

`performActions` may revert at any point while it runs (`CanFail`): an action fails, coins are
missing, the receiver refuses them, the gas runs out. What the code does next depends on the
gas: `unused` is what `performActions` left of what it got, which is nothing when it ran out of
gas, or all of it at most. `Forwarded` is what the EVM lets through: what the code offers, but
never more than 63 of 64 parts. `CallCost` is what is spent between the first `gasleft()` and the
call, `ReturnCost` between the call's return and the second `gasleft()`: `Remaining` is what that
one finds. `CanRecover` decides between `Recover` and `RejectForGas`.

Whatever somebody sends without any message naming it is a stray (`strays`, history): the code
makes no promise about it, and pays it to whoever names it next.

### NftTransfers

As `TokenTransfers`, for one token contract a domain, whose tokens have one owner each and a
stored URI. The URI is read before the token is burnt, travels in the announcement, and is
stored by the mint; a domain's base URI is put before it each time it is read, so `storedURI` is
a sequence of parts. A token that is locked keeps its own. A mint fails for a token that exists
(`CanDeliver`), a release for one the handler does not own.

### DeployedContracts, MigrationScripts, Migrations

An address is a kind of contract and a number; `chain` maps every address ever deployed to its
storage, also those of runs that stopped. `MigrationScripts` translates each script into the
sequence of its transactions for a given network, chain and saved addresses; each transaction
is a record, `Accepted` says whether it is mined without reverting, and `After` says what it does. Where a script throws,
for example because the network lacks an entry it iterates over, its sequence has `Throw`.

`Migrations` runs them as Truffle does: `Begin` reads the scripts' inputs, `Confirm` is one
transaction mined, `Complete` the confirmation of Truffle's own `setCompleted` and the saving of the
addresses that follows it. `Fail` is a
transaction that reverts or an exception, `Interrupt` a process that ends, `TimeOut` a transaction
not mined within `timeoutBlocks`, which `Settle` mines later or never. The next run begins the same
script again. `StopUnsaved` is a stop between `setCompleted` and the saving, or after a
`setCompleted` that timed out and is mined late: the next run goes on with the next migration, without
the addresses of this one. (A `setCompleted` that is never mined is an `Interrupt`.) What is
saved is saved as a whole. The operator waits for a transaction that timed out before he runs
Truffle again: the deployer's later transactions wait for its nonce anyway. A script that starts with
`Contract.deployed()` throws where there is no address (`WithDeployed`). The names of its specification begin with M (`MInit`,
`MNext`, `MSpec`, `MTypeOK`), because one module proves theorems about it and `Administration`.

`NetworkAssumption` says what a chain and a configuration are: the tokens listed are for different
resources, each either to be deployed or one that exists; the routes of fees are routes;
no function of the access control is given to two accounts, which are the keys of a JSON object; and
the heir of a role is not the deployer, who is granted and then renounces it, so that the contract
would be left to nobody. Nothing is assumed of who owns tokens that exist, whether they can
be minted, or which lists are empty or missing.

## 3. The runs

| run | module / cfg | question | bounds |
|---|---|---|---|
| `execute` | `MCBridge` / `MCBridgeExecute` | are batches executed once, whatever re-enters and reverts? | three nested calls, 6 proposals in 5 batches, two accounts |
| `mixed` | `MCBridge` / `MCBridgeMixed` | does the Bridge implement the ledger? are deposit numbers lost or repeated? | executions and deposits nested two deep, numbers up to 2, jumps to 2 |
| `unmapped` | `MCBridge` / `MCBridgeUnmapped` | can every proposal of a batch be tried? (it cannot) | no nesting needed |
| `transfers` | `MCTokenTransfers` / `MCTransfers` | is value created, or more than dust lost, when the admin upgrades under traffic? is every deposit paid in the end? | two domains with two handlers and different decimals, every message case, payees that refuse, one deposit each way |
| `limits` | `MCXERC20` / `MCXERC20` | what can be drawn in a window, and when is a limit full again? | a day of 3 seconds, maxima 0, 2 and 4, amounts to 3, 5 seconds, `allowed` to 18 |
| `gmp` | `MCGmpTransfers` / `MCGmp` | is every token backed? | two domains, one with a lockbox, one user, two counterfeits, two deposits each way, a day of one second |
| `gmp_unpaid` | `MCGmpTransfers` / `MCGmpUnpaid` | is an executed transfer paid? (it need not be) | the same |
| `native` | `MCNativeTransfers` / `MCNative` | are announced deposits funded, and fees as quoted? | two domains with basic and TWAP fees, two handlers, one deposit each way |
| `admin` | `MCAdministration` / `MCAdministration` | do requests run once, and admin functions for their holders only? | two forwarders, two access controls, five requests nested two deep |
| `receiver` | `MCMessageReceiver` / `MCReceiver` | is everything returned, whatever fails and whatever runs within? | three messages, all nested in one another, two tokens and coins, `RecoverGas` 1 and gas up to 129 |
| `nft` | `MCNftTransfers` / `MCNft` | has each token one owner and its URI, and does it arrive? | two minting domains, one with a base URI, two deposits each way, an upgrade |
| `migrate` | `MCMigrations` / `MCMigrations` | is an open Bridge configured, the handover safe, and can a stopped deployment be completed? | one network with every kind of contract, handlers redeployed, two stops |

Why the bounds are enough. `execute` has deposits 1 and 2 of one origin (same word),
1 and 257 (same bit, other word), deposit 1 of another origin (same word and bit), a
batch naming a deposit twice, the same deposit signed again with another resource, and a
batch signed by a stranger. Three nested calls let a batch be rolled back inside a handler
that is itself rolled back. In `mixed` the count reaches its maximum, by increments and
by jumps, inside and outside nested calls; an execution within a deposit, a deposit within an
execution and each within its own kind are the pairs there are, and the proofs cover every
depth. Two accounts and two resources suffice because the code compares them for equality only. In `transfers` and `native` a "decimal"
is worth 2 instead of 10 and tokens have 0, 1 or 2 of them with 1 in proposals: finer and
coarser (`native`: finer and equal).

In `limits` some maxima are multiples of the day's seconds and some are not, a limit is used
up, idles for less and for more than a day, and is lowered below what is left and raised
again; 0 as a maximum is a revoked bridge, 0 as an amount restarts the clock. In `gmp` the
token has different addresses on the two domains, so a transfer without a token pair names
a wrong token; two deposits are what it takes to use up a limit of 1 and to mint one while
another is lost. The limit is full again after the one second there is; how limits refill is
the matter of `limits`. Of the two counterfeits one stands at the token's address of the other
domain, an impostor, and one at an address of its own, which must never be minted for; admins
pair the token only, and the theorems speak of any pairings. In `native` a deposit can meet a fee below, equal to and above its value,
and the user may be exempt, the adapter too. In `admin` two requests carry one nonce, a
third the next, one request belongs to the second forwarder and names the access control
that its signer deployed, and one names address(0).

In `receiver` one message has gas that is always enough, two may fail to recover; one pays more
coins than it has unless some come back, and each action kind appears, with tokens that are
sent, received, both or neither; one calls `approve` to give an allowance, another to end one.
129 is exactly the bound of `RecoversGivenGas`, and 128 would not do. Three messages are all nested within one another, in any order,
and fail at every level. In `nft` both domains mint and burn but start out locking, so that a token
can be locked where it will be minted; two deposits each way bring it there and back again. In
`migrate` the network's configuration makes every script send every kind of transaction it has (that
for XC20 tokens never sends any),
one token is older than the bridge, and two stops let a script fail in its second run for what
the first left behind, or after the addresses of two migrations were lost.

Deadlock is checked in every run but `receiver`, where everything ends when all messages are
handled and nothing is left to send, and `migrate`, which ends with the last migration.
Outside a transaction an admin function, a pause toggle or another setting is always
possible, and inside one `Revert` is.

Three runs check liveness. In `transfers` and `nft` each deposit's `ExecuteDeposit(d, dest, n)` is weakly
fair: relayers resubmit a signed proposal until it is executed. The contracts allow it
(anybody may submit, a failure clears the nonce) and the retry events exist to trigger it.
Nothing else is fair: a payee may refuse its message for ever, in `transfers`, and is then not
paid; `EventuallyPaid` asks that from some time on this one does not refuse, and says that no other
payee's refusal is in its way; users may stop and the admin may do nothing. The properties ask for it
only if the destination stays *operational* from some time on: unpaused, mapped to a handler
that mints, or that owns all locked tokens, and nobody's tokens withdrawn. The last condition
spans all domains: a minting domain locks deposits made between `adminSetResource` and
`adminSetBurnable`, and withdrawing those leaves the home short.

In `migrate` weak fairness of Truffle's own steps (`Begin`, `Confirm`, `Complete`, `Fail`) says that a
script goes on and that the operator runs Truffle again after a stop; weak fairness of `Settle`
that a transaction is mined or dropped some day. Stops are not fair: they need not happen.
`CompletesUnlessIrrevocable` names the three places where repeating does not help: migration 6, whose
`changeFee` refuses a fee that is already set (`BasicFeeHandler.sol:113`), migration 8, which
cannot grant a role it has renounced, and the moment between migration 2's `setCompleted` and the
saving of its addresses, after which `Bridge.deployed()` throws in migration 3 or 5 at every run. There
the operator must finish by hand. The same moment of any other migration does no harm: what
it deployed, later scripts do not ask for.

### Findings

`unmapped`: `executeProposals` documents that a failing proposal does not revert the batch
(`Bridge.sol:302`). A proposal whose resource has no handler calls address(0), which
answers nothing; decoding that answer reverts in the Bridge itself, where `catch` does not
reach, so one such proposal makes its whole batch unexecutable.

`gmp_unpaid`: `IGmpTransferAdapter` documents the recipient of a deposit as the address that
will receive tokens at the destination (`IGmpTransferAdapter.sol:13`). The deposit burns the
tokens; if the mint is refused at the destination (limit used up, wrong token pair, too
little gas), `GmpHandler` returns the failure as data, the Bridge counts the proposal as
executed, and neither a retry nor a refund is possible. `Backed` shows that nothing worse
happens: the lost tokens stay locked in the lockbox.

Three more places where code and text differ have no run of their own:

* `DefaultMessageReceiver.sol:108-112` says that funds are sent to the receiver "in case of fail or
  running out of gas". Actions that use up all their gas leave `_recoverGas` less what the call
  itself cost, which is too little, unless the gas was so much that the EVM's 64th is more than
  that: then handling the message reverts with `InsufficientGasLimit` and the proposal stays
  executable. `RecoversGivenGas` states the bound from which on the comment is right: 64 times what
  must be left when the call returns, `_recoverGas` and `ReturnCost`, and `CallCost`.
* `4_deploy_xc20_contracts.js:13-17` means to return on networks other than three; its condition
  holds of every name, so no network gets an XC20 handler.
* `5_deploy_erc1155.js:31` throws for a network without an `erc1155` entry, which `docs/migrations.md`
  shows and three of the configuration files have; every run of Truffle then ends there.

## 4. What is proved

The proofs hold for arbitrary sets of domains, resources, handlers, accounts, proposals,
signed batches and messages, any depth of nesting and any largest nonce; those about limits for
any length of a day, any maxima, amounts and bridges; those about transfers for any decimals
of any tokens. They assume only the named assumptions of the modules, which TLC evaluates in
every run:

* nonces, amounts and limits are naturals, and a day is not empty; address(0) is nobody's;
  neither handlers nor the GMP adapter are users; signed batches are sequences of proposals;
  requests name known domains; forwarders are not accounts;
* what is added up is finite: domains, users, holders of an asset, messages;
* each non-fungible token begins with one owner, on one domain, and has a URI;
* a configuration and the tokens that exist before the migrations are what `NetworkAssumption` says
  (section 2);
* the message receiver, its handlers and the contracts outside are different from each other
  and from the accounts that messages name as receivers. What a message that names the message
  receiver itself leaves there is for whoever names the asset next, as strays are; the
  properties say nothing of such messages.

| module | theorem | says |
|---|---|---|
| `BridgeProofs` | `TypeCorrect` | `Spec => []TypeOK` |
| | `NestedCalls` | `Spec => []NestedCallsConsistent` |
| | `DeliveredAtMostOnce` | `Spec => []AtMostOnce` |
| | `UsedIffDelivered` | `Spec => []NonceUsedIffDelivered` |
| | `OnlyAdditions` | `Spec => []TransactionsOnlyAdd` |
| | `OnlySignedDelivered` | `Spec => []DeliveredWasSigned` |
| | `ImplementsLedger` | `Spec => RefinesLedger` |
| | `NoncesAccounted` | `Spec => []DepositNoncesAccounted` |
| `XERC20Proofs` | `LimitTypes` | `XSpec => []XTypeOK` |
| | `LimitsAreKept` | `XSpec => []LimitsKept` |
| | `UsageIsBounded` | `XSpec => []UsageBounded` |
| | `LimitReplenishes` | `XSpec => []ReplenishesInTime` |
| | `TypeCorrect` | `Spec => []TypeOK`, of `GmpTransfers` |
| | `BalancesBacked` | `Spec => []Backed`, of `GmpTransfers` |
| | `FullyBackedWithoutImpostors` | `NoImpostors` implies `Spec => []FullyBacked`, of `GmpTransfers` |
| `AdministrationProofs` | `TypeCorrect` | `Spec => []TypeOK` |
| | `RunOnce` | `Spec => []RequestsRunOnce` |
| | `OnlyAllowedEffects` | `Spec => []EffectsWereAllowed` |
| | `MInvariance` | `MSpec => []MIInv`, of `Migrations` |
| | `MTypeCorrect` | `MSpec => []MTypeOK`, of `Migrations` |
| | `HandoverKeepsRoles` | `MSpec => []HandoverLosesNoRole` |
| | `HandoverIsComplete` | `MSpec => []HandedOver` |
| | `OpenBridgesServe` | `MSpec => []OpenBridgesAreConfigured` |
| | `DepositsGoAsConfigured` | `MSpec => []DepositsAsConfigured` |
| `TokenTransfersProofs` | `TypeCorrect` | `Spec => [](TypeOK /\ Announced)` |
| | `OnlyDustLost` | `Spec => []LosesOnlyDust` |
| | `ValueIsNotCreated` | `Spec => []NoValueCreated` |
| | `LedgersAreKept` | `Spec => BridgesKeepLedgers` |
| `NativeTransfersProofs` | `TypeCorrect` | `Spec => []TypeOK` |
| | `FeesAreAsQuoted` | `Spec => []FeesAsQuoted` |
| | `DepositsFunded` | `Spec => []Funded` |
| `NftTransfersProofs` | `TypeCorrect` | `Spec => [](TypeOK /\ Announced)` |
| | `OneOwnerOnly` | `Spec => []OneOwner` |
| | `URIKept` | `Spec => []MetadataKept` |
| `MessageReceiverProofs` | `TypeCorrect` | `Spec => []TypeOK` |
| | `AllRecovered` | `Spec => []RecoveredInFull` |
| | `NothingIsLeftBehind` | `Spec => []NothingLeftBehind` |
| | `HandlersPaidForHandled` | `Spec => []PaidForHandled` |
| | `RecoversWhenGivenGas` | `Spec => RecoversGivenGas` |

**Executions.** `AtMostOnce` is not inductive: a revert brings back an older
storage, so every storage that may come back must be right as well. `Consistent(s, K)` says
that storage `s` agrees with a set `K` of deposits being executed: a nonce is used exactly
when its deposit was delivered or is in `K`, and never both. `NestedCallsConsistent` says
that the current storage agrees with all calls in progress, the `entry` of frame j with
the calls below j, its `before` with those up to j, and that no two calls in progress
execute the same deposit. Each action preserves it by one of a few lemmas about marking,
clearing and delivering (`Consistent...`), which rest on the bitmap lemmas: marking or
clearing one nonce does not touch another, because `n` is determined by `n \div 256` and
`n % 256`. Outside transactions `K` is empty and the theorems follow.

**The ledger.** That transactions are atomic and signed needs the same care: the step that
commits a transaction is the return of its outermost call, and what it commits was built
by nested calls, some of them rolled back. `TransactionsOnlyAdd` says that the storage
and every storage that may come back *extend* the one the transaction found: same key,
nothing delivered or announced is missing, what is new was signed by that key, and the
bridge was unpaused at the start and so had its key. It also keeps that every batch in
progress was signed. Each call of `deposit`, `executeProposals` and the admin functions
preserves it, reverts because all the storages they choose from extend the same one; the
refinement follows with `AtMostOnce` for the ledger's "never two for one deposit".

**Deposit numbers.** `DepositNoncesAccounted` is inductive as it stands, for the same reason
stated over all storages: up to the count every number is announced once, skipped, or held
by exactly one call in progress at that time, and the numbers that calls in progress hold
differ. A revert of a call forgets the numbers of the calls within it and brings back a
count that never issued them.

**Limits.** `UsageBounded` is not inductive: what was drawn says nothing about what may still
be drawn. `LimitsKept` compares the limit with an exact token bucket: `Level(limit, t)` is
`Duration` times what the bucket holds at time t, without the rounding of `ratePerSecond`.
The invariant is drawn * Duration + Level <= allowed. The limit of the code never exceeds the
bucket (`CurrentLimit * Duration <= Level`, because the rate is rounded down, also when a whole
idle day fills it at once), a use moves its amount from the level to what was drawn, a
second adds at most the maximum to both sides, and a change adds the raise to both.

**Forwarders and access.** `RequestsRunOnce` and `EffectsWereAllowed` speak of every storage that
may come back (`Storages`) and are inductive together with `TypeOK`. The heart of the first
is that the requests an account has run at a forwarder carry exactly the nonces below its
next one, each once, so that a request verified now was not run in this storage; of the
second, that the signer of a call in progress is the `from` of its request, which is what
`_msgSender` makes of a call relayed by a forwarder.

**A full limit.** `ReplenishesInTime` is about elapsed time: the invariant behind it, `RefillInv`,
says how far the limit has refilled at every moment since the last draw or change, empty draws
included, which restart the clock and keep the rate: it is full already, or what it holds is at
least the seconds since then times the rate. A day later that is the maximum less what the
rate, rounded down, loses in a day, less than one unit for each of its seconds.

**Sums.** Values, balances and dues are sums over finite sets, which the library computes with a
recursive function over subsets. `RecursionTheorems` proves what such a sum does without the
library's induction theorems (they take an operator as a parameter): a set F in place of a
formula, and the well-founded order of finite subsets in place of induction, give `SumWithOne`,
`SumUpdated`, `SumMoved`, `SumMonotonic` and the others that every balance sheet below rests on. In
the same way `PowerProduct` says that `10 ** (i + j)` is a product, for the decimals.

**Transfers.** That a deposit is new needs the count of those before it, so `Announced` (nonces do
not exceed the count, and the deposits are finitely many) goes with `TypeOK`. `LosesOnlyDust` is
about one deposit at a time: a division of a multiple loses nothing and any other less than its
divisor, and powers of the base divide each other in the order of the decimals; so one of the
two conversions loses nothing, or both less than the coarsest unit. `NoValueCreated` then is
inductive: what a deposit takes from its user is worth no less than what it announces, and an
execution pays no more than that; locking, burning, upgrades and flags change nothing that
people own, and what the admin takes out is counted. `LedgersAreKept` is a refinement proved
domain by domain: every step is one of `BridgeLedger` or a stutter for each domain.

**Native coins.** The types of `NativeTransfers` are not inductive without the fees: distributing
takes from what is due as much as the fee handler owns, which must not go below 0, so `TypesKept` is
about `TypeOK`, `FeesAsQuoted` and finitely many announced deposits together. A deposit moves coins
between the sender, the adapter, the fee handler and the handler in one step; the `...Types` lemmas
follow each payment in its order, because a balance is enough for one only after the one
before it. `Funded` then compares two sums: `UnpaidValue`, of what deposits announce and nobody
got, and `CoinsValue`, of what the handlers have and the admin took. A deposit adds to the first
what it announces, which is worth no more than what it leaves with the handler, because
`convertToInternalBalance` rounds down; an execution takes from the second no more than it takes
from the first, because the way back does not round up; every other step moves coins into handlers,
between them or out to the admin's account. It is the same argument for a swallowed message,
which takes nothing from either.

**Non-fungible tokens.** `OneOwner` is inductive with the types: deposits and executions move one
unit between the two cardinalities. `MetadataKept` needs to know what transfers carry
(`TellsURI`: the announced URI ends as the first one did), because the token it will be stored
for does not exist meanwhile.

**The message receiver.** As in the Bridge, what may come back must be right: a frame remembers the
store before its handler paid (`entered`) and before its actions (`before`), and either may
come back, from any depth. `Sound(s, P, R, N, A)` says that store s is right *for* messages P in
progress, those of them R being recovered, the assets N still to be forwarded and the allowances
A that they gave: supplies are conserved; handlers have paid for what was handled and P, and
nothing else; receivers have their dues from what was recovered and R; whatever is not in N is
strays; nothing is allowed but A and what executed messages had the contract approve by calling
`approve`. `Consistent` asks it of the current store with all frames, of
each `entered` with the frames below it, and that `before` is `entered` after the handler's
payment. Each action either pays (`Pays`), or pushes, settles or undoes the innermost frame,
and P, R, N and A change with the frames. Without frames all four are empty, and the
theorems follow. `RecoversGivenGas` is a property of steps: of 64 times the gas to recover, one
part stays when the EVM lets only 63 of 64 through, which is what it takes to return and to recover.

**Backing.** `Backed` says nothing of the limits, but types do not hold without them: a use must
leave a limit that is not negative and not ahead of time (`LimitsKept`). Nonces are counted
(`Numbered`), so a deposit adds a message that was not there and the sum under way grows by
exactly what was burnt; a mint takes one out that was there, because minted messages were
executed; and users' own messages never count as burnt, because the adapter's name is not
theirs to give. A message of the adapter's that names the token of its destination either
burnt the token, or its source is that token's address or paired with it (`Addressed`):
then it is an impostor, and both sides of the sheet gain what it mints.

**Deployments.** A deployment is a program that is interrupted, whose text is computed from a
configuration. The first half of the proof is about the ten scripts: `HasType` gives each kind of
contract the storage it may have (of the roles: the deployer and the configured heirs only),
`Steps(m)` the transactions migration m may send, `Own(m)` the kinds it deploys. `ScriptTyped` says
that every script, for every network and chain, consists of its `Steps` and deploys no kind
twice (`WellScripted`), and that the first two deploy what later ones read (`CoreToCome`). Loops over the configuration are
joined by the library's `FlattenSeq`, a recursive function: `Flattened` says, without induction over
data, that each part stands in the whole and nothing else does (`IsFlattening` holds of the only
function its recursion allows). The second half is about runs. A transaction keeps types whatever
the chain is (`TransactionTyped`), so it does not matter which run sent it or how late it is mined.
Only migration 8 gives roles away; in its script a `renounceRole` has the grant to the heir before
it, and in what is left of the script the grant is still to come or done (`Granted`), also once the
transaction is all that is pending: `HandoverKeepsRoles`. And what is not given away yet is still to
be sent by the run that is under way (`HandingOver`), which is complete only when nothing is, and
what was given away nobody can take back, the deployer least of all (`GivenForGood`):
`HandoverIsComplete`. `MTypeCorrect` needs to know that a run which never stopped has saved all it
deployed (`FirstRun`). A stop may also lose the addresses of a completed
migration: `SavedInTurn` says that each migration changes the addresses of its own contracts only, and
that where the Bridge's was lost (`AddressesAreLost`) every script that follows is empty or throws, so
that nothing is ever sent without it (`LostSendsNothing`).

**Open Bridges.** Types say nothing of the order in which a script configures a token, and a Bridge
that opens must find everything done: by its own run, or by the last transaction of a run that
stopped, mined late, on a chain where contracts of earlier runs are left. `DIInv`, inductive
together with `MIInv`, therefore speaks of each transaction u that a token needs (`Serving`: the
resource set, burnable set, the minter and the message handler granted). u is `Owed` while its
`Effect` is there or it is still to be sent, and whatever is to be sent that `Undoes` it
(setting a resource makes a token lock again) is followed by u (`Redone`). `ToServe` owes a token all
its transactions; once nothing is left to send, the Bridge has `Served` it. The invariant has four parts.

* `ChainKept`: Bridges, handlers and routers refer to each other's contracts only within one run
  (`Wired`), so what a stopped run has left behind cannot serve, or be served by, another's; and
  their numbers grow, so none is deployed over another (`Numbered`).
* `OpenIn`: an open Bridge has its fee router and has served its tokens, but for the fungible ones of
  the saved Bridge while their handler is replaced.
* `AchievedBy`: what n completed migrations have done for the saved Bridge, and that no other router
  has a route, which is why no deposit succeeds on a Bridge that was left behind.
* `UnderWay`: the script that runs has `ToDo` what is not done, and `endKeygen`, which opens the Bridge, is
  the last of its transactions; one that is pending would, if mined late, do no harm (`Late`): a pending
  `endKeygen` finds every token served.

`ScriptToDo` shows this of each of the ten scripts when it begins, for every configuration, loop by
loop (`LoopServes`, for lists whose tokens have different resources); `ToDoAfter`, `OpenAfter`
and `AchievedAfter` that each transaction mined keeps it. The theorems need of `DIInv` only
`ServedMeans`: a Bridge that has served a token burns it exactly if it is configured to.

Only model-checked is liveness (`EventuallyPaid`, `EventuallyDelivered`, `CompletesUnlessIrrevocable`),
because fairness is stated with ENABLED, which the prover does not know.

## 5. What is left out

Gas (but for the message receiver's), events' payloads, ABI encoding, signature recovery, token
contracts that lie about balances, the Uniswap arithmetic (256 and 512 bit words, vendored),
OpenZeppelin's contracts and test contracts. `PROJECT.json` gives the reason for each component.

* ERC-1155 transfers: batches of amounts with the control flow of the other handlers; only their
  set-up is modelled. XC20 transfers are `TokenTransfers` without messages.
* `MessageReceiver`: tokens that refuse to move; actions that call other functions of a token in the
  receiver's own name than `transfer` and those that change allowances; what is left of an
  allowance when some of it is used; and several contracts that are allowed different tokens: `Outside` stands
  for them all.
* `NftTransfers`: transfers between users, minting by others, pausing of the token.
* `TokenTransfers`: decimals registered that are not the token's.
* `GmpTransfers`: what contracts other than the token do when they are called to mint.
* `DeployedContracts`: the default message receiver that an `ERC20Handler` is constructed with. The
  scripts pass the one that they grant the handler's role; `HandlesMessages` asks that some
  receiver has granted it. Also what handlers own of a token: that an open Bridge is configured
  does not say that it has the liquidity to release what it locks.
* The migrations' `decimals`: a redeployment passes them as the configuration's string, which
  is not the byte string the handler expects unless they are 18; `setupGeneric`, which nothing calls; the
  administration and minting rights over tokens, which stay with the deployer in every configuration.
* Between a migration's `adminSetResource` and `adminSetBurnable` on an open Bridge, and between a
  route's `adminSetResourceHandler` and `changeFee`, deposits are possible with the wrong treatment or
  fee; the properties of `Migrations` exempt those two migrations while they are unfinished.

## 6. Plan

1. *(done)* `NonceBitmap`, `Bridge`, `BridgeLedger` and their proofs, `TokenTransfers`.
2. *(done)* `XERC20` and its proofs; `GmpTransfers`.
3. *(done)* `NativeTransfers`, with the router and basic and TWAP fees.
4. *(done)* `Administration` and its proofs.
5. *(done)* `MessageReceiver`, `NftTransfers`.
6. *(done)* `DeployedContracts`, `MigrationScripts`, `Migrations`.
7. *(done)* Theorems about `TokenTransfers`, `NftTransfers`, `NativeTransfers`, `MessageReceiver`,
   `GmpTransfers`, the refilling of limits, and `Migrations`: every invariant a run checks is a
   theorem.
8. Percentage fees with their bounds, as pure operators against a reference definition, and the
   TWAP fee from price, gas price and configuration; pausing and late whitelisting in
   `NativeTransfers`.
