---------------------------- MODULE GmpTransfers ----------------------------
(***************************************************************************)
(* Transfers of one XERC20 token between domains by generic messages: on   *)
(* each domain the token and its lockbox (src/contracts/XERC20), a         *)
(* GmpTransferAdapter that burns it at the origin and mints it at the      *)
(* destination (src/contracts/adapters), and the GmpHandler of the Bridge  *)
(* that carries the message (src/contracts/handlers/GmpHandler.sol).       *)
(*                                                                         *)
(* A step is a whole transaction; Bridge justifies that a proposal is      *)
(* executed at most once.  The adapter has the same address on every       *)
(* domain.  Anybody may deposit generic messages of their own, and have    *)
(* the adapter burn a contract of their own: which one it is called for is *)
(* up to the caller.                                                       *)
(***************************************************************************)
EXTENDS TransferLimits, FiniteSetsExt

CONSTANTS
    Domains,
    Users,
    Adapter,        \* the GmpTransferAdapter's address
    Zero,           \* address(0): no token pair
    TokenOf,        \* TokenOf[d]: the token's address on d
    Counterfeits,   \* the <<domain, address>> where other contracts stand, whose
                    \* burn is for nothing
    Homes,          \* the domains where a lockbox backs the token
    Underlying,     \* what each user owns there of the backing token at first
    Amounts,        \* the amounts deposited, locked and withdrawn
    Pairings,       \* the <<origin, source, destination, token>> the adapters'
                    \* admins set
    NewLimits,      \* the maxima the token's owners set for the adapter
    MaxNonce,       \* bound: deposits for each destination
    MaxTime         \* bound: the last second

Tokens == {TokenOf[d] : d \in Domains}

Addresses == Tokens \cup {c[2] : c \in Counterfeits}

ASSUME GmpAssumption ==
    /\ Homes \subseteq Domains
    /\ Underlying \in Nat
    /\ Amounts \subseteq Nat
    /\ NewLimits \subseteq Nat
    /\ Counterfeits \subseteq Domains \X Addresses
    /\ \A d \in Domains : <<d, TokenOf[d]>> \notin Counterfeits
    /\ Pairings \subseteq Domains \X Addresses \X Domains \X (Addresses \cup {Zero})
    /\ Adapter \notin Users
    /\ Zero \notin Addresses
    /\ IsFiniteSet(Domains)
    /\ IsFiniteSet(Users)
    /\ MaxNonce \in Nat
    /\ MaxTime \in Nat

VARIABLES
    now,        \* block.timestamp
    limits,     \* limits[d][side]: the adapter's limits at d's token
    pairs,      \* pairs[d][a][e]: d's crossChainTokenPairs of address a for e
    balance,    \* balance[d][u]: what u owns of d's token
    underlying, \* underlying[d][u]: what u owns of the token that backs it
    locked,     \* locked[d]: what d's lockbox owns of that
    deposits,   \* the generic deposits announced by Deposit events
    executed,   \* those executed at their destination
    minted      \* those whose execution minted tokens

vars == <<now, limits, pairs, balance, underlying, locked, deposits, executed, minted>>

Message == [
    origin : Domains,
    dest : Domains,
    nonce : 1 .. MaxNonce,
    depositor : Users \cup {Adapter},  \* executionDataDepositor
    recipient : Users,
    source : Addresses \cup {Zero},    \* what the adapter burnt, if it did
    token : Addresses,
    amount : Amounts]

TypeOK ==
    /\ now \in 0 .. MaxTime
    /\ limits \in [Domains -> [Sides -> Limit]]
    /\ pairs \in [Domains -> [Addresses -> [Domains -> Addresses \cup {Zero}]]]
    /\ balance \in [Domains -> [Users -> Nat]]
    /\ underlying \in [Domains -> [Users -> Nat]]
    /\ locked \in [Domains -> Nat]
    /\ deposits \subseteq Message
    /\ executed \subseteq deposits
    /\ minted \subseteq executed

Init ==
    /\ now = 0
    /\ limits = [d \in Domains |-> [s \in Sides |-> Unset]]
    /\ pairs = [d \in Domains |-> [a \in Addresses |-> [e \in Domains |-> Zero]]]
    /\ balance = [d \in Domains |-> [u \in Users |-> 0]]
    /\ underlying = [d \in Domains |->
                        [u \in Users |-> IF d \in Homes THEN Underlying ELSE 0]]
    /\ locked = [d \in Domains |-> 0]
    /\ deposits = {}
    /\ executed = {}
    /\ minted = {}

-----------------------------------------------------------------------------
(* Lockbox *)

LockboxDeposit(d, user, to, amount) ==
    /\ d \in Homes
    /\ amount <= underlying[d][user]
    /\ underlying' = [underlying EXCEPT ![d][user] = @ - amount]
    /\ locked' = [locked EXCEPT ![d] = @ + amount]
    /\ balance' = [balance EXCEPT ![d][to] = @ + amount]
    /\ UNCHANGED <<now, limits, pairs, deposits, executed, minted>>

LockboxWithdraw(d, user, to, amount) ==
    /\ d \in Homes
    /\ amount <= balance[d][user]
    /\ amount <= locked[d]
    /\ balance' = [balance EXCEPT ![d][user] = @ - amount]
    /\ locked' = [locked EXCEPT ![d] = @ - amount]
    /\ underlying' = [underlying EXCEPT ![d][to] = @ + amount]
    /\ UNCHANGED <<now, limits, pairs, deposits, executed, minted>>

-----------------------------------------------------------------------------
(* deposit *)

\* GmpHandler.deposit: a message names its true depositor.
MayDeposit(depositor, sender) == depositor = sender

DepositCount(d, dest) == Cardinality({t \in deposits : t.origin = d /\ t.dest = dest})

\* Bridge.deposit called by sender for a message that calls the adapter.
Announce(d, sender, dest, depositor, recipient, source, token, amount) ==
    /\ dest # d
    /\ MayDeposit(depositor, sender)
    /\ DepositCount(d, dest) < MaxNonce
    /\ deposits' = deposits \cup
           {[origin |-> d, dest |-> dest, nonce |-> DepositCount(d, dest) + 1,
             depositor |-> depositor, recipient |-> recipient,
             source |-> source, token |-> token, amount |-> amount]}

\* Faulty variant of DestinationToken: pairs are not kept for each contract.
DestinationTokenOfAny(d, source, dest) ==
    LET paired == {a \in Addresses : pairs[d][a][dest] # Zero}
    IN IF paired = {} THEN source ELSE pairs[d][CHOOSE a \in paired : TRUE][dest]

DestinationToken(d, source, dest) ==
    IF pairs[d][source][dest] # Zero THEN pairs[d][source][dest] ELSE source

\* IXERC20(source).burn(user, amount): the token's own, or any other contract's.
BurnFrom(d, source, user, amount) ==
    \/ /\ source = TokenOf[d]
       /\ amount <= balance[d][user]
       /\ amount <= CurrentLimit(limits[d]["burn"], now)
       /\ limits' = [limits EXCEPT ![d]["burn"] = AfterUse(@, now, amount)]
       /\ balance' = [balance EXCEPT ![d][user] = @ - amount]
    \/ <<d, source>> \in Counterfeits /\ UNCHANGED <<limits, balance>>

\* The adapter's deposit: pays the fee, burns, then deposits as itself.
Deposit(d, user, source, dest, recipient, amount) ==
    /\ BurnFrom(d, source, user, amount)
    /\ Announce(d, Adapter, dest, Adapter, recipient, source,
                DestinationToken(d, source, dest), amount)
    /\ UNCHANGED <<now, pairs, underlying, locked, executed, minted>>

\* A user's own message to the adapter, deposited with the Bridge directly.
DepositMessage(d, user, dest, depositor, token, amount) ==
    /\ Announce(d, user, dest, depositor, user, Zero, token, amount)
    /\ UNCHANGED <<now, limits, pairs, balance, underlying, locked, executed, minted>>

-----------------------------------------------------------------------------
(* executeProposal *)

\* GmpTransferAdapter.executeProposal: gmpAdapter is this adapter.
AcceptsOrigin(t) == t.depositor = Adapter

\* Faulty variant of ExecuteMints: the proposal is not marked executed.
MintUnmarked(t) ==
    /\ t \notin executed
    /\ AcceptsOrigin(t)
    /\ t.token = TokenOf[t.dest]
    /\ t.amount <= CurrentLimit(limits[t.dest]["mint"], now)
    /\ limits' = [limits EXCEPT ![t.dest]["mint"] = AfterUse(@, now, t.amount)]
    /\ balance' = [balance EXCEPT ![t.dest][t.recipient] = @ + t.amount]
    /\ minted' = minted \cup {t}
    /\ UNCHANGED <<now, pairs, underlying, locked, deposits, executed>>

ExecuteMints(t) ==
    /\ t \notin executed
    /\ AcceptsOrigin(t)
    /\ t.token = TokenOf[t.dest]
    /\ t.amount <= CurrentLimit(limits[t.dest]["mint"], now)
    /\ limits' = [limits EXCEPT ![t.dest]["mint"] = AfterUse(@, now, t.amount)]
    /\ balance' = [balance EXCEPT ![t.dest][t.recipient] = @ + t.amount]
    /\ executed' = executed \cup {t}
    /\ minted' = minted \cup {t}
    /\ UNCHANGED <<now, pairs, underlying, locked, deposits>>

\* The adapter refuses the message, or the token the mint (no contract at the
\* address, too low a limit), or the call runs out of gas: GmpHandler returns
\* the failure as data and the Bridge keeps the nonce marked.  Just as little
\* comes of a mint of another contract than the token.
ExecuteFails(t) ==
    /\ t \notin executed
    /\ executed' = executed \cup {t}
    /\ UNCHANGED <<now, limits, pairs, balance, underlying, locked, deposits, minted>>

-----------------------------------------------------------------------------
SetTokenPairAddress(d, source, dest, token) ==
    /\ pairs' = [pairs EXCEPT ![d][source][dest] = token]
    /\ UNCHANGED <<now, limits, balance, underlying, locked, deposits, executed, minted>>

SetLimits(d, mintingLimit, burningLimit) ==
    /\ limits' = [limits EXCEPT
           ![d]["mint"] = AfterChange(@, now, mintingLimit),
           ![d]["burn"] = AfterChange(@, now, burningLimit)]
    /\ UNCHANGED <<now, pairs, balance, underlying, locked, deposits, executed, minted>>

Tick ==
    /\ now < MaxTime
    /\ now' = now + 1
    /\ UNCHANGED <<limits, pairs, balance, underlying, locked, deposits, executed, minted>>

Next ==
    \/ \E d \in Domains, u, to \in Users, n \in Amounts :
           LockboxDeposit(d, u, to, n) \/ LockboxWithdraw(d, u, to, n)
    \/ \E d, dest \in Domains, u, to \in Users, a \in Addresses, n \in Amounts :
           Deposit(d, u, a, dest, to, n)
    \/ \E d, dest \in Domains, u \in Users, a \in Users \cup {Adapter},
          token \in Addresses, n \in Amounts : DepositMessage(d, u, dest, a, token, n)
    \/ \E t \in deposits : ExecuteMints(t) \/ ExecuteFails(t)
    \/ \E p \in Pairings : SetTokenPairAddress(p[1], p[2], p[3], p[4])
    \/ \E d \in Domains, m, n \in NewLimits : SetLimits(d, m, n)
    \/ Tick

Spec == Init /\ [][Next]_vars

-----------------------------------------------------------------------------
(* Properties *)

Total(f) == SumFunction([d \in Domains |-> SumFunctionOnSet(f[d], Users)])

Value(ts) == SumFunction([t \in ts |-> t.amount])

\* Deposits for which the adapter burnt the token.
Genuine == {t \in deposits : t.depositor = Adapter /\ t.source = TokenOf[t.origin]}

\* What the adapter warns of ("Make sure that a malicious actor cannot deploy
\* arbitrary code to the same address as your XERC20 token on another chain"): it
\* burnt another contract, which stands where the token does at the destination,
\* or which an admin has paired with the token.
IsImpostor(t) ==
    /\ <<t.origin, t.source>> \in Counterfeits
    /\ t.token = TokenOf[t.dest]
    /\ \/ t.source = t.token
       \/ <<t.origin, t.source, t.dest, t.token>> \in Pairings

Impostors == {t \in deposits : t.depositor = Adapter /\ IsImpostor(t)}

\* Every token in existence, on any domain, under way, or lost by a failed mint
\* is backed by exactly one token in a lockbox, but for what was minted for
\* impostors: no deposit of any contract, no message, pairing, limit or failure
\* else mints what was not burnt, or mints it twice.
Backed ==
    Total(balance) + Value(Genuine \ minted) = SumFunction(locked) + Value(Impostors \cap minted)

\* "recipientAddress Address that will receive tokens on destination chain"
\* (IGmpTransferAdapter.sol): an executed transfer has paid its recipient.
ExecutedTransfersArePaid == Genuine \cap executed \subseteq minted
=============================================================================
