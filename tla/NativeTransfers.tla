-------------------------- MODULE NativeTransfers --------------------------
(***************************************************************************)
(* Transfers of native coins between domains: on each domain a             *)
(* NativeTokenAdapter that deposits with the Bridge and funds the          *)
(* NativeTokenHandler (src/contracts/adapters/nativeTokens,                *)
(* src/contracts/handlers/NativeTokenHandler.sol), and the fees that the   *)
(* FeeHandlerRouter has a BasicFeeHandler or a TwapFeeHandler collect      *)
(* (src/contracts/handlers/FeeHandlerRouter.sol, fee/).                    *)
(*                                                                         *)
(* A step is a whole transaction, as in TokenTransfers.  Whoever is paid   *)
(* or refunded runs code of its own; calls it makes then are steps that    *)
(* follow, because the contracts here change nothing after the payment.    *)
(***************************************************************************)
EXTENDS TokenDecimals, FiniteSetsExt

CONSTANTS
    Users,
    Handlers,      \* NativeTokenHandler contracts of a domain
    Unmapped,      \* no handler: address(0)
    Adapter,       \* the NativeTokenAdapter
    FeeHandler,    \* the fee handler the router names
    Receiver,      \* the DefaultMessageReceiver
    Zero,          \* address(0) as a recipient
    FeeKind,       \* FeeKind[d]: "basic" or "twap"
    Fees,          \* the fees set by the admin, or by price and gas price
    Owned,         \* Owned[d]: what each user of d owns at the start
    Values,        \* the coins users send with a call
    Recipients,    \* the recipients they name
    Messages,      \* the optional messages they attach
    Upgrades,      \* the <<domain, handler>> the admin registers
    WithdrawTo,    \* where the admin moves a handler's coins
    Treasury,      \* where the admin moves fees
    MaxNonce       \* bound: deposits for each destination

Holders == Users \cup Handlers \cup {Adapter, FeeHandler, Receiver, Zero, Treasury}

\* The contracts have addresses of their own.  No coins are paid to a fee handler
\* but with a deposit: it has no receive function, so that paying it reverts.
ASSUME NativeAssumption ==
    /\ Users \cap (Handlers \cup {Adapter, FeeHandler, Receiver, Zero, Treasury}) = {}
    /\ FeeKind \in [Domains -> {"basic", "twap"}]
    /\ Fees \subseteq Nat
    /\ Owned \in [Domains -> Nat]
    /\ Values \subseteq Nat \ {0}
    /\ Recipients \subseteq Holders
    /\ Messages \subseteq {"absent", "valid", "invalid"}
    /\ Upgrades \subseteq Domains \X Handlers
    /\ WithdrawTo \subseteq Holders \ {Zero, FeeHandler}
    /\ FeeHandler \notin Recipients
    /\ Handlers \cap {Unmapped, Adapter, FeeHandler, Receiver, Zero} = {}
    /\ FeeHandler \notin {Adapter, Receiver, Zero, Treasury}
    /\ IsFiniteSet(Domains)
    /\ IsFiniteSet(Handlers)
    /\ MaxNonce \in Nat

VARIABLES
    handlerOf,  \* handlerOf[d]: the handler d's Bridge maps the resource to
    coins,      \* coins[d][a]: what a owns of d's native coin
    fee,        \* fee[d]: what the fee handler asks for
    whitelist,  \* whitelist[d]: those the router exempts from fees
    deposits,   \* the deposits announced by Deposit events, of all domains
    executed,   \* those executed at their destination
    withdrawn,  \* withdrawn[d]: what the admin took out of d's handlers
    due         \* due[d]: the fees quoted to depositors and not yet distributed

vars == <<handlerOf, coins, fee, whitelist, deposits, executed, withdrawn, due>>

Transfer == [
    origin : Domains,
    dest : Domains,
    nonce : 1 .. MaxNonce,
    amount : Nat,           \* in DefaultDecimals
    recipient : Recipients,
    message : Messages]

TypeOK ==
    /\ handlerOf \in [Domains -> Handlers \cup {Unmapped}]
    /\ coins \in [Domains -> [Holders -> Nat]]
    /\ fee \in [Domains -> Fees \cup {0}]
    /\ whitelist \in [Domains -> SUBSET (Users \cup {Adapter})]
    /\ deposits \subseteq Transfer
    /\ executed \subseteq deposits
    /\ withdrawn \in [Domains -> Nat]
    /\ due \in [Domains -> Nat]

Init ==
    /\ handlerOf = [d \in Domains |-> Unmapped]
    /\ coins = [d \in Domains |-> [a \in Holders |-> IF a \in Users THEN Owned[d] ELSE 0]]
    /\ fee = [d \in Domains |-> 0]
    /\ whitelist = [d \in Domains |-> {}]
    /\ deposits = {}
    /\ executed = {}
    /\ withdrawn = [d \in Domains |-> 0]
    /\ due = [d \in Domains |-> 0]

\* The balances of d after a pays n to b.
Paid(d, a, b, n) == [coins[d] EXCEPT ![a] = @ - n, ![b] = @ + n]

-----------------------------------------------------------------------------
(* Fees *)

\* calculateFee of the router and the fee handler.
Quote(d, sender) == IF sender \in whitelist[d] THEN 0 ELSE fee[d]

\* Faulty variant of Accepts: a whitelisted sender may send coins all the same.
AcceptsFromExempt(d, sender, value) ==
    IF sender \in whitelist[d] THEN TRUE
    ELSE IF FeeKind[d] = "basic" THEN value = fee[d]
    ELSE value >= fee[d]

\* collectFee accepts the coins sent with the call: nothing from the whitelisted,
\* the exact fee, or for a TWAP fee enough.
Accepts(d, sender, value) ==
    IF sender \in whitelist[d] THEN value = 0
    ELSE IF FeeKind[d] = "basic" THEN value = fee[d]
    ELSE value >= fee[d]

\* What a TwapFeeHandler sends back to the sender.
Excess(d, sender, value) ==
    IF sender \notin whitelist[d] /\ FeeKind[d] = "twap" THEN value - fee[d] ELSE 0

-----------------------------------------------------------------------------
(* deposit *)

DepositCount(d, dest) == Cardinality({t \in deposits : t.origin = d /\ t.dest = dest})

\* Faulty variant of TransferAmount: the fee is not deducted.
TransferWholeValue(d, value) == value

TransferAmount(d, value) == value - Quote(d, Adapter)

\* depositGeneral: the fee goes with the deposit, what is left to the handler,
\* and all that is then in the adapter to the sender, who may refuse it.
DepositGeneral(d, user, dest, value, recipient, message, refuses) ==
    LET paid == Quote(d, Adapter)
        amount == TransferAmount(d, value)
        leftover == IF refuses THEN 0 ELSE coins[d][Adapter]
    IN  /\ dest # d
        /\ value <= coins[d][user]
        /\ paid <= value
        /\ Accepts(d, Adapter, paid)
        /\ handlerOf[d] # Unmapped
        /\ DepositCount(d, dest) < MaxNonce
        /\ deposits' = deposits \cup
               {[origin |-> d, dest |-> dest, nonce |-> DepositCount(d, dest) + 1,
                 amount |-> ConvertToInternal(d, amount), recipient |-> recipient,
                 message |-> message]}
        /\ coins' = [coins EXCEPT ![d] = [coins[d] EXCEPT
               ![user] = @ - value + leftover,
               ![Adapter] = @ - leftover,
               ![FeeHandler] = @ + paid,
               ![handlerOf[d]] = @ + (value - paid)]]
        /\ due' = [due EXCEPT ![d] = @ + paid]
        /\ UNCHANGED <<handlerOf, fee, whitelist, executed, withdrawn>>

\* A user deposits another resource with the Bridge, which collects the fee.
DepositOther(d, user, value) ==
    /\ value <= coins[d][user]
    /\ Accepts(d, user, value)
    /\ coins' = [coins EXCEPT ![d] =
                     Paid(d, user, FeeHandler, value - Excess(d, user, value))]
    /\ due' = [due EXCEPT ![d] = @ + Quote(d, user)]
    /\ UNCHANGED <<handlerOf, fee, whitelist, deposits, executed, withdrawn>>

\* A plain transfer: adapter and handlers can receive.
Send(d, user, to, value) ==
    /\ value <= coins[d][user]
    /\ coins' = [coins EXCEPT ![d] = Paid(d, user, to, value)]
    /\ UNCHANGED <<handlerOf, fee, whitelist, deposits, executed, withdrawn, due>>

-----------------------------------------------------------------------------
(* executeProposal *)

\* A valid message for nobody goes to the DefaultMessageReceiver; without a
\* message the coins go to address(0) itself.
Payee(t) ==
    IF t.message = "valid" /\ t.recipient = Zero THEN Receiver ELSE t.recipient

\* Faulty variant of CanPay: does not look at what the handler owns.
CanPayAlways(t) == TRUE

CanPay(t) == ConvertToExternal(t.dest, t.amount) <= coins[t.dest][handlerOf[t.dest]]

ExecutePays(t) ==
    /\ t \notin executed
    /\ handlerOf[t.dest] # Unmapped
    /\ t.message # "invalid"
    /\ CanPay(t)
    /\ coins' = [coins EXCEPT ![t.dest] =
           Paid(t.dest, handlerOf[t.dest], Payee(t), ConvertToExternal(t.dest, t.amount))]
    /\ executed' = executed \cup {t}
    /\ UNCHANGED <<handlerOf, fee, whitelist, deposits, withdrawn, due>>

\* The handler returns before it pays: the nonce is used up.
ExecuteInvalid(t) ==
    /\ t \notin executed
    /\ handlerOf[t.dest] # Unmapped
    /\ t.message = "invalid"
    /\ executed' = executed \cup {t}
    /\ UNCHANGED <<handlerOf, coins, fee, whitelist, deposits, withdrawn, due>>

-----------------------------------------------------------------------------
(* Administration *)

AdminSetResource(d, h) ==
    /\ handlerOf' = [handlerOf EXCEPT ![d] = h]
    /\ UNCHANGED <<coins, fee, whitelist, deposits, executed, withdrawn, due>>

\* The balance is compared with an amount that is still 0.
AdminWithdraw(d, h, to, amount) ==
    /\ to # h
    /\ coins[d][h] > 0
    /\ amount <= coins[d][h]
    /\ coins' = [coins EXCEPT ![d] = Paid(d, h, to, amount)]
    /\ withdrawn' = IF to \in Handlers THEN withdrawn
                    ELSE [withdrawn EXCEPT ![d] = @ + amount]
    /\ UNCHANGED <<handlerOf, fee, whitelist, deposits, executed, due>>

\* changeFee, or a change of price, gas price or gas used.
ChangeFee(d, newFee) ==
    /\ newFee # fee[d]
    /\ fee' = [fee EXCEPT ![d] = newFee]
    /\ UNCHANGED <<handlerOf, coins, whitelist, deposits, executed, withdrawn, due>>

AdminSetWhitelist(d, account, isWhitelisted) ==
    /\ whitelist' = [whitelist EXCEPT ![d] =
                         IF isWhitelisted THEN @ \cup {account} ELSE @ \ {account}]
    /\ UNCHANGED <<handlerOf, coins, fee, deposits, executed, withdrawn, due>>

TransferFee(d, amount) ==
    /\ amount <= coins[d][FeeHandler]
    /\ coins' = [coins EXCEPT ![d] = Paid(d, FeeHandler, Treasury, amount)]
    /\ due' = [due EXCEPT ![d] = @ - amount]
    /\ UNCHANGED <<handlerOf, fee, whitelist, deposits, executed, withdrawn>>

Next ==
    \/ \E d, dest \in Domains, u \in Users, n \in Values, r \in Recipients,
          m \in Messages, refuses \in BOOLEAN :
           DepositGeneral(d, u, dest, n, r, m, refuses)
    \/ \E d \in Domains, u \in Users, n \in Values \cup {0} : DepositOther(d, u, n)
    \/ \E d \in Domains, u \in Users, a \in Handlers \cup {Adapter}, n \in Values :
           Send(d, u, a, n)
    \/ \E t \in deposits : ExecutePays(t) \/ ExecuteInvalid(t)
    \/ \E u \in Upgrades : AdminSetResource(u[1], u[2])
    \/ \E d \in Domains, h \in Handlers, a \in WithdrawTo, n \in Values :
           AdminWithdraw(d, h, a, n)
    \/ \E d \in Domains, n \in Fees : ChangeFee(d, n)
    \/ \E d \in Domains, a \in Users \cup {Adapter}, b \in BOOLEAN :
           AdminSetWhitelist(d, a, b)
    \/ \E d \in Domains, n \in Values : TransferFee(d, n)

Spec == Init /\ [][Next]_vars

-----------------------------------------------------------------------------
(* Properties *)

\* Not yet paid, or never, because the message was invalid.
Unpaid == {t \in deposits : t \notin executed \/ t.message = "invalid"}

UnpaidValue == SumFunction([t \in Unpaid |-> t.amount * ProposalUnit])

\* What the handlers own and what the admin took out of them.
CoinsValue ==
    SumFunction([d \in Domains |->
                    (SumFunctionOnSet(coins[d], Handlers) + withdrawn[d]) * Unit(d)])

\* What deposits announce is covered by coins: those that were not paid, the
\* swallowed ones included, are worth no more than what the handlers of all
\* domains own and what the admin took out, whatever fees, exemptions, stray
\* coins, refused refunds, roundings and new handlers come in between.
Funded == UnpaidValue <= CoinsValue

\* The fee handler owns exactly what depositors were quoted and the admin has not
\* distributed: nobody pays more or less than calculateFee says at the time of
\* the deposit, through the adapter or not, and every excess is sent back.
FeesAsQuoted == \A d \in Domains : coins[d][FeeHandler] = due[d]
=============================================================================
