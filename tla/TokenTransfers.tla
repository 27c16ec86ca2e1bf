--------------------------- MODULE TokenTransfers ---------------------------
(***************************************************************************)
(* ERC-20 transfers of one resource between several domains: on each       *)
(* domain a Bridge and its ERC20Handlers (src/contracts/handlers/          *)
(* ERC20Handler.sol with DepositDataHelper, ERCHandlerHelpers, ERC20Safe)  *)
(* holding the domain's token, and the relayers whose MPC key signs every  *)
(* announced deposit for its destination.                                  *)
(*                                                                         *)
(* A step is a whole transaction: BridgeLedger says that a Bridge's        *)
(* transactions are atomic and deliver a proposal at most once, and Bridge *)
(* implements BridgeLedger.  Signed proposals may be submitted by anybody, *)
(* in any order, any number of times; a submission that the Bridge skips   *)
(* or whose handler reverts changes nothing and is not a step.             *)
(***************************************************************************)
EXTENDS TokenDecimals, FiniteSetsExt

CONSTANTS
    Handlers,         \* ERC20Handler contracts of a domain
    Unmapped,         \* no handler: address(0)
    Users,
    Receiver,         \* the DefaultMessageReceiver
    Zero,             \* address(0) as a recipient
    Burnable,         \* the domains whose token is minted and burned ("mb")
    Minted,           \* Minted[d]: what each user of d owns at the start
    Amounts,          \* the amounts users deposit
    Recipients,       \* the recipients they name
    Messages,         \* the optional messages they attach
    Upgrades,         \* the <<domain, handler>> the admin registers
    WithdrawTo,       \* where the admin moves tokens of a handler
    MaxNonce          \* bound: deposits for each destination

Holders == Users \cup Handlers \cup {Receiver}

ASSUME TransferAssumption ==
    /\ IsFiniteSet(Domains)
    /\ IsFiniteSet(Users)
    /\ Users \cap Handlers = {}    \* no handler makes deposits
    /\ MaxNonce \in Nat
    /\ Burnable \subseteq Domains
    /\ Minted \in [Domains -> Nat]
    /\ Amounts \subseteq Nat
    /\ Recipients \subseteq Holders \cup {Zero}
    /\ Messages \subseteq {"absent", "valid", "invalid"}
    /\ Upgrades \subseteq Domains \X Handlers
    /\ WithdrawTo \subseteq Holders

VARIABLES
    paused,       \* paused[d]: d's Bridge is paused
    handlerOf,    \* handlerOf[d]: the handler d's Bridge maps the resource to
    isWhitelisted, \* isWhitelisted[d]: the handlers of d that know the token
    isBurnable,   \* isBurnable[d]: those that mint and burn it
    balance,      \* balance[d][a]: what a owns of d's token
    deposits,     \* the deposits announced by Deposit events, of all domains
    executed,     \* those whose proposal was executed at its destination
    refused,      \* those whose message their payee would refuse at present
    withdrawn     \* withdrawn[d]: what the admin took out of d's handlers

tokens == <<isWhitelisted, isBurnable>>

vars == <<paused, handlerOf, tokens, balance, deposits, executed, refused, withdrawn>>

Transfer == [
    origin : Domains,
    dest : Domains,
    nonce : 1 .. MaxNonce,
    given : Nat,               \* what the depositor paid, in the origin's decimals
    amount : Nat,              \* the amount in the proposal, in DefaultDecimals
    recipient : Recipients,
    message : Messages]

TypeOK ==
    /\ paused \in [Domains -> BOOLEAN]
    /\ handlerOf \in [Domains -> Handlers \cup {Unmapped}]
    /\ isWhitelisted \in [Domains -> SUBSET Handlers]
    /\ isBurnable \in [Domains -> SUBSET Handlers]
    /\ balance \in [Domains -> [Holders -> Nat]]
    /\ deposits \subseteq Transfer
    /\ executed \subseteq deposits
    /\ refused \subseteq deposits \ executed
    /\ withdrawn \in [Domains -> Nat]

Init ==
    /\ paused = [d \in Domains |-> FALSE]
    /\ handlerOf = [d \in Domains |-> Unmapped]
    /\ isWhitelisted = [d \in Domains |-> {}]
    /\ isBurnable = [d \in Domains |-> {}]
    /\ balance = [d \in Domains |->
                     [a \in Holders |-> IF a \in Users THEN Minted[d] ELSE 0]]
    /\ deposits = {}
    /\ executed = {}
    /\ refused = {}
    /\ withdrawn = [d \in Domains |-> 0]

-----------------------------------------------------------------------------
(* deposit *)

DepositCount(d, dest) == Cardinality({t \in deposits : t.origin = d /\ t.dest = dest})

\* burnERC20 or lockERC20
TakenFrom(d, user, amount) ==
    LET h == handlerOf[d]
        paid == [balance[d] EXCEPT ![user] = @ - amount]
    IN  IF h \in isBurnable[d] THEN paid ELSE [paid EXCEPT ![h] = @ + amount]

Deposit(d, user, dest, amount, recipient, message) ==
    /\ ~paused[d]
    /\ dest # d
    /\ handlerOf[d] # Unmapped
    /\ DepositCount(d, dest) < MaxNonce
    /\ balance[d][user] >= amount
    /\ balance' = [balance EXCEPT ![d] = TakenFrom(d, user, amount)]
    /\ deposits' = deposits \cup
           {[origin |-> d, dest |-> dest, nonce |-> DepositCount(d, dest) + 1,
             given |-> amount, amount |-> ConvertToInternal(d, amount),
             recipient |-> recipient, message |-> message]}
    /\ UNCHANGED <<paused, handlerOf, tokens, executed, refused, withdrawn>>

-----------------------------------------------------------------------------
(* executeProposal *)

IsExecuted(t) ==
    \E e \in executed : e.dest = t.dest /\ e.origin = t.origin /\ e.nonce = t.nonce

\* A valid message for nobody goes to the DefaultMessageReceiver.
Payee(t) ==
    IF t.message = "valid" /\ t.recipient = Zero THEN Receiver ELSE t.recipient

\* Faulty variant of CanPay: does not look at what the handler owns.
CanPayAlways(t) == Payee(t) # Zero

\* Faulty variant of CanPay: a handler that mints needs a balance, too.
CanPayFromBalance(t) ==
    /\ Payee(t) # Zero
    /\ balance[t.dest][handlerOf[t.dest]] >= ConvertToExternal(t.dest, t.amount)

\* The token accepts the handler's mint or transfer: neither goes to address(0),
\* and a release needs the tokens.
CanPay(t) ==
    LET h == handlerOf[t.dest]
    IN  /\ Payee(t) # Zero
        /\ h \in isBurnable[t.dest]
               \/ balance[t.dest][h] >= ConvertToExternal(t.dest, t.amount)

\* mintERC20 or releaseERC20
PaidTo(t) ==
    LET h == handlerOf[t.dest]
        amount == ConvertToExternal(t.dest, t.amount)
        released == [balance[t.dest] EXCEPT ![h] = @ - amount]
    IN  IF h \in isBurnable[t.dest]
        THEN [balance[t.dest] EXCEPT ![Payee(t)] = @ + amount]
        ELSE [released EXCEPT ![Payee(t)] = @ + amount]

\* Faulty variant of ExecuteProposal: a paused Bridge executes.
ExecuteWhilePaused(t) ==
    /\ ~IsExecuted(t)
    /\ handlerOf[t.dest] # Unmapped
    /\ CanPay(t)
    /\ t \notin refused
    /\ balance' = [balance EXCEPT ![t.dest] = PaidTo(t)]
    /\ executed' = executed \cup {t}
    /\ UNCHANGED <<paused, handlerOf, tokens, deposits, refused, withdrawn>>

\* The tokens move first.  An invalid message ends there; a valid one is then
\* passed to the payee, whose refusal reverts everything, at every attempt.
ExecuteProposal(t) ==
    /\ ~paused[t.dest]
    /\ ~IsExecuted(t)
    /\ handlerOf[t.dest] # Unmapped
    /\ CanPay(t)
    /\ t \notin refused
    /\ balance' = [balance EXCEPT ![t.dest] = PaidTo(t)]
    /\ executed' = executed \cup {t}
    /\ UNCHANGED <<paused, handlerOf, tokens, deposits, refused, withdrawn>>

\* Whether the call with a valid message succeeds is up to the payee's code, the
\* message and the gas it names, and may change; an account without code accepts
\* whatever it is called with.
PayeeChangesAnswer(t) ==
    /\ t \in deposits \ executed
    /\ t.message = "valid"
    /\ refused' = IF t \in refused THEN refused \ {t} ELSE refused \cup {t}
    /\ UNCHANGED <<paused, handlerOf, tokens, balance, deposits, executed, withdrawn>>

-----------------------------------------------------------------------------
(* Administration *)

\* _setResource: whatever was set before, the token is locked and released.
\* The admin gives each handler, each time, the token's own Decimals[d].
AdminSetResource(d, h) ==
    /\ handlerOf' = [handlerOf EXCEPT ![d] = h]
    /\ isWhitelisted' = [isWhitelisted EXCEPT ![d] = @ \cup {h}]
    /\ isBurnable' = [isBurnable EXCEPT ![d] = @ \ {h}]
    /\ UNCHANGED <<paused, balance, deposits, executed, refused, withdrawn>>

AdminSetBurnable(d, h) ==
    /\ h \in isWhitelisted[d]
    /\ isBurnable' = [isBurnable EXCEPT ![d] = @ \cup {h}]
    /\ UNCHANGED <<paused, handlerOf, isWhitelisted, balance, deposits, executed,
                   refused, withdrawn>>

\* Any token, whatever is owed to transfers under way.  A withdrawal to another
\* handler moves the liquidity, any other takes it out.
AdminWithdraw(d, h, to, amount) ==
    /\ to # h
    /\ amount <= balance[d][h]
    /\ balance' = [balance EXCEPT ![d][h] = @ - amount, ![d][to] = @ + amount]
    /\ withdrawn' = IF to \in Handlers THEN withdrawn
                    ELSE [withdrawn EXCEPT ![d] = @ + amount]
    /\ UNCHANGED <<paused, handlerOf, tokens, deposits, executed, refused>>

AdminTogglePause(d) ==
    /\ paused' = [paused EXCEPT ![d] = ~@]
    /\ UNCHANGED <<handlerOf, tokens, balance, deposits, executed, refused, withdrawn>>

-----------------------------------------------------------------------------
Next ==
    \/ \E d, dest \in Domains, u \in Users, n \in Amounts, r \in Recipients,
          m \in Messages : Deposit(d, u, dest, n, r, m)
    \/ \E t \in deposits : ExecuteProposal(t) \/ PayeeChangesAnswer(t)
    \/ \E u \in Upgrades : AdminSetResource(u[1], u[2])
    \/ \E d \in Burnable, h \in Handlers : AdminSetBurnable(d, h)
    \/ \E d \in Domains, h \in Handlers, a \in WithdrawTo, n \in Amounts :
           AdminWithdraw(d, h, a, n)
    \/ \E d \in Domains : AdminTogglePause(d)

Spec == Init /\ [][Next]_vars

\* The relayers submit every signed proposal again and again.
ExecuteDeposit(d, dest, n) ==
    \E t \in deposits : /\ t.origin = d /\ t.dest = dest /\ t.nonce = n
                        /\ ExecuteProposal(t)

FairSpec ==
    /\ Spec
    /\ \A d, dest \in Domains, n \in 1 .. MaxNonce :
           WF_vars(ExecuteDeposit(d, dest, n))

-----------------------------------------------------------------------------
(* Properties.  Values are compared in units of MaxDecimals. *)

Pending == deposits \ executed

Circulating(d) == SumFunctionOnSet(balance[d], Holders \ Handlers)

OwnedValue == SumFunction([d \in Domains |-> Circulating(d) * Unit(d)])

PendingValue == SumFunction([t \in Pending |-> t.amount * ProposalUnit])

\* What people owned at the start, and what the admin took out of the handlers.
GivenValue ==
    SumFunction([d \in Domains |->
                    (Minted[d] * Cardinality(Users) + withdrawn[d]) * Unit(d)])

\* However domains, decimals, handlers and mint/burn flags are mixed, and
\* whenever they change, what people own anywhere and what is on its way is
\* never worth more than what they owned at the start and what the admin took
\* out of the handlers.
NoValueCreated == OwnedValue + PendingValue <= GivenValue

\* The two conversions of a transfer lose less than one unit of the coarsest of
\* the three amounts it passes through, and never gain.
LosesOnlyDust ==
    \A t \in deposits :
        LET lost == t.given * Unit(t.origin)
                        - ConvertToExternal(t.dest, t.amount) * Unit(t.dest)
        IN  0 <= lost /\ lost < Max({Unit(t.origin), Unit(t.dest), ProposalUnit})

\* d's Bridge runs, with the resource mapped to a handler that mints or, where
\* the token is locked, that owns all the tokens locked there; and the admin took
\* no tokens out, on any domain: what a minting domain locked before its handler
\* was made burnable is owed by the others just the same.
Operational(d) ==
    /\ ~paused[d]
    /\ handlerOf[d] # Unmapped
    /\ \A e \in Domains : withdrawn[e] = 0
    /\ IF d \in Burnable
       THEN handlerOf[d] \in isBurnable[d]
       ELSE \A h \in Handlers \ {handlerOf[d]} : balance[d][h] = 0

Awaits(d, dest, n) ==
    \E t \in Pending : t.origin = d /\ t.dest = dest /\ t.nonce = n /\ Payee(t) # Zero

Refuses(d, dest, n) ==
    \E t \in refused : t.origin = d /\ t.dest = dest /\ t.nonce = n

\* A deposit that names a payee is paid in the end if from some time on its
\* destination stays operational and its payee does not refuse its message, where
\* it has a valid one: relayers resubmit it, no failed attempt and no other
\* transfer uses up its nonce, and the tokens it needs are never paid to somebody
\* else.  Other payees may refuse theirs for ever.
EventuallyPaid ==
    \A d, dest \in Domains, n \in 1 .. MaxNonce :
        <>[](Operational(dest) /\ ~Refuses(d, dest, n))
            => (Awaits(d, dest, n) ~> ~Awaits(d, dest, n))

\* Each domain's Bridge takes only the steps BridgeLedger allows it.
Ledger(d) == INSTANCE BridgeLedger WITH
    Accounts <- {"mpc"}, NoKey <- "none", key <- "mpc",
    Deposit <- LAMBDA t : <<t.origin, t.nonce>>,
    SignedBy <- LAMBDA k : {t \in Transfer : t.dest = d},
    Announcements <- Domains \X (1 .. MaxNonce),
    delivered <- {t \in executed : t.dest = d},
    announced <- {<<t.dest, t.nonce>> : t \in {u \in deposits : u.origin = d}},
    paused <- paused[d]

BridgesKeepLedgers ==
    [][\A d \in Domains : Ledger(d)!Next \/ UNCHANGED Ledger(d)!ledger]_vars
=============================================================================
