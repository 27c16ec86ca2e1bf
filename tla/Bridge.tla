------------------------------- MODULE Bridge -------------------------------
(***************************************************************************)
(* One Bridge contract (src/contracts/Bridge.sol) under re-entrancy and    *)
(* partial rollback.                                                       *)
(*                                                                         *)
(* A call into the Bridge that reaches an external contract (a fee handler *)
(* or a resource handler, and through them tokens, receivers and message   *)
(* contracts) hands control to code the Bridge does not know: before it    *)
(* returns, that code may call the Bridge again.  `stack` holds the Bridge *)
(* calls in progress, outermost first.  `store` is the contract's storage  *)
(* and the history the properties speak of: the part of the world that the *)
(* EVM restores when a call reverts, so each frame keeps the storage found *)
(* at its entry, and an execution frame also the storage handed to the     *)
(* handler call of its current proposal.                                   *)
(***************************************************************************)
EXTENDS Integers, Sequences, NonceBitmap

CONSTANTS
    DomainID,        \* uint8 _domainID, this bridge's domain
    Domains,         \* the domains deposits come from and go to
    Resources,       \* resource IDs
    Handlers,        \* resource handler contracts
    FeeHandlers,     \* fee handler contracts
    Accounts,        \* addresses a signature can be recovered to
    Zero,            \* address(0)
    Proposals,       \* the proposals there are: [origin, nonce, resource, data]
    Signed,          \* Signed[a]: the batches account a ever signs for this bridge
    Requests,        \* the deposit calls users make: [dest, resource, value]
    NonceJumps,      \* the nonces passed to adminSetDepositNonce
    MaxDepositNonce, \* the largest value of _depositCounts (2^64 - 1)
    MaxDepth         \* bound: Bridge calls in progress at once

Origins == {p.origin : p \in Proposals}

Words == {Word(p.nonce) : p \in Proposals}

Destinations == Domains \ {DomainID}

DepositNonces == 1 .. MaxDepositNonce

ASSUME DomainAssumption ==
    /\ DomainID \in Domains
    /\ MaxDepositNonce \in Nat
    /\ MaxDepth \in Nat

ASSUME AddressAssumption == Zero \notin Handlers \cup FeeHandlers \cup Accounts

ASSUME ProposalAssumption ==
    \A p \in Proposals : p.nonce \in Nat /\ p.resource \in Resources

ASSUME SignedAssumption == \A a \in Accounts : Signed[a] \subseteq Seq(Proposals)

ASSUME RequestAssumption ==
    /\ \A d \in Requests : d.dest \in Domains /\ d.resource \in Resources
    /\ NonceJumps \subseteq Nat

VARIABLES
    store,  \* the storage of the Bridge and what has been delivered and announced
    stack   \* the Bridge calls in progress, outermost first

vars == <<store, stack>>

-----------------------------------------------------------------------------
(* The storage.  The last three fields are history: how often each         *)
(* proposal was executed by its handler, how often each deposit nonce was  *)
(* announced by a Deposit event, and the nonces adminSetDepositNonce       *)
(* jumped over.                                                            *)

Store == [
    usedNonces : [Origins -> [Words -> SUBSET Bits]],
    depositCounts : [Destinations -> 0 .. MaxDepositNonce],
    handlerOf : [Resources -> Handlers \cup {Zero}],
    feeHandler : FeeHandlers \cup {Zero},
    MPCAddress : Accounts \cup {Zero},
    paused : BOOLEAN,
    delivered : [Proposals -> Nat],
    announced : [Destinations -> [DepositNonces -> Nat]],
    skipped : [Destinations -> SUBSET DepositNonces]]

DepositFrame == [
    pc : {"fee", "allocate", "handler"},
    dest : Destinations,
    resource : Resources,
    nonce : 0 .. MaxDepositNonce,
    entry : Store]

ExecuteFrame == [
    pc : {"loop", "call"},
    batch : Seq(Proposals),
    i : Nat \ {0},
    entry : Store,
    before : Store]

TypeOK ==
    /\ store \in Store
    /\ stack \in Seq(DepositFrame \cup ExecuteFrame)

Init ==
    /\ store = [
           usedNonces |-> [o \in Origins |-> [w \in Words |-> {}]],
           depositCounts |-> [d \in Destinations |-> 0],
           handlerOf |-> [r \in Resources |-> Zero],
           feeHandler |-> Zero,
           MPCAddress |-> Zero,
           paused |-> TRUE,
           delivered |-> [p \in Proposals |-> 0],
           announced |-> [d \in Destinations |-> [n \in DepositNonces |-> 0]],
           skipped |-> [d \in Destinations |-> {}]]
    /\ stack = <<>>

-----------------------------------------------------------------------------
(* Call frames. *)

Depth == Len(stack)

Top == stack[Depth]

Running(pc) == Depth > 0 /\ Top.pc = pc

\* Somebody other than the Bridge runs: no transaction is in progress, or the
\* innermost Bridge call waits for a fee handler or a resource handler.
ExternalControl == Depth > 0 => Top.pc \in {"fee", "handler", "call"}

Enter(frame) ==
    /\ ExternalControl
    /\ Depth < MaxDepth
    /\ stack' = Append(stack, frame)

Continue(frame) == stack' = [stack EXCEPT ![Depth] = frame]

Leave == stack' = SubSeq(stack, 1, Depth - 1)

\* The innermost call reverts (a require, a callee's revert, out of gas): what
\* it did, nested calls included, is undone and its caller goes on.
Revert ==
    /\ Depth > 0
    /\ store' = Top.entry
    /\ Leave

-----------------------------------------------------------------------------
(* deposit *)

Deposit(dest, resource, value) ==
    /\ ~store.paused
    /\ dest # DomainID
    /\ store.feeHandler = Zero => value = 0
    /\ Enter([pc |-> IF store.feeHandler = Zero THEN "allocate" ELSE "fee",
              dest |-> dest, resource |-> resource, nonce |-> 0,
              entry |-> store])
    /\ UNCHANGED store

FeeCollected ==
    /\ Running("fee")
    /\ Continue([Top EXCEPT !.pc = "allocate"])
    /\ UNCHANGED store

\* Faulty variant of AllocateNonce: counts from the value read before the fee
\* handler ran.
AllocateStaleNonce ==
    /\ Running("allocate")
    /\ store.handlerOf[Top.resource] # Zero
    /\ Top.entry.depositCounts[Top.dest] < MaxDepositNonce
    /\ store' = [store EXCEPT !.depositCounts[Top.dest] =
                                   Top.entry.depositCounts[Top.dest] + 1]
    /\ Continue([Top EXCEPT !.pc = "handler",
                            !.nonce = Top.entry.depositCounts[Top.dest] + 1])

\* Reads the handler only now, after the fee handler's code ran.  Without a
\* handler, or when the checked ++ overflows, only Revert is left.
AllocateNonce ==
    /\ Running("allocate")
    /\ store.handlerOf[Top.resource] # Zero
    /\ store.depositCounts[Top.dest] < MaxDepositNonce
    /\ store' = [store EXCEPT !.depositCounts[Top.dest] = @ + 1]
    /\ Continue([Top EXCEPT !.pc = "handler",
                            !.nonce = store.depositCounts[Top.dest] + 1])

\* The handler took the tokens; the Deposit event announces the nonce.
DepositHandled ==
    /\ Running("handler")
    /\ store' = [store EXCEPT !.announced[Top.dest][Top.nonce] = @ + 1]
    /\ Leave

-----------------------------------------------------------------------------
(* executeProposals *)

\* Faulty variant of Verify: any recovered signer will do.
VerifyAnySigner(signer) == signer # Zero

\* The EIP-712 signature over the whole array recovers to the MPC address.
Verify(signer) == signer = store.MPCAddress

\* Faulty variant of ExecuteProposals: the whenNotPaused modifier is missing.
ExecuteWhilePaused(batch, signer) ==
    /\ batch # <<>>
    /\ Verify(signer)
    /\ Enter([pc |-> "loop", batch |-> batch, i |-> 1,
              entry |-> store, before |-> store])
    /\ UNCHANGED store

ExecuteProposals(batch, signer) ==
    /\ ~store.paused
    /\ batch # <<>>
    /\ Verify(signer)
    /\ Enter([pc |-> "loop", batch |-> batch, i |-> 1,
              entry |-> store, before |-> store])
    /\ UNCHANGED store

Current == Top.batch[Top.i]

InBatch == Running("loop") /\ Top.i <= Len(Top.batch)

Executed(s, p) == IsExecuted(s.usedNonces, p.origin, p.nonce)

SkipExecuted ==
    /\ InBatch
    /\ Executed(store, Current)
    /\ Continue([Top EXCEPT !.i = @ + 1])
    /\ UNCHANGED store

Marked(s, p) == [s EXCEPT !.usedNonces = Mark(@, p.origin, p.nonce)]

\* Faulty variant of BeforeCall: the nonce is left to be marked later.
BeforeCallUnmarked(s, p) == s

\* The storage a handler call starts from: the nonce is already used up.
BeforeCall(s, p) == Marked(s, p)

\* The nonce is marked before the handler runs.  An unmapped resource means a
\* call to address(0), whose missing return data makes the whole
\* executeProposals revert outside the try: only Revert is left.
CallHandler ==
    /\ InBatch
    /\ ~Executed(store, Current)
    /\ store.handlerOf[Current.resource] # Zero
    /\ store' = BeforeCall(store, Current)
    /\ Continue([Top EXCEPT !.pc = "call", !.before = store'])

AfterSuccess(s, p) == [s EXCEPT !.delivered[p] = @ + 1]

HandlerSucceeds ==
    /\ Running("call")
    /\ store' = AfterSuccess(store, Current)
    /\ Continue([Top EXCEPT !.pc = "loop", !.i = @ + 1])

AfterFailure(s, p) == [s EXCEPT !.usedNonces = Clear(@, p.origin, p.nonce)]

\* The handler call reverts, with everything it did; the catch branch frees
\* the nonce and the batch goes on.
HandlerReverts ==
    /\ Running("call")
    /\ store' = AfterFailure(Top.before, Current)
    /\ Continue([Top EXCEPT !.pc = "loop", !.i = @ + 1])

ReturnFromExecute ==
    /\ Running("loop")
    /\ Top.i > Len(Top.batch)
    /\ Leave
    /\ UNCHANGED store

-----------------------------------------------------------------------------
(* The admin functions that change the Bridge's storage.  Who may call     *)
(* them is AccessControlSegregator's business; they may also be reached    *)
(* from inside a handler call, by a forwarder relaying a signed request.   *)

AdminPauseTransfers ==
    /\ ExternalControl
    /\ ~store.paused
    /\ store' = [store EXCEPT !.paused = TRUE]
    /\ UNCHANGED stack

\* Faulty variant of AdminUnpauseTransfers: does not ask for an MPC address.
AdminUnpauseWithoutKey ==
    /\ ExternalControl
    /\ store.paused
    /\ store' = [store EXCEPT !.paused = FALSE]
    /\ UNCHANGED stack

AdminUnpauseTransfers ==
    /\ ExternalControl
    /\ store.MPCAddress # Zero
    /\ store.paused
    /\ store' = [store EXCEPT !.paused = FALSE]
    /\ UNCHANGED stack

\* handler.setResource has no code to run at address(0), so a resource is
\* never unmapped again.
AdminSetResource(handler, resource) ==
    /\ ExternalControl
    /\ store' = [store EXCEPT !.handlerOf[resource] = handler]
    /\ UNCHANGED stack

AdminSetDepositNonce(dest, nonce) ==
    /\ ExternalControl
    /\ nonce > store.depositCounts[dest]
    /\ store' = [store EXCEPT
           !.depositCounts[dest] = nonce,
           !.skipped[dest] = @ \cup (store.depositCounts[dest] + 1) .. nonce]
    /\ UNCHANGED stack

AdminChangeFeeHandler(feeHandler) ==
    /\ ExternalControl
    /\ store' = [store EXCEPT !.feeHandler = feeHandler]
    /\ UNCHANGED stack

EndKeygen(account) ==
    /\ ExternalControl
    /\ account # Zero
    /\ store.MPCAddress = Zero
    /\ store.paused
    /\ store' = [store EXCEPT !.MPCAddress = account, !.paused = FALSE]
    /\ UNCHANGED stack

-----------------------------------------------------------------------------
DepositStep ==
    \/ \E d \in Requests : Deposit(d.dest, d.resource, d.value)
    \/ FeeCollected
    \/ AllocateNonce
    \/ DepositHandled

ExecuteStep ==
    \/ \E a \in Accounts : \E batch \in Signed[a] : ExecuteProposals(batch, a)
    \/ SkipExecuted
    \/ CallHandler
    \/ HandlerSucceeds
    \/ HandlerReverts
    \/ ReturnFromExecute

AdminStep ==
    \/ AdminPauseTransfers
    \/ AdminUnpauseTransfers
    \/ \E h \in Handlers, r \in Resources : AdminSetResource(h, r)
    \/ \E d \in Destinations, n \in NonceJumps \cap DepositNonces :
           AdminSetDepositNonce(d, n)
    \/ \E f \in FeeHandlers \cup {Zero} : AdminChangeFeeHandler(f)
    \/ \E a \in Accounts : EndKeygen(a)

Next == DepositStep \/ ExecuteStep \/ AdminStep \/ Revert

Spec == Init /\ [][Next]_vars

-----------------------------------------------------------------------------
(* Properties *)

Key(p) == <<p.origin, p.nonce>>

Delivered(s) == {p \in Proposals : s.delivered[p] > 0}

\* The deposits whose execution, and the nonces whose announcement, some call
\* among the first m in progress still waits for.
PendingKeys(calls, m) ==
    {Key(calls[j].batch[calls[j].i]) : j \in {k \in 1 .. m : calls[k].pc = "call"}}

PendingNonces(calls, m) ==
    {<<calls[j].dest, calls[j].nonce>> : j \in {k \in 1 .. m : calls[k].pc = "handler"}}

\* No deposit made on another chain is executed twice, whatever the handlers
\* call back into, whichever calls revert, however batches repeat or re-sign
\* it: two executed proposals never answer the same deposit.
AtMostOnce ==
    /\ \A p \in Proposals : store.delivered[p] <= 1
    /\ \A p, q \in Delivered(store) : Key(p) = Key(q) => p = q

\* Between transactions a nonce is marked used exactly when its proposal was
\* executed: a proposal whose handler failed can be executed again, and one
\* failure in a batch frees no other nonce.
NonceUsedIffDelivered ==
    Depth = 0 =>
        \A p \in Proposals :
            Executed(store, p) <=> \E q \in Delivered(store) : Key(q) = Key(p)

SignedBy(a) ==
    IF a \in Accounts
    THEN UNION {{batch[i] : i \in 1 .. Len(batch)} : batch \in Signed[a]}
    ELSE {}

\* Whatever was executed stands in a batch the MPC key signed.
DeliveredWasSigned == Delivered(store) \subseteq SignedBy(store.MPCAddress)

\* s accounts for every nonce of this bridge's deposits, those in A being
\* announced later: up to _depositCounts each is announced once, or will be,
\* or was jumped over by the admin, and it is only one of these; beyond
\* _depositCounts it is none of them.
AccountsFor(s, A) ==
    \A d \in Destinations, n \in DepositNonces :
        LET isAnnounced == s.announced[d][n] > 0
            isPending == <<d, n>> \in A
            isSkipped == n \in s.skipped[d]
        IN  /\ s.announced[d][n] <= 1
            /\ n <= s.depositCounts[d] <=> isAnnounced \/ isPending \/ isSkipped
            /\ ~(isAnnounced /\ isPending)
            /\ ~(isSkipped /\ (isAnnounced \/ isPending))

\* No nonce of this bridge's own deposits is lost or issued twice, by nested
\* and reverted deposits or by the admin's jumps: the storage, and every storage
\* a revert or a catch may bring back, accounts for the nonces of the calls then
\* in progress, which all differ.
DepositNoncesAccounted ==
    /\ AccountsFor(store, PendingNonces(stack, Depth))
    /\ \A j \in 1 .. Depth :
           /\ AccountsFor(stack[j].entry, PendingNonces(stack, j - 1))
           /\ stack[j].pc = "call" =>
                  AccountsFor(stack[j].before, PendingNonces(stack, j))
           /\ stack[j].pc = "handler" =>
                  /\ stack[j].nonce \in DepositNonces
                  /\ <<stack[j].dest, stack[j].nonce>> \notin PendingNonces(stack, j - 1)

-----------------------------------------------------------------------------
(* The inductive invariant behind AtMostOnce and NonceUsedIffDelivered: at *)
(* every point, and in every storage a revert may bring back, the used     *)
(* nonces are those of the proposals executed so far and of the handler    *)
(* calls that were in progress then.                                       *)

Consistent(s, K) ==
    /\ \A p \in Proposals : s.delivered[p] <= 1
    /\ \A p, q \in Delivered(s) : Key(p) = Key(q) => p = q
    /\ \A p \in Proposals :
           Executed(s, p) <=> Key(p) \in K \/ \E q \in Delivered(s) : Key(q) = Key(p)
    /\ \A q \in Delivered(s) : Key(q) \notin K

FrameConsistent(calls, j) ==
    /\ Consistent(calls[j].entry, PendingKeys(calls, j - 1))
    /\ calls[j].pc = "call" =>
           /\ Consistent(calls[j].before, PendingKeys(calls, j))
           /\ Key(calls[j].batch[calls[j].i]) \notin PendingKeys(calls, j - 1)

\* The calls in progress execute different deposits, and no revert or catch
\* can bring back a storage in which an executed deposit is marked unused.
NestedCallsConsistent ==
    /\ Consistent(store, PendingKeys(stack, Depth))
    /\ \A j \in 1 .. Depth : FrameConsistent(stack, j)

\* "If executeProposals fails it doesn't revert, emits {FailedHandlerExecution}
\* event" (Bridge.sol): every proposal of a running batch can be tried, whatever
\* becomes of it.
EveryProposalCanBeTried ==
    InBatch => Executed(store, Current) \/ store.handlerOf[Current.resource] # Zero

-----------------------------------------------------------------------------
(* What the chain has committed: the storage outside any transaction, or   *)
(* the one found by the transaction in progress.                           *)

Committed == IF stack = <<>> THEN store ELSE stack[1].entry

Announced(s) == {a \in Destinations \X DepositNonces : s.announced[a[1]][a[2]] > 0}

\* A transaction that found the storage s may leave t: s allowed it to begin, the
\* key is the same, and what was delivered and announced stays so and grows only
\* by what the key signed.
Extends(s, t) ==
    /\ ~s.paused
    /\ s.MPCAddress # Zero
    /\ t.MPCAddress = s.MPCAddress
    /\ Delivered(s) \subseteq Delivered(t)
    /\ Delivered(t) \ Delivered(s) \subseteq SignedBy(s.MPCAddress)
    /\ Announced(s) \subseteq Announced(t)

\* The inductive invariant behind DeliveredWasSigned and RefinesLedger: however
\* calls nest and whatever reverts, the storage and every storage that may come
\* back extend the one the transaction found, and only signed batches run; a
\* bridge without a key is paused.
TransactionsOnlyAdd ==
    /\ Committed.MPCAddress = Zero => Committed.paused
    /\ Delivered(Committed) \subseteq SignedBy(Committed.MPCAddress)
    /\ Depth > 0 => Extends(Committed, store)
    /\ \A j \in 1 .. Depth :
           /\ Extends(Committed, stack[j].entry)
           /\ stack[j].pc = "call" => Extends(Committed, stack[j].before)
           /\ stack[j].pc \in {"loop", "call"} =>
                  \A i \in 1 .. Len(stack[j].batch) :
                      stack[j].batch[i] \in SignedBy(Committed.MPCAddress)

Ledger == INSTANCE BridgeLedger WITH
    NoKey <- Zero,
    Deposit <- Key,
    Announcements <- Destinations \X DepositNonces,
    delivered <- Delivered(Committed),
    announced <- Announced(Committed),
    key <- Committed.MPCAddress,
    paused <- Committed.paused

\* Seen from outside, transactions are atomic and keep the promise of
\* BridgeLedger: deliveries and announcements are final, signed, at most one
\* for each deposit, and made only by transactions that found the bridge
\* unpaused and so with its key; the key never changes.
RefinesLedger == Ledger!Spec
=============================================================================
