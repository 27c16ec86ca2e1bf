--------------------------- MODULE Administration ---------------------------
(***************************************************************************)
(* Who administers a Bridge: the functions guarded by onlyAllowed and      *)
(* _msgSender (src/contracts/Bridge.sol), the contracts that say who may   *)
(* call them (src/contracts/utils/AccessControlSegregator.sol), and the    *)
(* forwarders that relay signed requests (src/contracts/Forwarder.sol).    *)
(*                                                                         *)
(* A forwarder calls the target of a request, and the target may call      *)
(* anybody: `stack` holds the calls of execute in progress.  As in Bridge, *)
(* `store` is what the EVM restores when a call reverts.                   *)
(***************************************************************************)
EXTENDS Integers, Sequences

CONSTANTS
    Accounts,       \* holders of keys, and contracts that act for themselves
    Zero,           \* address(0)
    Forwarders,     \* Forwarder contracts
    Controls,       \* AccessControlSegregator contracts
    FirstControl,   \* the one the Bridge is deployed with
    FirstAccess,    \* FirstAccess[c][f]: whom c's constructor grants f, if anybody
    OtherFunctions, \* admin functions whose effects are not modelled here
    Grants,         \* the calls of grantAccess that are made
    Requests,       \* ForwardRequests: [from, forwarder, nonce, call]
    MaxDepth        \* bound: calls of execute in progress at once

Functions == OtherFunctions \cup
    {"adminSetForwarder", "adminChangeAccessControl", "grantAccess"}

BridgeCall ==
    [func : {"adminSetForwarder"}, forwarder : Forwarders, valid : BOOLEAN]
        \cup [func : {"adminChangeAccessControl"}, control : Controls]
        \cup [func : OtherFunctions]

GrantCall == [func : {"grantAccess"}, control : Controls, sig : Functions,
              account : Accounts \cup {Zero}]

AdminCall == BridgeCall \cup Grants

\* The call of a request to some other contract.
Elsewhere == [func |-> "elsewhere"]

ASSUME AccountAssumption ==
    /\ Accounts \cap Forwarders = {}
    /\ Zero \notin Accounts \cup Forwarders
    /\ FirstControl \in Controls
    /\ MaxDepth \in Nat

ASSUME FunctionAssumption ==
    OtherFunctions \cap {"adminSetForwarder", "adminChangeAccessControl",
                         "grantAccess", "elsewhere"} = {}

ASSUME GrantAssumption ==
    /\ FirstAccess \in [Controls -> [Functions -> Accounts \cup {Zero}]]
    /\ Grants \subseteq GrantCall

\* A signature is for one forwarder: EIP-712 hashes the verifying contract.
ASSUME RequestAssumption ==
    Requests \subseteq [from : Accounts \cup {Zero}, forwarder : Forwarders,
                        nonce : Nat, call : AdminCall \cup {Elsewhere}]

VARIABLES
    store,  \* the storage of the contracts, and what has run and had effect
    stack   \* the calls of execute in progress, outermost first

vars == <<store, stack>>

NoEffect == [func |-> "none"]

\* The last two fields are history: how often the call of each request was
\* begun, and of the last function that had effect the account that was allowed
\* to call it and the one that asked for it (that called, or signed).
Store == [
    nonces : [Forwarders -> [Accounts \cup {Zero} -> Nat]],
    validForwarders : SUBSET Forwarders,
    accessControl : Controls,
    access : [Controls -> [Functions -> Accounts \cup {Zero}]],
    ran : [Requests -> Nat],
    effect : [func : Functions, allowed : Accounts, asked : Accounts] \cup {NoEffect}]

Frame == [
    pc : {"call", "target"},  \* before and after the target's own code begins
    request : Requests,
    signer : Accounts,
    entry : Store,            \* found by execute
    before : Store]           \* handed to the call of the target

TypeOK ==
    /\ store \in Store
    /\ stack \in Seq(Frame)

Init ==
    /\ store = [
           nonces |-> [f \in Forwarders |-> [a \in Accounts \cup {Zero} |-> 0]],
           validForwarders |-> {},
           accessControl |-> FirstControl,
           access |-> FirstAccess,
           ran |-> [r \in Requests |-> 0],
           effect |-> NoEffect]
    /\ stack = <<>>

-----------------------------------------------------------------------------
(* Who may call what *)

\* Faulty variant of MsgSender: anybody's appended address is believed.
MsgSenderAppended(s, caller, appended) == appended

\* _msgSender: the address at the end of the call data counts if the caller is
\* a forwarder the admin set.
MsgSender(s, caller, appended) ==
    IF caller \in s.validForwarders THEN appended ELSE caller

\* Faulty variant of HasAccess: what is granted to nobody is open to everybody.
HasAccessOrUngranted(holder, sender) == holder \in {sender, Zero}

HasAccess(holder, sender) == holder = sender

\* grantAccess looks at msg.sender itself, so no forwarder can relay it.
MayCall(s, call, caller, appended) ==
    \/ /\ call \in BridgeCall
       /\ HasAccess(s.access[s.accessControl][call.func], MsgSender(s, caller, appended))
    \/ /\ call \in Grants
       /\ HasAccess(s.access[call.control]["grantAccess"], caller)

Holder(s, call) ==
    s.access[IF call.func = "grantAccess" THEN call.control ELSE s.accessControl][call.func]

AfterCall(s, call, asked) == [s EXCEPT
    !.effect = [func |-> call.func, allowed |-> Holder(s, call), asked |-> asked],
    !.validForwarders =
        IF call.func # "adminSetForwarder" THEN @
        ELSE IF call.valid THEN @ \cup {call.forwarder} ELSE @ \ {call.forwarder},
    !.accessControl = IF call.func = "adminChangeAccessControl" THEN call.control ELSE @,
    !.access =
        IF call.func = "grantAccess" THEN [@ EXCEPT ![call.control][call.sig] = call.account]
        ELSE @]

-----------------------------------------------------------------------------
Depth == Len(stack)

Top == stack[Depth]

ExternalControl == Depth > 0 => Top.pc = "target"

Leave == stack' = SubSeq(stack, 1, Depth - 1)

\* An account calls the function itself, with any address appended.
CallDirectly(caller, appended, call) ==
    /\ ExternalControl
    /\ MayCall(store, call, caller, appended)
    /\ store' = AfterCall(store, call, caller)
    /\ UNCHANGED stack

-----------------------------------------------------------------------------
(* Forwarder *)

\* Faulty variant of Verify: the forwarder is not part of what is signed.
VerifyAnyForwarder(s, forwarder, r, signer) ==
    /\ r.nonce = s.nonces[forwarder][r.from]
    /\ signer = r.from

\* verify, for a signature that recovers to signer at the forwarder it is for.
Verify(s, forwarder, r, signer) ==
    /\ r.forwarder = forwarder
    /\ r.nonce = s.nonces[forwarder][r.from]
    /\ signer = r.from

AfterVerify(s, forwarder, r) ==
    [s EXCEPT !.nonces[forwarder][r.from] = r.nonce + 1, !.ran[r] = @ + 1]

\* execute, up to the call of the target: the nonce is used up first.
Execute(forwarder, r, signer) ==
    /\ ExternalControl
    /\ Depth < MaxDepth
    /\ Verify(store, forwarder, r, signer)
    /\ store' = AfterVerify(store, forwarder, r)
    /\ stack' = Append(stack, [pc |-> IF r.call = Elsewhere THEN "target" ELSE "call",
                               request |-> r, signer |-> signer,
                               entry |-> store, before |-> store'])

\* The target is the Bridge or an access control, and allows the call.
CallTarget ==
    /\ Depth > 0
    /\ Top.pc = "call"
    /\ MayCall(store, Top.request.call, Top.request.forwarder, Top.request.from)
    /\ store' = AfterCall(store, Top.request.call, Top.signer)
    /\ stack' = [stack EXCEPT ![Depth].pc = "target"]

TargetReturns ==
    /\ Depth > 0
    /\ Top.pc = "target"
    /\ Leave
    /\ UNCHANGED store

\* The target refuses, fails or runs out of gas; execute returns success = false.
TargetReverts ==
    /\ Depth > 0
    /\ store' = Top.before
    /\ Leave

\* execute itself reverts: the gas assertion fails, or its caller reverts.
Revert ==
    /\ Depth > 0
    /\ store' = Top.entry
    /\ Leave

Next ==
    \/ \E a, b \in Accounts, call \in AdminCall : CallDirectly(a, b, call)
    \/ \E f \in Forwarders, r \in Requests, a \in Accounts : Execute(f, r, a)
    \/ CallTarget
    \/ TargetReturns
    \/ TargetReverts
    \/ Revert

Spec == Init /\ [][Next]_vars

-----------------------------------------------------------------------------
(* Properties *)

\* Every storage that may come back.
Storages == {store} \cup {stack[j].entry : j \in 1 .. Depth}
                    \cup {stack[j].before : j \in 1 .. Depth}

RanInOrder(s) ==
    \A f \in Forwarders, a \in Accounts \cup {Zero} :
        LET mine == {r \in Requests : r.forwarder = f /\ r.from = a /\ s.ran[r] > 0}
        IN  /\ {r.nonce : r \in mine} = 0 .. s.nonces[f][a] - 1
            /\ \A r, q \in mine : r.nonce = q.nonce => r = q

\* The call of a signed request is begun at most once, and an account's requests
\* in the order of their nonces without gaps, whatever the targets call back
\* into and whatever reverts.
RequestsRunOnce ==
    \A s \in Storages :
        /\ \A r \in Requests : s.ran[r] <= 1
        /\ RanInOrder(s)

\* An admin function has effect only for the account that held the access at
\* that moment, and only if that account called it or signed for it: neither
\* an appended address, nor a relayed request, nor revoked access lends it to
\* anybody else.
EffectsWereAllowed ==
    /\ \A s \in Storages : s.effect # NoEffect => s.effect.allowed = s.effect.asked
    /\ \A j \in 1 .. Depth : stack[j].signer = stack[j].request.from
=============================================================================
