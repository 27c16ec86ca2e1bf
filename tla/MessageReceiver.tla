--------------------------- MODULE MessageReceiver ---------------------------
(***************************************************************************)
(* The DefaultMessageReceiver (src/contracts/handlers/                     *)
(* DefaultMessageReceiver.sol): a token handler pays it the tokens or the  *)
(* coins of a transfer and calls handleSygmaMessage, which performs the    *)
(* message's actions and sends what is left to the message's receiver.     *)
(* The actions are performed in a call of their own: when it fails it is   *)
(* undone, and the receiver gets what the handler paid.                    *)
(*                                                                         *)
(* The contracts that actions call, and a receiver that is paid coins, run *)
(* code of their own, which may execute the proposals of other messages:   *)
(* `frames` holds the calls of handleSygmaMessage in progress.  As in      *)
(* Bridge, `store` is what the EVM restores when a call reverts.           *)
(***************************************************************************)
EXTENDS Naturals, Sequences, FiniteSetsExt

CONSTANTS
    Native,     \* the chain's coin, as an asset; as a token, address(0)
    Tokens,     \* ERC-20 tokens
    Self,       \* the DefaultMessageReceiver
    Handler,    \* the handlers with SYGMA_HANDLER_ROLE
    Outside,    \* the contracts that actions call and approve
    Receivers,  \* accounts that messages name to get what is left
    NoToken,    \* address(0) for tokenSend and tokenReceive
    Messages,   \* the messages of signed proposals
    RecoverGas, \* _recoverGas
    CallCost,   \* what it takes from gasleft() to the call of performActions
    ReturnCost, \* and from the return of that call to gasleft() in the catch
    InitiallyOwned, \* InitiallyOwned[a][x]: what x owns of a at the start
    MaxDepth    \* bound: calls of handleSygmaMessage in progress at once

Assets == Tokens \cup {Native}

Holders == Receivers \cup {Self, Handler, Outside}

\* What an action calls: a contract outside, with or without an allowance to
\* take tokens; transfer(receiver, 1) of a token; transferBalanceAction; or
\* approve(outside, amount) of a token, in the name of this contract.
Action == [nativeValue : Nat, callTo : {"outside"}, tokenSend : Tokens \cup {NoToken},
           tokenReceive : Tokens \cup {NoToken}]
    \cup [nativeValue : {0}, callTo : {"token", "transferBalanceAction"},
          asset : Assets, to : Receivers,
          tokenSend : {NoToken}, tokenReceive : Tokens \cup {NoToken}]
    \cup [nativeValue : {0}, callTo : {"approve"}, asset : Tokens, amount : Nat,
          tokenSend : {NoToken}, tokenReceive : Tokens \cup {NoToken}]

ASSUME MessageAssumption ==
    Messages \subseteq [id : Nat, tokenSent : Assets, amount : Nat, receiver : Receivers,
                        actions : Seq(Action), gas : Nat]

\* No message names the contracts that handle it as its receiver.
ASSUME HolderAssumption ==
    /\ Native \notin Tokens
    /\ NoToken \notin Assets
    /\ Self # Handler /\ Self # Outside /\ Handler # Outside
    /\ Receivers \cap {Self, Handler, Outside} = {}
    /\ IsFiniteSet(Receivers)
    /\ IsFiniteSet(Messages)
    /\ MaxDepth \in Nat

ASSUME GasAssumption ==
    RecoverGas \in Nat /\ CallCost \in 1 .. RecoverGas /\ ReturnCost \in Nat

ASSUME OwnedAssumption == InitiallyOwned \in [Assets -> [Holders -> Nat]]

VARIABLES
    store, \* [owns, allowed, outcome, strays]; strays are an observer's
    frames

vars == <<store, frames>>

Store == [
    owns : [Assets -> [Holders -> Nat]],
    allowed : SUBSET Tokens,  \* tokens the outside may take from Self
    outcome : [Messages -> {"none", "executed", "recovered"}],
    strays : [Assets -> Nat]] \* what came to Self and no message is to forward

Frame == [
    message : Messages,
    entered : Store,  \* before the handler paid
    before : Store,   \* before performActions
    startingNativeBalance : Nat,
    i : Nat \ {0},    \* the next action
    phase : {"performing", "calling", "returning", "recovering"}]

Init ==
    /\ store = [owns |-> InitiallyOwned, allowed |-> {},
                outcome |-> [m \in Messages |-> "none"],
                strays |-> [a \in Assets |-> InitiallyOwned[a][Self]]]
    /\ frames = <<>>

-----------------------------------------------------------------------------
(* Calls and payments. *)

Running == frames # <<>>

Top == frames[Len(frames)]

\* Code outside runs: nothing is in progress, or it has been called.
OutsideControl == Running => Top.phase \in {"calling", "returning", "recovering"}

WithTop(f) == [frames EXCEPT ![Len(frames)] = f]

\* Between transactions what is a stray is what is still there.
Settled(s) ==
    IF Len(frames) > 1 THEN s
    ELSE [s EXCEPT !.strays = [a \in Assets |-> Min({@[a], s.owns[a][Self]})]]

Leave(s) ==
    /\ store' = Settled(s)
    /\ frames' = SubSeq(frames, 1, Len(frames) - 1)

Move(s, a, from, to, n) ==
    [s EXCEPT !.owns[a][from] = @ - n, !.owns[a][to] = @ + n]

TransferBalance(s, a, to) ==
    IF a \in Assets THEN Move(s, a, Self, to, s.owns[a][Self]) ELSE s

-----------------------------------------------------------------------------
(* handleSygmaMessage *)

\* Faulty variant of StartingNativeBalance: with those that come with the call.
StartingWithValue(s, m) == s.owns[Native][Self]

\* The balance before the coins that come with the call.
StartingNativeBalance(s, m) ==
    s.owns[Native][Self] - (IF m.tokenSent = Native THEN m.amount ELSE 0)

\* A handler executes a proposal, in a transaction of its own or when called
\* by code outside; the Bridge does not have it execute one twice.
HandleSygmaMessage(m) ==
    /\ OutsideControl
    /\ Len(frames) < MaxDepth
    /\ store.outcome[m] = "none"
    /\ \A k \in DOMAIN frames : frames[k].message # m
    /\ store.owns[m.tokenSent][Handler] >= m.amount
    /\ m.gas >= RecoverGas
    /\ LET paid == Move(store, m.tokenSent, Handler, Self, m.amount)
       IN /\ store' = paid
          /\ frames' = Append(frames,
                [message |-> m, entered |-> store, before |-> paid,
                 startingNativeBalance |-> StartingNativeBalance(paid, m),
                 i |-> 1, phase |-> "performing"])

-----------------------------------------------------------------------------
(* performActions *)

Performing == Running /\ Top.phase = "performing"

NextAction == Top.message.actions[Top.i]

\* approveERC20(tokenSend, approveTo, type(uint256).max)
Approve(s, action) == [s EXCEPT !.allowed = @ \cup ({action.tokenSend} \ {NoToken})]

\* Faulty variant of CallOutside: does not look at the coins there are.
CallOutsideUnchecked ==
    /\ Performing
    /\ Top.i <= Len(Top.message.actions)
    /\ NextAction.callTo = "outside"
    /\ store' = Move(Approve(store, NextAction), Native, Self, Outside, NextAction.nativeValue)
    /\ frames' = WithTop([Top EXCEPT !.phase = "calling"])

CallOutside ==
    /\ Performing
    /\ Top.i <= Len(Top.message.actions)
    /\ NextAction.callTo = "outside"
    /\ NextAction.nativeValue <= store.owns[Native][Self]
    /\ store' = Move(Approve(store, NextAction), Native, Self, Outside, NextAction.nativeValue)
    /\ frames' = WithTop([Top EXCEPT !.phase = "calling"])

\* A token moves one unit, without calling anybody.
CallToken ==
    /\ Performing
    /\ Top.i <= Len(Top.message.actions)
    /\ NextAction.callTo = "token"
    /\ store.owns[NextAction.asset][Self] >= 1
    /\ store' = Move(store, NextAction.asset, Self, NextAction.to, 1)
    /\ frames' = WithTop([Top EXCEPT !.i = @ + 1])

\* An action is a call of the message's choice: one of approve lasts, as nothing
\* takes it back; what is left of an allowance is not counted.
CallApprove ==
    /\ Performing
    /\ Top.i <= Len(Top.message.actions)
    /\ NextAction.callTo = "approve"
    /\ store' = [store EXCEPT !.allowed = (@ \ {NextAction.asset}) \cup
                    {t \in {NextAction.asset} : NextAction.amount > 0}]
    /\ frames' = WithTop([Top EXCEPT !.i = @ + 1])

\* Coins are sent with a call, tokens without.
TransferBalanceAction ==
    /\ Performing
    /\ Top.i <= Len(Top.message.actions)
    /\ NextAction.callTo = "transferBalanceAction"
    /\ store' = TransferBalance(store, NextAction.asset, NextAction.to)
    /\ frames' = WithTop(IF NextAction.asset = Native
                         THEN [Top EXCEPT !.phase = "calling"]
                         ELSE [Top EXCEPT !.i = @ + 1])

\* What was called returns.
ActionReturns ==
    /\ Running
    /\ Top.phase = "calling"
    /\ frames' = WithTop([Top EXCEPT !.phase = "performing", !.i = @ + 1])
    /\ UNCHANGED store

ActionTokens(m) == {m.actions[i].tokenReceive : i \in DOMAIN m.actions} \ {NoToken}

AllowanceTokens(m) == {m.actions[i].tokenSend : i \in DOMAIN m.actions} \ {NoToken}

\* The balance of every tokenReceive, and the end of every allowance.
ReturnLeftOvers(s, m) ==
    [s EXCEPT !.owns = [a \in Assets |->
                  IF a \in ActionTokens(m) THEN TransferBalance(s, a, m.receiver).owns[a]
                  ELSE @[a]],
              !.allowed = @ \ AllowanceTokens(m)]

TransferTokenSent(s, m) ==
    IF m.tokenSent = Native THEN s ELSE TransferBalance(s, m.tokenSent, m.receiver)

Executed(s, m) ==
    [ReturnLeftOvers(TransferTokenSent(s, m), m) EXCEPT !.outcome[m] = "executed"]

ReceivedNative(s, f) == s.owns[Native][Self] > f.startingNativeBalance

PerformedAll == Performing /\ Top.i > Len(Top.message.actions)

\* transferNativeBalance, with a call of the receiver.
ReturnNative ==
    /\ PerformedAll
    /\ ReceivedNative(store, Top)
    /\ store' = TransferBalance(store, Native, Top.message.receiver)
    /\ frames' = WithTop([Top EXCEPT !.phase = "returning"])

\* The end of handleSygmaMessage, with Executed.
Finish ==
    /\ \/ PerformedAll /\ ~ReceivedNative(store, Top)
       \/ Running /\ Top.phase = "returning"
    /\ Leave(Executed(store, Top.message))

-----------------------------------------------------------------------------
(* catch *)

AllButOne64th(gas) == gas - gas \div 64

\* What performActions gets: the EVM never gives more than this share.
Forwarded(gas) == Min({gas - RecoverGas, AllButOne64th(gas - CallCost)})

\* What gasleft() finds in the catch, when performActions leaves `unused` of it;
\* below zero the gas runs out before.
Remaining(gas, unused) == gas - CallCost - Forwarded(gas) + unused - ReturnCost

\* Faulty variant of Undone: performActions is not a call of its own.
NotUndone(f) == store

Undone(f) == f.before

\* performActions reverts, for any reason: an action fails, the coins for it
\* are missing, the receiver refuses coins, or the gas has run out.
CanFail == Running /\ Top.phase \in {"performing", "calling", "returning"}

\* Faulty variant of CanRecover: wants more than that.
CanRecoverWithMore(gas, unused) == Remaining(gas, unused) > RecoverGas

\* Or else it reverts with InsufficientGasLimit, or has run out of gas.
CanRecover(gas, unused) == Remaining(gas, unused) >= RecoverGas

Recovered(s, m) == [s EXCEPT !.outcome[m] = "recovered"]

\* The receiver gets the token's balance, and then coins if there are more.
Recover ==
    /\ CanFail
    /\ \E unused \in {0, Forwarded(Top.message.gas)} : CanRecover(Top.message.gas, unused)
    /\ LET m == Top.message
           s == TransferTokenSent(Undone(Top), m)
       IN IF ReceivedNative(s, Top)
          THEN /\ store' = TransferBalance(s, Native, m.receiver)
               /\ frames' = WithTop([Top EXCEPT !.phase = "recovering"])
          ELSE Leave(Recovered(s, m))

\* The receiver has accepted the coins; TransferRecovered.
FinishRecovery ==
    /\ Running
    /\ Top.phase = "recovering"
    /\ Leave(Recovered(store, Top.message))

\* Faulty variant of HandlerReverted: the handler goes on without the message.
HandlerWentOn(f) == f.before

\* handleSygmaMessage reverts, and with it the handler: the proposal can be
\* executed again.
HandlerReverted(f) == f.entered

\* The actions have failed and left too little gas.
RejectForGas ==
    /\ CanFail
    /\ \E unused \in {0, Forwarded(Top.message.gas)} : ~CanRecover(Top.message.gas, unused)
    /\ Leave(HandlerReverted(Top))

\* The receiver refuses the coins.
RejectRefused ==
    /\ Running
    /\ Top.phase = "recovering"
    /\ Leave(HandlerReverted(Top))

-----------------------------------------------------------------------------
(* Code outside *)

\* transferFrom, while the token is approved.
TakeAllowed(t) ==
    /\ OutsideControl
    /\ t \in store.allowed
    /\ store.owns[t][Self] >= 1
    /\ store' = Move(store, t, Self, Outside, 1)
    /\ UNCHANGED frames

\* What the message whose action runs forwards to its receiver.
Named ==
    IF Running /\ Top.phase = "calling"
    THEN {Native, Top.message.tokenSent} \cup ActionTokens(Top.message)
    ELSE {}

Supply(a) == SumFunctionOnSet(InitiallyOwned[a], Holders)

\* What an action yields, or what somebody sends by mistake.
SendToReceiver(a) ==
    /\ OutsideControl
    /\ store.owns[a][Outside] >= 1
    /\ store' = [Move(store, a, Outside, Self, 1) EXCEPT
                    !.strays[a] = IF a \in Named THEN @ ELSE Min({@ + 1, Supply(a)})]
    /\ UNCHANGED frames

Next ==
    \/ \E m \in Messages : HandleSygmaMessage(m)
    \/ CallOutside \/ CallToken \/ CallApprove \/ TransferBalanceAction \/ ActionReturns
    \/ ReturnNative \/ Finish
    \/ Recover \/ RejectForGas \/ FinishRecovery \/ RejectRefused
    \/ \E t \in Tokens : TakeAllowed(t)
    \/ \E a \in Assets : SendToReceiver(a)

Spec == Init /\ [][Next]_vars

-----------------------------------------------------------------------------
(* Properties. *)

TypeOK ==
    /\ store \in Store
    /\ frames \in Seq(Frame)
    /\ Len(frames) <= MaxDepth

Outcome(o) == {m \in Messages : store.outcome[m] = o}

Amount(ms) == SumFunction([m \in ms |-> m.amount])

\* The receiver of messages whose actions failed gets all that came with them,
\* however far the actions went, whatever ran within them and whatever other
\* messages were handled meanwhile.
RecoveredInFull ==
    \A a \in Assets, r \in Receivers :
        Amount({m \in Outcome("recovered") : m.tokenSent = a /\ m.receiver = r})
            <= store.owns[a][r]

\* The tokens that the actions of a message have approved by calling approve, and
\* those that the messages executed in s had.
ApprovedTokens(m) ==
    {m.actions[i].asset : i \in {j \in DOMAIN m.actions :
        m.actions[j].callTo = "approve" /\ m.actions[j].amount > 0}}

SelfApproved(s) == UNION {ApprovedTokens(m) : m \in {l \in Messages : s.outcome[l] = "executed"}}

\* Between transactions the contract has no more than what was sent to it
\* without being named by any message: nothing that came with a message and
\* nothing its actions yielded is left behind.  Nor is any allowance that was
\* given for an approveTo, or in actions that failed: what is still allowed, an
\* executed message had the contract approve by an action that calls approve.
NothingLeftBehind ==
    ~Running =>
        /\ \A a \in Assets : store.owns[a][Self] <= store.strays[a]
        /\ store.allowed \subseteq SelfApproved(store)

\* The handlers have paid for the messages that were executed or recovered, and
\* for no other: the proposal of a rejected one still has its tokens.
PaidForHandled ==
    ~Running => \A a \in Assets :
        InitiallyOwned[a][Handler] - store.owns[a][Handler] =
            Amount({m \in Messages \ Outcome("none") : m.tokenSent = a})

\* handleSygmaMessage ends without having handled the message of its frame.
Rejects == Len(frames') < Len(frames) /\ store'.outcome[Top.message] = "none"

\* With 64 times the gas that it takes to recover and to get there, actions that
\* use up all they get leave enough to recover.
RecoversGivenGas ==
    [][CanFail /\ Top.message.gas >= 64 * (RecoverGas + ReturnCost) + CallCost
        => ~Rejects]_vars
=============================================================================
