---------------------------- MODULE NftTransfers ----------------------------
(***************************************************************************)
(* Transfers of the non-fungible tokens of one resource between several    *)
(* domains: on each domain the ERC721Handlers (src/contracts/handlers/     *)
(* ERC721Handler.sol with ERCHandlerHelpers, ERC721Safe) and the token     *)
(* contract (src/contracts/ERC721MinterBurnerPauser.sol), and the relayers *)
(* whose MPC key signs every announced deposit for its destination.        *)
(*                                                                         *)
(* As in TokenTransfers, a step is a whole transaction that succeeds, and  *)
(* the Bridges execute a proposal at most once.                            *)
(***************************************************************************)
EXTENDS Naturals, Sequences, FiniteSets

CONSTANTS
    Domains,
    Handlers,   \* ERC721Handler contracts of a domain
    Unmapped,   \* no handler: address(0)
    Users,
    Zero,       \* address(0) as a recipient
    Nobody,     \* the owner of a token that does not exist
    TokenIDs,
    Burnable,   \* the domains whose tokens are minted and burned
    FirstOwner, \* FirstOwner[d][id]: who owns id on d at the start
    FirstURI,   \* FirstURI[id]: its URI there, a sequence of parts
    BaseURI,    \* BaseURI[d]: what d's token contract puts before a URI
    Recipients, \* the recipients that deposits name
    Upgrades,   \* the <<domain, handler>> the admin registers
    WithdrawTo, \* where the admin moves tokens of a handler
    MaxNonce    \* bound: deposits for each destination

Holders == Users \cup Handlers

ASSUME NftAssumption ==
    /\ IsFiniteSet(Domains)
    /\ Users \cap Handlers = {}     \* no handler makes deposits
    /\ Nobody \notin Holders
    /\ MaxNonce \in Nat
    /\ Burnable \subseteq Domains
    /\ FirstOwner \in [Domains -> [TokenIDs -> Users \cup {Nobody}]]
    /\ \A id \in TokenIDs : Cardinality({d \in Domains : FirstOwner[d][id] # Nobody}) = 1
    /\ FirstURI \in [TokenIDs -> Seq(STRING) \ {<<>>}]
    /\ BaseURI \in [Domains -> Seq(STRING)]
    /\ Recipients \subseteq Users \cup {Zero}
    /\ Upgrades \subseteq Domains \X Handlers
    /\ WithdrawTo \subseteq Holders

VARIABLES
    handlerOf,     \* handlerOf[d]: the handler d's Bridge maps the resource to
    isWhitelisted, \* isWhitelisted[d]: the handlers of d that know the token
    isBurnable,    \* isBurnable[d]: those that mint and burn it
    ownerOf,       \* ownerOf[d][id]
    storedURI,     \* storedURI[d][id]: _tokenURIs, None for a deleted one
    deposits,      \* the deposits announced by Deposit events, of all domains
    executed,      \* those whose proposal was executed at its destination
    withdrawn      \* the tokens the admin gave a user out of a handler

tokens == <<isWhitelisted, isBurnable>>

vars == <<handlerOf, tokens, ownerOf, storedURI, deposits, executed, withdrawn>>

\* No URI.
Deleted == <<>>

Init ==
    /\ handlerOf = [d \in Domains |-> Unmapped]
    /\ isWhitelisted = [d \in Domains |-> {}]
    /\ isBurnable = [d \in Domains |-> {}]
    /\ ownerOf = FirstOwner
    /\ storedURI = [d \in Domains |-> [id \in TokenIDs |->
           IF FirstOwner[d][id] # Nobody THEN FirstURI[id] ELSE Deleted]]
    /\ deposits = {}
    /\ executed = {}
    /\ withdrawn = <<>>

-----------------------------------------------------------------------------
(* The token contract of a domain. *)

Exists(d, id) == ownerOf[d][id] # Nobody

\* Without a base URI, the stored one.
TokenURI(d, id) == BaseURI[d] \o storedURI[d][id]

Transferred(d, id, to) ==
    /\ ownerOf' = [ownerOf EXCEPT ![d][id] = to]
    /\ UNCHANGED storedURI

\* Faulty variant of Burnt: the URI stays.
BurntButURI(d, id) ==
    /\ ownerOf' = [ownerOf EXCEPT ![d][id] = Nobody]
    /\ UNCHANGED storedURI

Burnt(d, id) ==
    /\ ownerOf' = [ownerOf EXCEPT ![d][id] = Nobody]
    /\ storedURI' = [storedURI EXCEPT ![d][id] = Deleted]

\* Faulty variant of Minted: without what the deposit has told.
MintedWithoutMetaData(d, id, to, metaData) ==
    /\ ownerOf' = [ownerOf EXCEPT ![d][id] = to]
    /\ storedURI' = [storedURI EXCEPT ![d][id] = <<"">>]

Minted(d, id, to, metaData) ==
    /\ ownerOf' = [ownerOf EXCEPT ![d][id] = to]
    /\ storedURI' = [storedURI EXCEPT ![d][id] = metaData]

-----------------------------------------------------------------------------
(* deposit *)

DepositCount(d, dest) == Cardinality({t \in deposits : t.origin = d /\ t.dest = dest})

\* The metadata is asked for before the token is burnt or locked.  Who is not
\* its owner, which both require, cannot deposit.
Deposit(d, user, dest, id, recipient) ==
    /\ dest # d
    /\ handlerOf[d] # Unmapped
    /\ DepositCount(d, dest) < MaxNonce
    /\ ownerOf[d][id] = user
    /\ IF handlerOf[d] \in isBurnable[d]
       THEN Burnt(d, id)
       ELSE Transferred(d, id, handlerOf[d])
    /\ deposits' = deposits \cup
           {[origin |-> d, dest |-> dest, nonce |-> DepositCount(d, dest) + 1,
             id |-> id, recipient |-> recipient, metaData |-> TokenURI(d, id)]}
    /\ UNCHANGED <<handlerOf, tokens, executed, withdrawn>>

-----------------------------------------------------------------------------
(* executeProposal *)

\* Faulty variant of IsExecuted: forgets what was executed.
IsExecutedNever(t) == FALSE

IsExecuted(t) == t \in executed

\* Faulty variant of CanDeliver: looks for a locked token, also to mint one.
CanDeliverLocked(t) ==
    /\ t.recipient # Zero
    /\ ownerOf[t.dest][t.id] = handlerOf[t.dest]

\* A token that exists cannot be minted, nor one that the handler does not own
\* be released; neither goes to address(0).
CanDeliver(t) ==
    /\ t.recipient # Zero
    /\ IF handlerOf[t.dest] \in isBurnable[t.dest]
       THEN ~Exists(t.dest, t.id)
       ELSE ownerOf[t.dest][t.id] = handlerOf[t.dest]

\* What is released keeps the URI it had.
ExecuteProposal(t) ==
    /\ ~IsExecuted(t)
    /\ handlerOf[t.dest] # Unmapped
    /\ CanDeliver(t)
    /\ IF handlerOf[t.dest] \in isBurnable[t.dest]
       THEN Minted(t.dest, t.id, t.recipient, t.metaData)
       ELSE Transferred(t.dest, t.id, t.recipient)
    /\ executed' = executed \cup {t}
    /\ UNCHANGED <<handlerOf, tokens, deposits, withdrawn>>

-----------------------------------------------------------------------------
(* Administration *)

\* _setResource: whatever was set before, tokens are locked and released.
AdminSetResource(d, h) ==
    /\ handlerOf' = [handlerOf EXCEPT ![d] = h]
    /\ isWhitelisted' = [isWhitelisted EXCEPT ![d] = @ \cup {h}]
    /\ isBurnable' = [isBurnable EXCEPT ![d] = @ \ {h}]
    /\ UNCHANGED <<ownerOf, storedURI, deposits, executed, withdrawn>>

AdminSetBurnable(d, h) ==
    /\ h \in isWhitelisted[d]
    /\ isBurnable' = [isBurnable EXCEPT ![d] = @ \cup {h}]
    /\ UNCHANGED <<handlerOf, isWhitelisted, ownerOf, storedURI, deposits, executed,
                   withdrawn>>

\* To another handler, or to a user whoever the token is owed to.
AdminWithdraw(d, h, to, id) ==
    /\ to # h
    /\ ownerOf[d][id] = h
    /\ Transferred(d, id, to)
    /\ withdrawn' = IF to \in Handlers THEN withdrawn ELSE Append(withdrawn, id)
    /\ UNCHANGED <<handlerOf, tokens, deposits, executed>>

Next ==
    \/ \E d, dest \in Domains, u \in Users, id \in TokenIDs, r \in Recipients :
           Deposit(d, u, dest, id, r)
    \/ \E t \in deposits : ExecuteProposal(t)
    \/ \E u \in Upgrades : AdminSetResource(u[1], u[2])
    \/ \E d \in Burnable, h \in Handlers : AdminSetBurnable(d, h)
    \/ \E d \in Domains, h \in Handlers, a \in WithdrawTo, id \in TokenIDs :
           AdminWithdraw(d, h, a, id)

Spec == Init /\ [][Next]_vars

\* The relayers submit every signed proposal again and again.
ExecuteDeposit(d, dest, n) ==
    \E t \in deposits : /\ t.origin = d /\ t.dest = dest /\ t.nonce = n
                        /\ ExecuteProposal(t)

FairSpec ==
    /\ Spec
    /\ \A d, dest \in Domains, n \in 1 .. MaxNonce :
           WF_vars(ExecuteDeposit(d, dest, n))

-----------------------------------------------------------------------------
(* Properties. *)

Transfer == [origin : Domains, dest : Domains, nonce : 1 .. MaxNonce, id : TokenIDs,
             recipient : Recipients, metaData : Seq(STRING)]

\* Also, a token exists if and only if it has a URI.
TypeOK ==
    /\ handlerOf \in [Domains -> Handlers \cup {Unmapped}]
    /\ isWhitelisted \in [Domains -> SUBSET Handlers]
    /\ isBurnable \in [Domains -> SUBSET Handlers]
    /\ ownerOf \in [Domains -> [TokenIDs -> Holders \cup {Nobody}]]
    /\ storedURI \in [Domains -> [TokenIDs -> Seq(STRING)]]
    /\ \A d \in Domains, id \in TokenIDs : Exists(d, id) <=> storedURI[d][id] # Deleted
    /\ deposits \subseteq Transfer
    /\ executed \subseteq deposits
    /\ withdrawn \in Seq(TokenIDs)

Pending == deposits \ executed

Withdrawals(id) == Cardinality({k \in DOMAIN withdrawn : withdrawn[k] = id})

\* However handlers and flags change, each token has one owner: on one of the
\* domains, or to be when its transfer is executed.  Only what the admin takes
\* out of a handler makes for another one.
OneOwner ==
    \A id \in TokenIDs :
        Cardinality({d \in Domains : ownerOf[d][id] \in Users})
            + Cardinality({t \in Pending : t.id = id})
        = 1 + Withdrawals(id)

\* Wherever a token is, was burnt and is minted again, its URI is still the one
\* it began with, after the base URIs of domains it has passed.
MetadataKept ==
    \A d \in Domains, id \in TokenIDs : Exists(d, id) =>
        \E parts \in 0 .. Len(storedURI[d][id]) :
            /\ SubSeq(storedURI[d][id], parts + 1, Len(storedURI[d][id])) = FirstURI[id]
            /\ parts > 0 => \E e \in Domains : BaseURI[e] # <<>>

\* d has a handler that mints, and has none of the tokens locked; or one that
\* owns all that are locked there.  The admin took none out on any domain.
Operational(d) ==
    /\ handlerOf[d] # Unmapped
    /\ withdrawn = <<>>
    /\ \A id \in TokenIDs :
        ownerOf[d][id] \in Handlers =>
            /\ handlerOf[d] = ownerOf[d][id]
            /\ handlerOf[d] \notin isBurnable[d]
    /\ d \in Burnable => handlerOf[d] \in isBurnable[d]

Awaits(d, dest, n) ==
    \E t \in Pending : t.origin = d /\ t.dest = dest /\ t.nonce = n /\ t.recipient # Zero

\* A token reaches its recipient in the end if its destination is operational
\* from some time on: relayers try again, and no other transfer takes it.
EventuallyDelivered ==
    \A d, dest \in Domains, n \in 1 .. MaxNonce :
        <>[]Operational(dest) => (Awaits(d, dest, n) ~> ~Awaits(d, dest, n))
=============================================================================
