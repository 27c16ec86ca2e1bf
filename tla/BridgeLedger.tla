---------------------------- MODULE BridgeLedger ----------------------------
(***************************************************************************)
(* What a Bridge promises to whoever watches the chain, who sees whole     *)
(* transactions and never the inside of one: each transaction delivers, at *)
(* once and for good, some proposals the bridge's key has signed, at most  *)
(* one for every deposit, and announces some deposits; a paused bridge     *)
(* delivers and announces nothing, and a bridge without a key is paused.   *)
(***************************************************************************)
CONSTANTS
    Accounts,       \* the possible keys
    NoKey,          \* no key yet
    Deposit(_),     \* the deposit a proposal answers
    SignedBy(_),    \* the proposals a key signs
    Announcements   \* the deposits this bridge can announce: <<dest, nonce>>

VARIABLES
    delivered,  \* the proposals delivered
    announced,  \* the deposits announced
    key,        \* the account whose signatures count
    paused

ledger == <<delivered, announced, key, paused>>

OnePerDeposit(P) == \A p, q \in P : Deposit(p) = Deposit(q) => p = q

Init ==
    /\ delivered = {}
    /\ announced = {}
    /\ key = NoKey
    /\ paused = TRUE

Transaction ==
    /\ ~paused
    /\ delivered \subseteq delivered'
    /\ delivered' \ delivered \subseteq SignedBy(key)
    /\ OnePerDeposit(delivered')
    /\ announced \subseteq announced'
    /\ announced' \subseteq Announcements
    /\ paused' \in BOOLEAN
    /\ UNCHANGED key

SetKey ==
    /\ key = NoKey
    /\ paused
    /\ key' \in Accounts
    /\ paused' = FALSE
    /\ UNCHANGED <<delivered, announced>>

Pause ==
    /\ ~paused
    /\ paused' = TRUE
    /\ UNCHANGED <<delivered, announced, key>>

Unpause ==
    /\ paused
    /\ key # NoKey
    /\ paused' = FALSE
    /\ UNCHANGED <<delivered, announced, key>>

Next == Transaction \/ SetKey \/ Pause \/ Unpause

Spec == Init /\ [][Next]_ledger
=============================================================================
