------------------------------ MODULE MCBridge ------------------------------
(* Small instances of Bridge for TLC. *)
EXTENDS Bridge, TLC

CONSTANTS r1, r2, h1, h2, f1, mpc, other, zero

MCDomains == {1, 2, 3}

Proposal(o, n, r, d) == [origin |-> o, nonce |-> n, resource |-> r, data |-> d]

\* Deposits 1 and 2 of domain 2 share a storage word, 1 and 257 share the bit
\* position; deposit 1 of domain 3 shares both with deposit 1 of domain 2.
P1 == Proposal(2, 1, r1, "a")
P1Resigned == Proposal(2, 1, r2, "b")
P2 == Proposal(2, 2, r1, "a")
P257 == Proposal(2, 257, r1, "a")
Q1 == Proposal(3, 1, r1, "a")
Forged == Proposal(3, 2, r1, "a")

MCProposals == {P1, P1Resigned, P2, P257, Q1, Forged}

MCSigned ==
    (mpc :> {<<P1, P2>>, <<P1, P1>>, <<P1Resigned>>, <<P257, Q1>>})
        @@ (other :> {<<Forged, P1>>})

Request(d, r, v) == [dest |-> d, resource |-> r, value |-> v]

MCRequests == {Request(1, r1, 0), Request(2, r1, 1), Request(2, r2, 0)}

NoRequests == {}

NoBatches == (mpc :> {}) @@ (other :> {})

NoProposals == {}

\* Executions and deposits together.
FewProposals == {P1, P2}

FewSigned == (mpc :> {<<P1, P2>>}) @@ (other :> {})
=============================================================================
