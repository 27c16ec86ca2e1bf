-------------------------- MODULE MCAdministration --------------------------
(* A small instance of Administration for TLC. *)
EXTENDS Administration, TLC

CONSTANTS alice, bob, zero, f1, f2, c1, c2

Grant(control, sig, account) ==
    [func |-> "grantAccess", control |-> control, sig |-> sig, account |-> account]

\* Bob deployed c2 and left a function out.
MCFirstAccess == [c \in {c1, c2} |-> [f \in Functions |->
    IF c = c1 THEN alice
    ELSE IF f = "adminChangeAccessControl" THEN zero ELSE bob]]

\* A right is revoked, and the right to grant handed over.
MCGrants == {
    Grant(c1, "adminPauseTransfers", zero),
    Grant(c1, "grantAccess", bob)}

Request(from, forwarder, nonce, call) ==
    [from |-> from, forwarder |-> forwarder, nonce |-> nonce, call |-> call]

\* Alice signs two requests with one nonce and a third, Bob one for the
\* other forwarder; one request names nobody.
MCRequests == {
    Request(alice, f1, 0, [func |-> "adminPauseTransfers"]),
    Request(alice, f1, 0, Elsewhere),
    Request(alice, f1, 1, [func |-> "adminSetForwarder", forwarder |-> f2, valid |-> TRUE]),
    Request(bob, f2, 0, [func |-> "adminChangeAccessControl", control |-> c2]),
    Request(zero, f1, 0, [func |-> "adminPauseTransfers"])}
=============================================================================
