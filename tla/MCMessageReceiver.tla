-------------------------- MODULE MCMessageReceiver --------------------------
(* Messages for TLC. *)
EXTENDS MessageReceiver

CONSTANTS native, t, u, self, handler, outside, r1, r2, none

Message(id, token, amount, receiver, actions, gas) ==
    [id |-> id, tokenSent |-> token, amount |-> amount, receiver |-> receiver,
     actions |-> actions, gas |-> gas]

Outwards(value, send, receive) ==
    [nativeValue |-> value, callTo |-> "outside", tokenSend |-> send,
     tokenReceive |-> receive]

Own(callTo, asset, to, receive) ==
    [nativeValue |-> 0, callTo |-> callTo, asset |-> asset, to |-> to,
     tokenSend |-> none, tokenReceive |-> receive]

\* Calls of approve that give an allowance of one unit, and that end it.
Approval(asset, amount) ==
    [nativeValue |-> 0, callTo |-> "approve", asset |-> asset, amount |-> amount,
     tokenSend |-> none, tokenReceive |-> none]

\* A swap of t for u, with gas that is just enough always to recover; payments of
\* one coin and of two, which are there only if some come back, and an end of the
\* allowance of t; tokens paid on, and such an allowance.
MCMessages == {
    Message(1, t, 2, r1, <<Outwards(0, t, u)>>, 129),
    Message(2, native, 2, r2,
            <<Outwards(1, none, none), Approval(t, 0), Outwards(2, none, t)>>, 3),
    Message(3, t, 1, r2,
            <<Own("token", t, r1, none), Approval(t, 1),
              Own("transferBalanceAction", native, r1, none)>>, 3)}

MCOwned == [a \in Assets |-> [x \in Holders |->
    CASE x = Handler -> IF a = u THEN 0 ELSE 3
      [] x = Outside -> IF a = u THEN 1 ELSE 0
      [] x = Self -> IF a = Native THEN 1 ELSE 0
      [] OTHER -> 0]]
=============================================================================
