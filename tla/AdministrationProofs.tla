------------------------ MODULE AdministrationProofs ------------------------
(***************************************************************************)
(* Theorems about who administers the contracts: in Administration, for    *)
(* all accounts, forwarders and signed requests, and any depth of calls;   *)
(* and then in Migrations, for all configurations of a network, all        *)
(* tokens it has and any number of runs that stop half way, how roles are  *)
(* handed over, and what an open Bridge does for its tokens and deposits.  *)
(***************************************************************************)
EXTENDS Administration, Migrations, RecursionTheorems, SequenceTheorems, TLAPS

(* The conjunction of the three invariants is inductive. *)
IInv == TypeOK /\ RequestsRunOnce /\ EffectsWereAllowed

Once(s) == (\A r \in Requests : s.ran[r] <= 1) /\ RanInOrder(s)

Allowed(s) == s.effect # NoEffect => s.effect.allowed = s.effect.asked

-----------------------------------------------------------------------------
(* Storages and frames *)

LEMMA CallKinds ==
    ASSUME NEW call \in AdminCall
    PROVE  /\ call.func \in Functions
           /\ call \in BridgeCall \/ call \in GrantCall
           /\ call.func = "adminSetForwarder" => call.forwarder \in Forwarders
           /\ call.func = "adminChangeAccessControl" => call.control \in Controls
           /\ call.func = "grantAccess" =>
                  /\ call.control \in Controls
                  /\ call.sig \in Functions
                  /\ call.account \in Accounts \cup {Zero}
           /\ call \in BridgeCall => call.func # "grantAccess"
           /\ call \in GrantCall => call.func = "grantAccess"
BY GrantAssumption, FunctionAssumption DEF AdminCall, BridgeCall, GrantCall, Functions

LEMMA RequestKinds ==
    ASSUME NEW r \in Requests
    PROVE  /\ r.from \in Accounts \cup {Zero}
           /\ r.forwarder \in Forwarders
           /\ r.nonce \in Nat
           /\ r.call # Elsewhere => r.call \in AdminCall
BY RequestAssumption

LEMMA StackFacts ==
    ASSUME TypeOK
    PROVE  /\ Depth \in Nat
           /\ \A j \in 1 .. Depth : stack[j] \in Frame
           /\ Storages \subseteq Store
           /\ store \in Storages
           /\ \A j \in 1 .. Depth : stack[j].entry \in Storages /\ stack[j].before \in Storages
<1>1. Depth \in Nat /\ \A j \in 1 .. Depth : stack[j] \in Frame
  BY DEF TypeOK, Depth
<1>2. \A j \in 1 .. Depth : stack[j].entry \in Store /\ stack[j].before \in Store
  BY <1>1 DEF Frame
<1> QED BY <1>1, <1>2 DEF TypeOK, Storages

LEMMA AfterCallType ==
    ASSUME NEW s \in Store, NEW call \in AdminCall, NEW asked \in Accounts,
           Holder(s, call) = asked
    PROVE  /\ AfterCall(s, call, asked) \in Store
           /\ AfterCall(s, call, asked).nonces = s.nonces
           /\ AfterCall(s, call, asked).ran = s.ran
           /\ Allowed(AfterCall(s, call, asked))
<1> DEFINE e == [func |-> call.func, allowed |-> Holder(s, call), asked |-> asked]
           v == IF call.func # "adminSetForwarder" THEN s.validForwarders
                ELSE IF call.valid THEN s.validForwarders \cup {call.forwarder}
                ELSE s.validForwarders \ {call.forwarder}
           c == IF call.func = "adminChangeAccessControl" THEN call.control
                ELSE s.accessControl
           g == IF call.func = "grantAccess"
                THEN [s.access EXCEPT ![call.control][call.sig] = call.account]
                ELSE s.access
<1>1. e \in [func : Functions, allowed : Accounts, asked : Accounts] /\ e.allowed = e.asked
  BY CallKinds
<1>2. v \in SUBSET Forwarders
  BY CallKinds DEF Store
<1>3. c \in Controls
  BY CallKinds DEF Store
<1>4. g \in [Controls -> [Functions -> Accounts \cup {Zero}]]
  <2>1. s.access \in [Controls -> [Functions -> Accounts \cup {Zero}]]
    BY DEF Store
  <2>2. CASE call.func = "grantAccess"
    BY <2>1, <2>2, CallKinds
  <2>3. CASE call.func # "grantAccess"
    BY <2>1, <2>3
  <2> QED BY <2>2, <2>3
<1>5. AfterCall(s, call, asked) =
          [s EXCEPT !.effect = e, !.validForwarders = v, !.accessControl = c, !.access = g]
  BY DEF AfterCall, Store
<1> HIDE DEF e, v, c, g
<1>6. [s EXCEPT !.effect = e, !.validForwarders = v, !.accessControl = c, !.access = g] \in Store
  BY <1>1, <1>2, <1>3, <1>4 DEF Store
<1>7. /\ AfterCall(s, call, asked).effect = e
      /\ AfterCall(s, call, asked).nonces = s.nonces
      /\ AfterCall(s, call, asked).ran = s.ran
  BY <1>5 DEF Store
<1> QED BY <1>1, <1>5, <1>6, <1>7 DEF Allowed

LEMMA AfterCallOnce ==
    ASSUME NEW s, NEW t, t.nonces = s.nonces, t.ran = s.ran, Once(s)
    PROVE  Once(t)
BY DEF Once, RanInOrder

LEMMA AfterVerifyType ==
    ASSUME NEW s \in Store, NEW f \in Forwarders, NEW r \in Requests
    PROVE  /\ AfterVerify(s, f, r) \in Store
           /\ AfterVerify(s, f, r).nonces = [s.nonces EXCEPT ![f][r.from] = r.nonce + 1]
           /\ AfterVerify(s, f, r).ran = [s.ran EXCEPT ![r] = @ + 1]
           /\ AfterVerify(s, f, r).effect = s.effect
<1> DEFINE n == [s.nonces EXCEPT ![f][r.from] = r.nonce + 1]
           m == [s.ran EXCEPT ![r] = @ + 1]
<1>1. n \in [Forwarders -> [Accounts \cup {Zero} -> Nat]]
  <2>1. s.nonces \in [Forwarders -> [Accounts \cup {Zero} -> Nat]]
    BY DEF Store
  <2>2. r.from \in Accounts \cup {Zero} /\ r.nonce + 1 \in Nat
    BY RequestKinds
  <2> QED BY <2>1, <2>2
<1>2. m \in [Requests -> Nat]
  BY DEF Store
<1>3. AfterVerify(s, f, r) = [s EXCEPT !.nonces = n, !.ran = m]
  BY DEF AfterVerify, Store
<1> HIDE DEF n, m
<1>4. [s EXCEPT !.nonces = n, !.ran = m] \in Store
  BY <1>1, <1>2 DEF Store
<1>5. /\ [s EXCEPT !.nonces = n, !.ran = m].nonces = n
      /\ [s EXCEPT !.nonces = n, !.ran = m].ran = m
      /\ [s EXCEPT !.nonces = n, !.ran = m].effect = s.effect
  BY DEF Store
<1> QED BY <1>3, <1>4, <1>5 DEF n, m

(* The request that verify accepts has the first nonce not used: it did not *)
(* run, nor did any other with its nonce.                                   *)
LEMMA AfterVerifyOnce ==
    ASSUME NEW s \in Store, Once(s), NEW f \in Forwarders, NEW r \in Requests,
           NEW signer \in Accounts, Verify(s, f, r, signer)
    PROVE  Once(AfterVerify(s, f, r))
<1> DEFINE t == AfterVerify(s, f, r)
           Mine(u, g, a) == {q \in Requests : q.forwarder = g /\ q.from = a /\ u.ran[q] > 0}
<1>1. /\ r.forwarder = f
      /\ r.nonce = s.nonces[f][r.from]
      /\ r.nonce \in Nat
      /\ r.from \in Accounts \cup {Zero}
  BY RequestKinds DEF Verify
<1>2. /\ t.nonces = [s.nonces EXCEPT ![f][r.from] = r.nonce + 1]
      /\ t.ran = [s.ran EXCEPT ![r] = @ + 1]
  BY AfterVerifyType
<1>3. /\ s.ran \in [Requests -> Nat]
      /\ s.nonces \in [Forwarders -> [Accounts \cup {Zero} -> Nat]]
  BY DEF Store
<1> HIDE DEF t
<1>4. \A q \in Mine(s, f, r.from) : q.nonce # r.nonce
  <2>1. {q.nonce : q \in Mine(s, f, r.from)} = 0 .. r.nonce - 1
    BY <1>1 DEF Once, RanInOrder
  <2> QED BY <2>1, <1>1
<1>5. s.ran[r] = 0
  BY <1>1, <1>3, <1>4
<1>6. \A q \in Requests : t.ran[q] <= 1
  BY <1>2, <1>3, <1>5 DEF Once
<1>7. ASSUME NEW g \in Forwarders, NEW a \in Accounts \cup {Zero}
      PROVE  /\ {q.nonce : q \in Mine(t, g, a)} = 0 .. t.nonces[g][a] - 1
             /\ \A p, q \in Mine(t, g, a) : p.nonce = q.nonce => p = q
  <2>1. /\ {q.nonce : q \in Mine(s, g, a)} = 0 .. s.nonces[g][a] - 1
        /\ \A p, q \in Mine(s, g, a) : p.nonce = q.nonce => p = q
    BY DEF Once, RanInOrder
  <2>2. CASE g = f /\ a = r.from
    <3>1. Mine(t, g, a) = Mine(s, g, a) \cup {r}
      BY <2>2, <1>1, <1>2, <1>3, <1>5
    <3>2. t.nonces[g][a] = r.nonce + 1 /\ s.nonces[g][a] = r.nonce
      BY <2>2, <1>1, <1>2, <1>3
    <3>3. 0 .. t.nonces[g][a] - 1 = (0 .. s.nonces[g][a] - 1) \cup {r.nonce}
      BY <3>2, <1>1
    <3> HIDE DEF Mine
    <3>4. {q.nonce : q \in Mine(t, g, a)} = {q.nonce : q \in Mine(s, g, a)} \cup {r.nonce}
      BY <3>1
    <3>5. \A q \in Mine(s, g, a) : q.nonce # r.nonce
      BY <2>2, <1>4
    <3> QED BY <2>1, <3>1, <3>3, <3>4, <3>5
  <2>3. CASE ~(g = f /\ a = r.from)
    <3>1. Mine(t, g, a) = Mine(s, g, a)
      BY <2>3, <1>1, <1>2, <1>3
    <3>2. t.nonces[g][a] = s.nonces[g][a]
      BY <2>3, <1>1, <1>2, <1>3
    <3> QED BY <2>1, <3>1, <3>2
  <2> QED BY <2>2, <2>3
<1> QED BY <1>6, <1>7 DEF Once, RanInOrder, t

-----------------------------------------------------------------------------
(* The steps.  Each leaves the storages that may come back among those that *)
(* were there already and the new one.                                      *)

LEMMA Pushed ==
    ASSUME IInv, NEW fr \in Frame, fr.entry = store, fr.before = store',
           fr.signer = fr.request.from, stack' = Append(stack, fr)
    PROVE  /\ stack' \in Seq(Frame)
           /\ Storages' \subseteq Storages \cup {store'}
           /\ \A j \in 1 .. Depth' : stack'[j].signer = stack'[j].request.from
<1>1. /\ stack \in Seq(Frame) /\ stack' \in Seq(Frame)
      /\ Depth' = Depth + 1 /\ Depth \in Nat
      /\ \A j \in 1 .. Depth' : j # Depth + 1 => j \in 1 .. Depth /\ stack'[j] = stack[j]
      /\ stack'[Depth + 1] = fr
  BY DEF IInv, TypeOK, Depth
<1>2. \A j \in 1 .. Depth' : /\ stack'[j].entry \in Storages \cup {store'}
                              /\ stack'[j].before \in Storages \cup {store'}
  BY <1>1, StackFacts DEF IInv
<1>3. Storages' \subseteq Storages \cup {store'}
  BY <1>2 DEF Storages
<1>4. \A j \in 1 .. Depth' : stack'[j].signer = stack'[j].request.from
  BY <1>1 DEF IInv, EffectsWereAllowed
<1> QED BY <1>1, <1>3, <1>4

LEMMA Popped ==
    ASSUME IInv, Depth > 0, Leave
    PROVE  /\ stack' \in Seq(Frame)
           /\ Storages' \subseteq Storages \cup {store'}
           /\ \A j \in 1 .. Depth' : stack'[j].signer = stack'[j].request.from
<1>1. /\ stack \in Seq(Frame) /\ stack' \in Seq(Frame)
      /\ Depth' = Depth - 1 /\ Depth \in Nat
      /\ \A j \in 1 .. Depth' : j \in 1 .. Depth /\ stack'[j] = stack[j]
  <2> DEFINE n == Len(stack) - 1
  <2>1. /\ stack \in Seq(Frame) /\ n \in Nat /\ n + 1 = Depth
        /\ stack' = SubSeq(stack, 1, n)
    BY DEF IInv, TypeOK, Depth, Leave
  <2> HIDE DEF n
  <2>2. \A j \in 1 .. n : j \in 1 .. Len(stack) /\ stack[j] \in Frame
    BY <2>1 DEF Depth
  <2>3. /\ Len(SubSeq(stack, 1, n)) = IF 1 <= n THEN n - 1 + 1 ELSE 0
        /\ \A j \in 1 .. n - 1 + 1 : SubSeq(stack, 1, n)[j] = stack[1 + j - 1]
    BY <2>1, <2>2, SubSeqProperties
  <2>4. Len(stack') = n
    BY <2>1, <2>3
  <2>5. ASSUME NEW j \in 1 .. n
        PROVE  stack'[j] = stack[j]
    <3>1. j \in 1 .. n - 1 + 1 /\ 1 + j - 1 = j
      BY <2>1
    <3> QED BY <2>1, <2>3, <3>1
  <2>6. stack' \in Seq(Frame)
    BY <2>1, <2>2, SubSeqProperties
  <2> QED BY <2>1, <2>2, <2>4, <2>5, <2>6 DEF Depth
<1>2. \A j \in 1 .. Depth' : /\ stack'[j].entry \in Storages
                              /\ stack'[j].before \in Storages
  BY <1>1, StackFacts DEF IInv
<1>3. Storages' \subseteq Storages \cup {store'}
  BY <1>2 DEF Storages
<1>4. \A j \in 1 .. Depth' : stack'[j].signer = stack'[j].request.from
  BY <1>1 DEF IInv, EffectsWereAllowed
<1> QED BY <1>1, <1>3, <1>4

LEMMA Advanced ==
    ASSUME IInv, Depth > 0, stack' = [stack EXCEPT ![Depth].pc = "target"]
    PROVE  /\ stack' \in Seq(Frame)
           /\ Storages' \subseteq Storages \cup {store'}
           /\ \A j \in 1 .. Depth' : stack'[j].signer = stack'[j].request.from
<1> DEFINE fr == [stack[Depth] EXCEPT !.pc = "target"]
<1>1. stack \in Seq(Frame) /\ Depth \in 1 .. Len(stack) /\ Depth \in Nat
  BY DEF IInv, TypeOK, Depth
<1>2. stack[Depth] \in Frame
  BY <1>1
<1>3. /\ fr \in Frame
      /\ fr.entry = stack[Depth].entry /\ fr.before = stack[Depth].before
      /\ fr.signer = stack[Depth].signer /\ fr.request = stack[Depth].request
  BY <1>2 DEF Frame
<1>4. stack' = [stack EXCEPT ![Depth] = fr]
  OBVIOUS
<1> HIDE DEF fr
<1>5. /\ stack' \in Seq(Frame)
      /\ Depth' = Depth
      /\ \A j \in 1 .. Depth : stack'[j] = IF j = Depth THEN fr ELSE stack[j]
  BY <1>1, <1>3, <1>4 DEF Depth
<1>6. \A j \in 1 .. Depth' : /\ stack'[j].entry \in Storages
                              /\ stack'[j].before \in Storages
  BY <1>1, <1>3, <1>5, StackFacts DEF IInv
<1>7. Storages' \subseteq Storages \cup {store'}
  BY <1>6 DEF Storages
<1>8. \A j \in 1 .. Depth' : stack'[j].signer = stack'[j].request.from
  BY <1>1, <1>3, <1>5 DEF IInv, EffectsWereAllowed
<1> QED BY <1>5, <1>7, <1>8

(* What the three lemmas leave to show. *)
LEMMA Preserved ==
    ASSUME IInv, store' \in Store, Once(store'), Allowed(store'),
           stack' \in Seq(Frame), Storages' \subseteq Storages \cup {store'},
           \A j \in 1 .. Depth' : stack'[j].signer = stack'[j].request.from
    PROVE  IInv'
<1>1. \A s \in Storages : Once(s) /\ Allowed(s)
  BY DEF IInv, RequestsRunOnce, EffectsWereAllowed, Once, Allowed
<1>2. TypeOK'
  BY DEF TypeOK
<1>3. RequestsRunOnce'
  <2>1. \A s \in Storages' : Once(s)
    BY <1>1
  <2> QED BY <2>1 DEF RequestsRunOnce, Once, RanInOrder
<1>4. EffectsWereAllowed'
  <2>1. \A s \in Storages' : Allowed(s)
    BY <1>1
  <2> QED BY <2>1 DEF EffectsWereAllowed, Allowed
<1> QED BY <1>2, <1>3, <1>4 DEF IInv

LEMMA StoragesAreFine ==
    ASSUME IInv, NEW s \in Storages
    PROVE  s \in Store /\ Once(s) /\ Allowed(s)
BY StackFacts DEF IInv, RequestsRunOnce, EffectsWereAllowed, Once, Allowed

(* Whoever may call holds the access; a forwarder never does. *)
LEMMA HolderAsked ==
    ASSUME NEW s \in Store, NEW call \in AdminCall, NEW caller, NEW appended,
           MayCall(s, call, caller, appended)
    PROVE  /\ caller \in Accounts => Holder(s, call) = caller
           /\ caller \in Forwarders =>
                  /\ Holder(s, call) = appended
                  /\ Holder(s, call) \in Accounts \cup {Zero}
<1>1. /\ s.validForwarders \subseteq Forwarders
      /\ s.accessControl \in Controls
      /\ s.access \in [Controls -> [Functions -> Accounts \cup {Zero}]]
  BY DEF Store
<1>2. Forwarders \cap (Accounts \cup {Zero}) = {}
  BY AccountAssumption
<1>3. CASE /\ call \in BridgeCall
           /\ s.access[s.accessControl][call.func] = MsgSender(s, caller, appended)
  <2>1. Holder(s, call) = s.access[s.accessControl][call.func]
    BY <1>3, CallKinds DEF Holder
  <2>2. Holder(s, call) \in Accounts \cup {Zero}
    BY <2>1, <1>1, CallKinds
  <2> QED BY <1>1, <1>2, <1>3, <2>1, <2>2 DEF MsgSender
<1>4. CASE /\ call \in Grants
           /\ s.access[call.control]["grantAccess"] = caller
  <2>1. call \in GrantCall
    BY <1>4, GrantAssumption
  <2>2. Holder(s, call) = s.access[call.control]["grantAccess"]
    BY <2>1, CallKinds DEF Holder
  <2>3. Holder(s, call) \in Accounts \cup {Zero}
    BY <2>1, <2>2, <1>1, CallKinds
  <2> QED BY <1>2, <1>4, <2>2, <2>3
<1> QED BY <1>3, <1>4 DEF MayCall, HasAccess

LEMMA InitInductive == Init => IInv
<1> SUFFICES ASSUME Init PROVE IInv
  OBVIOUS
<1>1. store \in Store /\ stack = <<>>
  BY AccountAssumption, GrantAssumption DEF Init, Store
<1>2. Storages = {store}
  BY <1>1 DEF Storages, Depth
<1>3. Once(store)
  <2>1. /\ \A r \in Requests : store.ran[r] = 0
        /\ \A f \in Forwarders, a \in Accounts \cup {Zero} : store.nonces[f][a] = 0
    BY DEF Init
  <2> QED BY <2>1 DEF Once, RanInOrder
<1>4. Allowed(store)
  BY DEF Init, Allowed
<1> QED BY <1>1, <1>2, <1>3, <1>4
      DEF IInv, TypeOK, RequestsRunOnce, EffectsWereAllowed, Once, Allowed, Depth

LEMMA NextInductive == IInv /\ [Next]_vars => IInv'
<1> SUFFICES ASSUME IInv, [Next]_vars PROVE IInv'
  OBVIOUS
<1>1. store \in Store /\ Once(store) /\ Allowed(store)
  BY StackFacts, StoragesAreFine DEF IInv
<1>2. Depth > 0 => /\ Top \in Frame
                   /\ Top.entry \in Storages /\ Top.before \in Storages
  BY StackFacts DEF IInv, Top
<1>3. ASSUME NEW a \in Accounts, NEW b \in Accounts, NEW call \in AdminCall,
             CallDirectly(a, b, call)
      PROVE  IInv'
  <2>1. Holder(store, call) = a
    BY <1>1, <1>3, HolderAsked DEF CallDirectly
  <2>2. store' \in Store /\ Once(store') /\ Allowed(store')
    BY <1>1, <1>3, <2>1, AfterCallType, AfterCallOnce DEF CallDirectly
  <2>3. stack' = stack
    BY <1>3 DEF CallDirectly
  <2>4. /\ stack' \in Seq(Frame)
        /\ Storages' \subseteq Storages \cup {store'}
        /\ \A j \in 1 .. Depth' : stack'[j].signer = stack'[j].request.from
    BY <2>3 DEF IInv, TypeOK, EffectsWereAllowed, Storages, Depth
  <2> QED BY <2>2, <2>4, Preserved
<1>4. ASSUME NEW f \in Forwarders, NEW r \in Requests, NEW a \in Accounts,
             Execute(f, r, a)
      PROVE  IInv'
  <2> DEFINE fr == [pc |-> IF r.call = Elsewhere THEN "target" ELSE "call",
                    request |-> r, signer |-> a, entry |-> store, before |-> store']
  <2>1. Verify(store, f, r, a) /\ store' = AfterVerify(store, f, r)
    BY <1>4 DEF Execute
  <2>2. store' \in Store /\ Once(store') /\ Allowed(store')
    BY <1>1, <2>1, AfterVerifyType, AfterVerifyOnce DEF Allowed
  <2>3. fr \in Frame /\ fr.signer = fr.request.from
    BY <1>1, <2>1, <2>2 DEF Frame, Verify
  <2>4. fr.entry = store /\ fr.before = store' /\ stack' = Append(stack, fr)
    BY <1>4 DEF Execute
  <2> HIDE DEF fr
  <2> QED BY <2>2, <2>3, <2>4, Pushed, Preserved
<1>5. CASE CallTarget
  <2> DEFINE r == Top.request
  <2>1. /\ Depth > 0 /\ Top.pc = "call" /\ r \in Requests /\ Top.signer \in Accounts
        /\ MayCall(store, r.call, r.forwarder, r.from)
        /\ store' = AfterCall(store, r.call, Top.signer)
        /\ stack' = [stack EXCEPT ![Depth].pc = "target"]
    BY <1>2, <1>5 DEF CallTarget, Frame
  <2>2. r.call \in AdminCall /\ r.forwarder \in Forwarders
    BY <2>1, RequestKinds, GrantAssumption DEF MayCall, AdminCall
  <2>3. Top.signer = r.from
    BY <2>1, StackFacts DEF IInv, EffectsWereAllowed, Top
  <2>4. Holder(store, r.call) = Top.signer
    BY <1>1, <2>1, <2>2, <2>3, HolderAsked
  <2>5. store' \in Store /\ Once(store') /\ Allowed(store')
    BY <1>1, <2>1, <2>2, <2>4, AfterCallType, AfterCallOnce
  <2> QED BY <2>1, <2>5, Advanced, Preserved
<1>6. CASE TargetReturns
  BY <1>1, <1>6, Popped, Preserved DEF TargetReturns
<1>7. CASE TargetReverts
  BY <1>2, <1>7, StoragesAreFine, Popped, Preserved DEF TargetReverts
<1>8. CASE Revert
  BY <1>2, <1>8, StoragesAreFine, Popped, Preserved DEF Revert
<1>9. CASE UNCHANGED vars
  <2>1. store' = store /\ stack' = stack
    BY <1>9 DEF vars
  <2>2. /\ stack' \in Seq(Frame)
        /\ Storages' \subseteq Storages \cup {store'}
        /\ \A j \in 1 .. Depth' : stack'[j].signer = stack'[j].request.from
    BY <2>1 DEF IInv, TypeOK, EffectsWereAllowed, Storages, Depth
  <2> QED BY <1>1, <2>1, <2>2, Preserved
<1> QED BY <1>3, <1>4, <1>5, <1>6, <1>7, <1>8, <1>9 DEF Next

LEMMA Inductive == Spec => []IInv
BY InitInductive, NextInductive, PTL DEF Spec

-----------------------------------------------------------------------------
(* Results *)

\* Storages and frames keep their types; whoever is allowed is an account.
THEOREM TypeCorrect == Spec => []TypeOK
<1>1. IInv => TypeOK
  BY DEF IInv
<1> QED BY <1>1, Inductive, PTL

\* Forwarder.execute begins the call of each signed request at most once, and an
\* account's requests in the order of their nonces.
THEOREM RunOnce == Spec => []RequestsRunOnce
<1>1. IInv => RequestsRunOnce
  BY DEF IInv
<1> QED BY <1>1, Inductive, PTL

\* onlyAllowed, _msgSender and verify together let a function have effect only
\* for the account that holds the access and asked for it.
THEOREM OnlyAllowedEffects == Spec => []EffectsWereAllowed
<1>1. IInv => EffectsWereAllowed
  BY DEF IInv
<1> QED BY <1>1, Inductive, PTL
-----------------------------------------------------------------------------
(* The migrations: scripts are joined by FlattenSeq, a recursive function. *)

IsFlattening(f, ss) ==
    f = [i \in 1 .. Len(ss) |-> IF i = 1 THEN ss[i] ELSE f[i - 1] \o ss[i]]

LEMMA FlatteningExists ==
    ASSUME NEW T, NEW ss \in Seq(Seq(T)), ss # <<>>
    PROVE  \E f : IsFlattening(f, ss)
<1> DEFINE m == Len(ss)
           UpTo(f, k) == \A i \in 1 .. m : i <= k =>
               f[i] = IF i = 1 THEN ss[i] ELSE f[i - 1] \o ss[i]
           Found(k) == \E f : f = [i \in 1 .. m |-> f[i]] /\ UpTo(f, k)
           S == {k \in Nat : Found(k)}
<1>m. m \in Nat
  OBVIOUS
<1>1. 0 \in S
  <2> DEFINE f == [i \in 1 .. m |-> 1]
  <2>1. f = [i \in 1 .. m |-> f[i]]
    OBVIOUS
  <2>2. UpTo(f, 0)
    <3>1. \A i \in 1 .. m : ~ (i <= 0)
      BY <1>m
    <3> QED
      BY <3>1, Zenon
  <2> HIDE DEF f
  <2>3. Found(0)
    BY <2>1, <2>2
  <2> QED
    BY <2>3
<1>2. ASSUME NEW k \in Nat, k \in S
      PROVE  k + 1 \in S
  <2>f. PICK f : f = [i \in 1 .. m |-> f[i]] /\ UpTo(f, k)
    BY <1>2
  <2>u. \A i \in 1 .. m : i <= k => f[i] = IF i = 1 THEN ss[i] ELSE f[i - 1] \o ss[i]
    BY <2>f, Zenon
  <2> DEFINE g == [i \in 1 .. m |-> IF i <= k THEN f[i]
                                    ELSE IF i = 1 THEN ss[i] ELSE f[i - 1] \o ss[i]]
  <2>1. g = [i \in 1 .. m |-> g[i]]
    OBVIOUS
  <2>2. UpTo(g, k + 1)
    <3> SUFFICES ASSUME NEW i \in 1 .. m, i <= k + 1
                 PROVE  g[i] = IF i = 1 THEN ss[i] ELSE g[i - 1] \o ss[i]
      OBVIOUS
    <3> HIDE DEF m
    <3>1. g[i] = IF i = 1 THEN ss[i] ELSE f[i - 1] \o ss[i]
      BY <2>u
    <3>2. CASE i # 1
      <4>1. i - 1 \in 1 .. m /\ i - 1 <= k
        BY <3>2, <1>m
      <4>2. g[i - 1] = f[i - 1]
        BY <4>1
      <4> QED
        BY <3>1, <3>2, <4>2, Zenon
    <3> QED
      BY <3>1, <3>2, Zenon
  <2> HIDE DEF g
  <2>3. Found(k + 1)
    BY <2>1, <2>2, Zenon
  <2> HIDE DEF Found
  <2> QED
    BY <2>3
<1>3. m \in S
  <2> HIDE DEF S
  <2> QED
    BY <1>1, <1>2, <1>m, NatInductionOnSet
<1>4. PICK f : f = [i \in 1 .. m |-> f[i]] /\ UpTo(f, m)
  BY <1>3
<1>5. \A i \in 1 .. m : f[i] = IF i = 1 THEN ss[i] ELSE f[i - 1] \o ss[i]
  <2>1. \A i \in 1 .. m : i <= m => f[i] = IF i = 1 THEN ss[i] ELSE f[i - 1] \o ss[i]
    BY <1>4, Zenon
  <2> QED
    BY <2>1, <1>m
<1>6. [i \in 1 .. m |-> f[i]] = [i \in 1 .. m |-> IF i = 1 THEN ss[i] ELSE f[i - 1] \o ss[i]]
  BY <1>5
<1> QED
  BY <1>4, <1>6, Zenon DEF IsFlattening

LEMMA FlattenByFunction ==
    ASSUME NEW T, NEW ss \in Seq(Seq(T)), ss # <<>>
    PROVE  \E f : IsFlattening(f, ss) /\ FlattenSeq(ss) = f[Len(ss)]
<1> DEFINE flatten == CHOOSE f : IsFlattening(f, ss)
<1>1. IsFlattening(flatten, ss)
  BY FlatteningExists, Zenon
<1>2. FlattenSeq(ss) = flatten[Len(ss)]
  <2>1. Len(ss) # 0
    OBVIOUS
  <2> QED
    BY <2>1, Zenon DEF FlattenSeq, IsFlattening
<1> QED
  BY <1>1, <1>2

\* The sequence s stands in u, after p elements.
Within(s, u, p) == p \in Nat /\ \A x \in DOMAIN s : p + x \in DOMAIN u /\ u[p + x] = s[x]

LEMMA WithinConcat ==
    ASSUME NEW T, NEW u \in Seq(T), NEW v \in Seq(T)
    PROVE  /\ Within(v, u \o v, Len(u))
           /\ Within(u, u \o v, 0)
           /\ \A s \in Seq(T) : \A p : Within(s, u, p) => Within(s, u \o v, p)
           /\ \A s \in Seq(T) : \A p : Within(s, v, p) => Within(s, u \o v, Len(u) + p)
           /\ \A i \in DOMAIN (u \o v) : i \in DOMAIN u \/ i - Len(u) \in DOMAIN v
<1>1. /\ Len(u) \in Nat /\ Len(v) \in Nat
      /\ DOMAIN u = 1 .. Len(u) /\ DOMAIN v = 1 .. Len(v)
      /\ DOMAIN (u \o v) = 1 .. Len(u) + Len(v)
      /\ \A i \in 1 .. Len(u) : (u \o v)[i] = u[i]
      /\ \A i \in 1 .. Len(v) : (u \o v)[Len(u) + i] = v[i]
  <2>1. u \o v \in Seq(T) /\ Len(u \o v) = Len(u) + Len(v)
    OBVIOUS
  <2>2. DOMAIN (u \o v) = 1 .. Len(u \o v)
    BY <2>1
  <2> QED
    BY <2>1, <2>2
<1> DEFINE w == u \o v
           m == Len(u)
           n == Len(v)
<1> HIDE DEF w, m, n
<1>2. /\ m \in Nat /\ n \in Nat /\ DOMAIN u = 1 .. m /\ DOMAIN v = 1 .. n
      /\ DOMAIN w = 1 .. m + n
      /\ \A i \in 1 .. m : w[i] = u[i]
      /\ \A i \in 1 .. n : w[m + i] = v[i]
  BY <1>1 DEF w, m, n
<1>3. Within(v, w, m)
  BY <1>2 DEF Within
<1>4. Within(u, w, 0)
  BY <1>2 DEF Within
<1>5. ASSUME NEW s \in Seq(T), NEW p, Within(s, u, p) PROVE Within(s, w, p)
  BY <1>2, <1>5 DEF Within
<1>6. ASSUME NEW s \in Seq(T), NEW p, Within(s, v, p) PROVE Within(s, w, m + p)
  <2>1. p \in Nat /\ DOMAIN s = 1 .. Len(s) /\ Len(s) \in Nat
    BY <1>6 DEF Within
  <2>2. ASSUME NEW x \in DOMAIN s PROVE (m + p) + x \in DOMAIN w /\ w[(m + p) + x] = s[x]
    <3>1. p + x \in 1 .. n /\ v[p + x] = s[x] /\ x \in Nat
      BY <1>2, <1>6, <2>1 DEF Within
    <3>2. (m + p) + x = m + (p + x)
      BY <1>2, <2>1, <3>1
    <3>3. w[m + (p + x)] = v[p + x] /\ m + (p + x) \in 1 .. m + n
      BY <1>2, <3>1
    <3> QED
      BY <1>2, <3>1, <3>2, <3>3
  <2> QED
    BY <1>2, <2>1, <2>2 DEF Within
<1>7. \A i \in DOMAIN w : i \in DOMAIN u \/ i - m \in DOMAIN v
  BY <1>2
<1> QED
  BY <1>3, <1>4, <1>5, <1>6, <1>7 DEF w, m

\* The sequences stand in their flattening, and it has no other elements.
LEMMA Flattened ==
    ASSUME NEW T, NEW ss \in Seq(Seq(T))
    PROVE  /\ FlattenSeq(ss) \in Seq(T)
           /\ \A j \in DOMAIN ss : \E p : Within(ss[j], FlattenSeq(ss), p)
           /\ \A i \in DOMAIN FlattenSeq(ss) : \E j \in DOMAIN ss : \E p :
                  Within(ss[j], FlattenSeq(ss), p) /\ i - p \in DOMAIN ss[j]
<1>1. CASE ss = <<>>
  <2>1. Len(ss) = 0 /\ DOMAIN ss = {} /\ ss \in Seq(T)
    BY <1>1
  <2>2. FlattenSeq(ss) = ss
    BY <2>1, Zenon DEF FlattenSeq
  <2> QED
    BY <2>1, <2>2, Zenon
<1>2. CASE ss # <<>>
  <2>f. PICK f : IsFlattening(f, ss) /\ FlattenSeq(ss) = f[Len(ss)]
    BY <1>2, FlattenByFunction
  <2> DEFINE m == Len(ss)
             Good(k) == /\ f[k] \in Seq(T)
                        /\ \A j \in 1 .. k : \E p : Within(ss[j], f[k], p)
                        /\ \A i \in DOMAIN f[k] : \E j \in 1 .. k : \E p :
                               Within(ss[j], f[k], p) /\ i - p \in DOMAIN ss[j]
             S == {k \in Nat : k + 1 \in 1 .. m => Good(k + 1)}
  <2>m. m \in Nat \ {0} /\ DOMAIN ss = 1 .. m /\ \A i \in 1 .. m : ss[i] \in Seq(T)
    BY <1>2
  <2> HIDE DEF m
  <2>0. \A i \in 1 .. m : f[i] = IF i = 1 THEN ss[i] ELSE f[i - 1] \o ss[i]
    BY <2>f DEF IsFlattening, m
  <2>1. 0 \in S
    <3>1. f[1] = ss[1] /\ ss[1] \in Seq(T)
      BY <2>0, <2>m
    <3>2. Within(ss[1], ss[1], 0)
      BY <3>1 DEF Within
    <3>3. \A i \in DOMAIN ss[1] : i - 0 \in DOMAIN ss[1]
      BY <3>1
    <3>4. Good(1)
      BY <3>1, <3>2, <3>3
    <3> HIDE DEF Good
    <3> QED
      BY <3>4
  <2>2. ASSUME NEW k \in Nat, k \in S PROVE k + 1 \in S
    <3>n. k + 1 \in Nat
      OBVIOUS
    <3> SUFFICES ASSUME (k + 1) + 1 \in 1 .. m PROVE Good((k + 1) + 1)
      BY <3>n, Zenon
    <3> DEFINE n == k + 1
               u == f[n]
               v == ss[n + 1]
    <3>1. n \in Nat /\ n + 1 \in 1 .. m /\ n \in 1 .. m /\ n + 1 # 1 /\ n + 1 - 1 = n
      BY <2>m
    <3>2. Good(n)
      BY <2>2, <3>1, Zenon
    <3>3. f[n + 1] = u \o v /\ v \in Seq(T) /\ u \in Seq(T)
      <4> HIDE DEF n
      <4>1. f[n + 1] = f[n] \o ss[n + 1]
        <5>1. PICK j : j = n + 1
          OBVIOUS
        <5>2. j \in 1 .. m /\ j # 1 /\ j - 1 = n
          BY <5>1, <3>1
        <5>3. f[j] = f[j - 1] \o ss[j]
          BY <2>0, <5>2, Zenon
        <5> QED
          BY <5>1, <5>2, <5>3, Zenon
      <4>2. f[n] \in Seq(T)
        BY <3>2, Zenon
      <4>3. ss[n + 1] \in Seq(T)
        BY <2>m, <3>1, Zenon
      <4> QED
        BY <4>1, <4>2, <4>3, Zenon
    <3>4. \A j \in 1 .. n + 1 : j \in 1 .. n \/ j = n + 1
      BY <3>1
    <3>5. \A j \in 1 .. n : j \in 1 .. n + 1 /\ ss[j] \in Seq(T)
      BY <3>1, <2>m
    <3>u. /\ \A j \in 1 .. n : \E p : Within(ss[j], u, p)
          /\ \A i \in DOMAIN u : \E j \in 1 .. n : \E p :
                 Within(ss[j], u, p) /\ i - p \in DOMAIN ss[j]
      BY <3>2
    <3> HIDE DEF n, u, Good, S
    <3>6. ASSUME NEW j \in 1 .. n + 1 PROVE \E p : Within(ss[j], u \o v, p)
      <4>1. CASE j \in 1 .. n
        BY <4>1, <3>3, <3>5, <3>u, WithinConcat, Zenon
      <4>2. CASE j = n + 1
        BY <4>2, <3>3, WithinConcat, Zenon
      <4> QED
        BY <3>4, <4>1, <4>2
    <3>7. ASSUME NEW i \in DOMAIN (u \o v)
          PROVE  \E j \in 1 .. n + 1 : \E p : Within(ss[j], u \o v, p) /\ i - p \in DOMAIN ss[j]
      <4>1. CASE i \in DOMAIN u
        <5>1. PICK j \in 1 .. n : \E p : Within(ss[j], u, p) /\ i - p \in DOMAIN ss[j]
          BY <4>1, <3>u
        <5>2. PICK p : Within(ss[j], u, p) /\ i - p \in DOMAIN ss[j]
          BY <5>1
        <5> QED
          BY <5>1, <5>2, <3>3, <3>5, WithinConcat, Zenon
      <4>2. CASE i - Len(u) \in DOMAIN v
        <5>1. Within(ss[n + 1], u \o v, Len(u)) /\ i - Len(u) \in DOMAIN ss[n + 1]
          BY <4>2, <3>3, WithinConcat, Zenon
        <5>2. n + 1 \in 1 .. n + 1
          BY <3>1
        <5> QED
          BY <5>1, <5>2, Zenon
      <4> QED
        BY <3>3, <4>1, <4>2, WithinConcat, Zenon
    <3>8. u \o v \in Seq(T)
      BY <3>3
    <3> QED
      BY <3>3, <3>6, <3>7, <3>8, Zenon DEF Good, n
  <2>3. m - 1 \in S
    <3>1. m - 1 \in Nat
      BY <2>m
    <3> HIDE DEF S
    <3> QED
      BY <2>1, <2>2, <3>1, NatInductionOnSet, Zenon
  <2>4. Good(m)
    <3>1. (m - 1) + 1 = m /\ m \in 1 .. m
      BY <2>m
    <3> HIDE DEF Good
    <3> QED
      BY <2>3, <3>1
  <2> QED
    BY <2>f, <2>4, <2>m, Zenon DEF m
<1> QED
  BY <1>1, <1>2

-----------------------------------------------------------------------------
(* The transactions of the scripts, and the contracts they find. *)

AddressesOf(kind) == {kind} \X Nat

OrNone(kind) == AddressesOf(kind) \cup {None}

Tokens == Resources \X Nat

Addresses == (Resources \cup Kinds) \X Nat

TokenHandlers == {"ERC20Handler", "ERC721Handler", "ERC1155Handler"}

FeeHandlers == {"BasicFeeHandler", "PercentageERC20FeeHandler"}

Plain == {"Migrations", "Pausable", "FROSTKeygen", "Retry"}

AnyFeeHandler == UNION {OrNone(kind) : kind \in FeeHandlers}

\* The tokens of a handler.
Listed(kind) ==
    CASE kind = "ERC20Handler" -> Entries(Network.erc20)
      [] kind = "ERC721Handler" -> Entries(Network.erc721)
      [] kind = "ERC1155Handler" -> Entries(Network.erc1155)

Handles(kind) == {token.resourceID : token \in Listed(kind)}

\* Those that it mints and burns.
Burns(kind) == {token.resourceID :
    token \in {token \in Listed(kind) : kind = "ERC20Handler" => token.strategy = "mb"}}

FeeAmounts == {0} \cup {fee.feeAmount : fee \in Entries(Network.fee)}

Admins(kind) == {Deployer, AdminOf(kind)}

HandlerAddresses == (TokenHandlers \cup {"GmpHandler"}) \X Nat

Mappings == UNION {[D -> BOOLEAN] : D \in SUBSET (Addresses \cup {None})}

\* The storage of a contract.
BridgeStorage ==
    [access : AddressesOf("AccessControlSegregator"),
     feeHandler : OrNone("FeeHandlerRouter"),
     mpc : {None, Network.MPCAddress},
     handlerOf : [Resources -> HandlerAddresses \cup {None}]]

HandlerStorage ==
    [bridge : OrNone("Bridge"), tokenOf : [Resources -> Addresses \cup {None}],
     burnable : Mappings]

RouterStorage ==
    [bridge : AddressesOf("Bridge"), admins : SUBSET Admins("FeeHandlerRouter"),
     handlerOf : [Routes -> AnyFeeHandler]]

FeeHandlerStorage(kind) == [admins : SUBSET Admins(kind), fee : [Routes -> FeeAmounts]]

ReceiverStorage ==
    [admins : SUBSET Admins("DefaultMessageReceiver"), handlers : SUBSET HandlerAddresses]

HasType(a, x) ==
    /\ a[1] = "Bridge" => x \in BridgeStorage
    /\ a[1] \in TokenHandlers \cup {"GmpHandler"} => x \in HandlerStorage
    /\ a[1] \in TokenHandlers => \A r \in Resources : x.tokenOf[r] \in OrNone(r)
    /\ a[1] = "FeeHandlerRouter" => x \in RouterStorage
    /\ a[1] \in FeeHandlers => x \in FeeHandlerStorage(a[1])
    /\ a[1] = "DefaultMessageReceiver" => x \in ReceiverStorage
    /\ a[1] = "AccessControlSegregator" =>
        /\ x = [f \in DOMAIN x |-> x[f]]
        /\ \A f \in DOMAIN x : x[f] \in {Deployer} \cup FunctionHeirs(f)
    /\ a[1] \in Resources => DOMAIN x = {"admins", "minters"}

ChainTyped(c) ==
    /\ IsFiniteSet(DOMAIN c)
    /\ c = [a \in DOMAIN c |-> c[a]]
    /\ DOMAIN c \subseteq Addresses
    /\ \A a \in DOMAIN c : HasType(a, c[a])

Deployments ==
    {Deploy(a, <<>>) : a \in Plain \X Nat}
    \cup {Deploy(a, NewAccess(GenerateAccessControlFuncSignatures)) :
              a \in AddressesOf("AccessControlSegregator")}
    \cup {Deploy(a, NewBridge(access)) :
              a \in AddressesOf("Bridge"), access \in AddressesOf("AccessControlSegregator")}
    \cup {Deploy(a, NewHandler(b)) : a \in HandlerAddresses, b \in OrNone("Bridge")}
    \cup {Deploy(a, NewToken) : a \in Tokens}
    \cup {Deploy(a, NewReceiver) : a \in AddressesOf("DefaultMessageReceiver")}
    \cup {Deploy(a, NewRouter(b)) :
              a \in AddressesOf("FeeHandlerRouter"), b \in AddressesOf("Bridge")}
    \cup {Deploy(a, NewFeeHandler) : a \in FeeHandlers \X Nat}

ResourceSettings ==
    {t \in [tx : {"adminSetResource"}, to : OrNone("Bridge"), handler : HandlerAddresses,
            resource : Resources, contract : Addresses \cup {None}] :
        /\ t.handler[1] = "GmpHandler" => t.resource = Network.gmp
        /\ t.handler[1] \in TokenHandlers =>
            t.resource \in Handles(t.handler[1]) /\ t.contract \in OrNone(t.resource)}

BurnableSettings ==
    {t \in [tx : {"adminSetBurnable"}, to : OrNone("Bridge"), handler : TokenHandlers \X Nat,
            token : Tokens \cup {None}] :
        t.token # None => t.token[1] \in Burns(t.handler[1])}

FeeHandlerChanges ==
    [tx : {"adminChangeFeeHandler"}, to : AddressesOf("Bridge"),
     feeHandler : AddressesOf("FeeHandlerRouter")]

KeygenEnds == [tx : {"endKeygen"}, to : AddressesOf("Bridge"), mpc : {Network.MPCAddress}]

MinterGrants ==
    [tx : {"grantMinter"}, to : Tokens \cup {None}, handler : TokenHandlers \X Nat]

Mints ==
    [tx : {"mint"}, to : Tokens \cup {None}, account : {Deployer} \cup HandlerAddresses]

SygmaHandlerGrants ==
    [tx : {"grantSygmaHandler"}, to : OrNone("DefaultMessageReceiver"),
     handler : AddressesOf("ERC20Handler")]

RouteSettings ==
    [tx : {"adminSetResourceHandler"}, to : OrNone("FeeHandlerRouter"), route : Routes,
     feeHandler : AnyFeeHandler]

FeeChanges == [tx : {"changeFee"}, to : AnyFeeHandler, route : Routes, fee : FeeAmounts]

AdminRenunciations ==
    {t \in [tx : {"renounceAdmin"}, to : AnyFeeHandler, account : {Network.access.feeHandlerAdmin}] :
        t.to # None => t.account = AdminOf(t.to[1])}

HandedOverByRole == {"FeeHandlerRouter", "DefaultMessageReceiver"}

AdminGrants ==
    {t \in [tx : {"grantAdmin"}, to : UNION {OrNone(kind) : kind \in HandedOverByRole},
            account : {Network.access.feeRouterAdmin,
                       Network.access.defaultMessageReceiverAdmin}] :
        t.to # None => t.account = AdminOf(t.to[1])}

RoleRenunciations ==
    {t \in [tx : {"renounceRole"}, to : UNION {OrNone(kind) : kind \in HandedOverByRole}] :
        t.to # None => AdminOf(t.to[1]) # Deployer}

AccessGrants ==
    {GrantAccess(a, e.function, e.account) :
        a \in OrNone("AccessControlSegregator"), e \in Entries(Network.access.accessControl)}

Settings == ResourceSettings \cup BurnableSettings \cup FeeHandlerChanges \cup KeygenEnds
    \cup MinterGrants \cup Mints \cup SygmaHandlerGrants \cup RouteSettings \cup FeeChanges

Handovers == AdminRenunciations \cup AdminGrants \cup RoleRenunciations \cup AccessGrants

Calls == Settings \cup Handovers

Transactions == {Throw} \cup Deployments \cup Calls

\* What the loops over the configuration's lists send.
LoopSteps == {Throw} \cup {Deploy(a, NewToken) : a \in Tokens} \cup Settings

-----------------------------------------------------------------------------
(* What a transaction does to the types. *)

LEMMA NoneIsNoAddress ==
    /\ None \notin Addresses
    /\ \A k, l \in Resources \cup Kinds : \A a \in AddressesOf(k) : a \in Addresses /\ a[1] = k
BY NetworkAssumption DEF Addresses, AddressesOf

LEMMA KindsDiffer ==
    /\ \A a \in Tokens : a[1] \in Resources /\ a[1] \notin Kinds /\ a \in Addresses
    /\ \A kind \in Kinds : \A a \in AddressesOf(kind) : a[1] = kind /\ a \in Addresses
    /\ TokenHandlers \cup {"GmpHandler"} \subseteq Kinds /\ FeeHandlers \subseteq Kinds
    /\ Plain \subseteq Kinds
    /\ HandlerAddresses \subseteq Addresses
    /\ \A a \in HandlerAddresses : a[1] \in TokenHandlers \cup {"GmpHandler"}
    /\ \A a \in Plain \X Nat : a[1] \in Plain /\ a \in Addresses
    /\ \A a \in FeeHandlers \X Nat : a[1] \in FeeHandlers /\ a \in Addresses
    /\ \A kind \in Kinds : kind \notin Resources
BY NetworkAssumption DEF Tokens, AddressesOf, Addresses, Kinds, TokenHandlers, FeeHandlers, Plain,
    HandlerAddresses

LEMMA EmptyMapping == <<>> \in Mappings
<1>1. <<>> \in [{} -> BOOLEAN]
  OBVIOUS
<1> QED
  BY <1>1 DEF Mappings

LEMMA DeployedTyped ==
    ASSUME NEW t \in Deployments
    PROVE  t.tx = "deploy" /\ t.to \in Addresses /\ HasType(t.to, t.contract)
<1> USE KindsDiffer
<1>1. CASE t \in {Deploy(a, <<>>) : a \in Plain \X Nat}
  BY <1>1 DEF Deploy, HasType, Plain, TokenHandlers, FeeHandlers
<1>2. CASE t \in {Deploy(a, NewAccess(GenerateAccessControlFuncSignatures)) :
              a \in AddressesOf("AccessControlSegregator")}
  BY <1>2 DEF Deploy, HasType, Kinds, TokenHandlers, FeeHandlers, NewAccess
<1>3. CASE t \in {Deploy(a, NewBridge(access)) :
              a \in AddressesOf("Bridge"), access \in AddressesOf("AccessControlSegregator")}
  BY <1>3 DEF Deploy, HasType, Kinds, TokenHandlers, FeeHandlers, NewBridge, BridgeStorage, OrNone
<1>4. CASE t \in {Deploy(a, NewHandler(b)) : a \in HandlerAddresses, b \in OrNone("Bridge")}
  BY <1>4, EmptyMapping
  DEF Deploy, HasType, Kinds, TokenHandlers, FeeHandlers, NewHandler, HandlerStorage, OrNone
<1>5. CASE t \in {Deploy(a, NewToken) : a \in Tokens}
  BY <1>5 DEF Deploy, HasType, Kinds, TokenHandlers, FeeHandlers, NewToken
<1>6. CASE t \in {Deploy(a, NewReceiver) : a \in AddressesOf("DefaultMessageReceiver")}
  BY <1>6 DEF Deploy, HasType, Kinds, TokenHandlers, FeeHandlers, NewReceiver, ReceiverStorage,
    Admins
<1>7. CASE t \in {Deploy(a, NewRouter(b)) :
              a \in AddressesOf("FeeHandlerRouter"), b \in AddressesOf("Bridge")}
  BY <1>7 DEF Deploy, HasType, Kinds, TokenHandlers, FeeHandlers, NewRouter, RouterStorage,
    Admins, AnyFeeHandler, OrNone
<1>8. CASE t \in {Deploy(a, NewFeeHandler) : a \in FeeHandlers \X Nat}
  BY <1>8 DEF Deploy, HasType, Kinds, TokenHandlers, FeeHandlers, NewFeeHandler,
    FeeHandlerStorage, Admins, FeeAmounts
<1> QED
  BY <1>1, <1>2, <1>3, <1>4, <1>5, <1>6, <1>7, <1>8 DEF Deployments

LEMMA DeployKeepsTypes ==
    ASSUME NEW c, ChainTyped(c), NEW t \in Deployments
    PROVE  ChainTyped(After(c, t)) /\ DOMAIN After(c, t) = DOMAIN c \cup {t.to}
<1>1. t.tx = "deploy" /\ t.to \in Addresses /\ HasType(t.to, t.contract)
  BY DeployedTyped
<1>2. After(c, t) = Deployed(c, t.to, t.contract)
  BY <1>1 DEF After
<1>3. IsFiniteSet(DOMAIN c \cup {t.to})
  BY FS_AddElement DEF ChainTyped
<1> QED
  BY <1>1, <1>2, <1>3 DEF Deployed, ChainTyped

\* Types are kept where each contract keeps its own.
LEMMA TypesKeptEach ==
    ASSUME NEW c, ChainTyped(c), NEW d, d = [a \in DOMAIN c |-> d[a]],
           \A a \in DOMAIN c : a \in Addresses /\ HasType(a, c[a]) => HasType(a, d[a])
    PROVE  ChainTyped(d) /\ DOMAIN d = DOMAIN c
<1>1. DOMAIN d = DOMAIN c
  OBVIOUS
<1>2. \A a \in DOMAIN c : a \in Addresses /\ HasType(a, c[a])
  BY DEF ChainTyped
<1> QED
  BY <1>1, <1>2, Zenon DEF ChainTyped

LEMMA BurnableMapping ==
    /\ \A m \in Mappings, x \in Addresses \cup {None} : With(m, x, FALSE) \in Mappings
    /\ \A m \in Mappings : \A x : [m EXCEPT ![x] = TRUE] \in Mappings
<1>1. ASSUME NEW m \in Mappings, NEW x \in Addresses \cup {None}
      PROVE  With(m, x, FALSE) \in Mappings
  <2>1. PICK D \in SUBSET (Addresses \cup {None}) : m \in [D -> BOOLEAN]
    BY DEF Mappings
  <2>2. With(m, x, FALSE) \in [D \cup {x} -> BOOLEAN]
    BY <2>1 DEF With
  <2>3. D \cup {x} \in SUBSET (Addresses \cup {None})
    OBVIOUS
  <2> QED
    BY <2>2, <2>3, Zenon DEF Mappings
<1>2. ASSUME NEW m \in Mappings, NEW x
      PROVE  [m EXCEPT ![x] = TRUE] \in Mappings
  <2>1. PICK D \in SUBSET (Addresses \cup {None}) : m \in [D -> BOOLEAN]
    BY DEF Mappings
  <2>2. [m EXCEPT ![x] = TRUE] \in [D -> BOOLEAN]
    BY <2>1
  <2> QED
    BY <2>2, Zenon DEF Mappings
<1> QED
  BY <1>1, <1>2

\* The kinds of the contracts are kept apart.
LEMMA OneKind ==
    ASSUME NEW a \in Addresses
    PROVE  /\ \A kind \in Kinds : a \in OrNone(kind) => a[1] = kind
           /\ a \in Tokens \cup {None} => a[1] \in Resources
           /\ a \in HandlerAddresses => a[1] \in TokenHandlers \cup {"GmpHandler"}
           /\ a \in AnyFeeHandler => a[1] \in FeeHandlers
           /\ a \in UNION {OrNone(kind) : kind \in HandedOverByRole} => a[1] \in HandedOverByRole
           /\ a[1] \in Resources => a[1] \notin Kinds
BY NoneIsNoAddress, KindsDiffer
DEF OrNone, AnyFeeHandler, HandedOverByRole, AddressesOf, FeeHandlers

LEMMA SetResourceTyped ==
    ASSUME NEW c, ChainTyped(c), NEW t \in ResourceSettings
    PROVE  ChainTyped(After(c, t)) /\ DOMAIN After(c, t) = DOMAIN c
<1> DEFINE d == After(c, t)
<1>1. c = [a \in DOMAIN c |-> c[a]]
  BY DEF ChainTyped
<1>2. d = [c EXCEPT ![t.to].handlerOf[t.resource] = t.handler,
                    ![t.handler].tokenOf[t.resource] = t.contract,
                    ![t.handler].burnable = With(@, t.contract, FALSE)]
  <2>1. t.tx = "adminSetResource"
    BY DEF ResourceSettings
  <2> QED
    BY <2>1 DEF After
<1>3. d = [a \in DOMAIN c |-> d[a]]
  BY <1>1, <1>2
<1>4. ASSUME NEW a \in DOMAIN c, a \in Addresses, HasType(a, c[a])
      PROVE  HasType(a, d[a])
  <2>1. CASE a = t.to
    <3>1. a[1] = "Bridge" /\ a # t.handler
      BY <2>1, <1>4, OneKind, KindsDiffer DEF ResourceSettings, Kinds, TokenHandlers
    <3>2. d[a] = [c[a] EXCEPT !.handlerOf[t.resource] = t.handler]
      BY <1>1, <1>2, <2>1, <3>1
    <3> QED
      BY <3>1, <3>2, <1>4 DEF HasType, BridgeStorage, ResourceSettings, TokenHandlers, FeeHandlers, Kinds
  <2>2. CASE a = t.handler
    <3>1. a[1] \in TokenHandlers \cup {"GmpHandler"} /\ a # t.to
      BY <2>2, <1>4, OneKind, KindsDiffer DEF ResourceSettings, Kinds, TokenHandlers
    <3>2. d[a] = [c[a] EXCEPT !.tokenOf[t.resource] = t.contract,
                              !.burnable = With(@, t.contract, FALSE)]
      BY <1>1, <1>2, <2>2, <3>1
    <3>3. c[a] \in HandlerStorage
      BY <3>1, <1>4 DEF HasType
    <3>4. /\ t.contract \in Addresses \cup {None} /\ t.resource \in Resources
          /\ a[1] \in TokenHandlers => t.contract \in OrNone(t.resource)
      BY <2>2 DEF ResourceSettings
    <3>5. With(c[a].burnable, t.contract, FALSE) \in Mappings
      BY <3>3, <3>4, BurnableMapping DEF HandlerStorage
    <3>6. d[a] \in HandlerStorage
      BY <3>2, <3>3, <3>4, <3>5 DEF HandlerStorage
    <3>7. a[1] \in TokenHandlers => \A r \in Resources : d[a].tokenOf[r] \in OrNone(r)
      BY <3>2, <3>3, <3>4, <1>4 DEF HandlerStorage, HasType
    <3> QED
      BY <3>1, <3>6, <3>7, KindsDiffer DEF HasType, TokenHandlers, FeeHandlers
  <2>3. CASE a # t.to /\ a # t.handler
    BY <1>1, <1>2, <2>3, <1>4
  <2> QED
    BY <2>1, <2>2, <2>3
<1> QED
  BY <1>3, <1>4, TypesKeptEach, Zenon

LEMMA SetBurnableTyped ==
    ASSUME NEW c, ChainTyped(c), NEW t \in BurnableSettings
    PROVE  ChainTyped(After(c, t)) /\ DOMAIN After(c, t) = DOMAIN c
<1> DEFINE d == After(c, t)
<1>1. c = [a \in DOMAIN c |-> c[a]]
  BY DEF ChainTyped
<1>2. d = [c EXCEPT ![t.handler].burnable[t.token] = TRUE]
  <2>1. t.tx = "adminSetBurnable"
    BY DEF BurnableSettings
  <2> QED
    BY <2>1 DEF After
<1>3. d = [a \in DOMAIN c |-> d[a]]
  BY <1>1, <1>2
<1>4. ASSUME NEW a \in DOMAIN c, a \in Addresses, HasType(a, c[a])
      PROVE  HasType(a, d[a])
  <2>1. CASE a = t.handler
    <3>1. a[1] \in TokenHandlers
      BY <2>1, <1>4, OneKind, KindsDiffer DEF BurnableSettings, TokenHandlers, HandlerAddresses
    <3>2. d[a] = [c[a] EXCEPT !.burnable[t.token] = TRUE]
      BY <1>1, <1>2, <2>1
    <3>3. c[a] \in HandlerStorage
      BY <3>1, <1>4 DEF HasType
    <3>4. [c[a].burnable EXCEPT ![t.token] = TRUE] \in Mappings
      BY <3>3, BurnableMapping DEF HandlerStorage
    <3>5. d[a] \in HandlerStorage /\ d[a].tokenOf = c[a].tokenOf
      BY <3>2, <3>3, <3>4 DEF HandlerStorage
    <3> QED
      BY <3>1, <3>5, <1>4, KindsDiffer DEF HasType, TokenHandlers, FeeHandlers
  <2>2. CASE a # t.handler
    BY <1>1, <1>2, <2>2, <1>4
  <2> QED
    BY <2>1, <2>2
<1> QED
  BY <1>3, <1>4, TypesKeptEach, Zenon

LEMMA ChangeFeeHandlerTyped ==
    ASSUME NEW c, ChainTyped(c), NEW t \in FeeHandlerChanges
    PROVE  ChainTyped(After(c, t)) /\ DOMAIN After(c, t) = DOMAIN c
<1> DEFINE d == After(c, t)
<1>1. c = [a \in DOMAIN c |-> c[a]]
  BY DEF ChainTyped
<1>2. d = [c EXCEPT ![t.to].feeHandler = t.feeHandler]
  <2>1. t.tx = "adminChangeFeeHandler"
    BY DEF FeeHandlerChanges
  <2> QED
    BY <2>1 DEF After
<1>3. d = [a \in DOMAIN c |-> d[a]]
  BY <1>1, <1>2
<1>4. ASSUME NEW a \in DOMAIN c, a \in Addresses, HasType(a, c[a])
      PROVE  HasType(a, d[a])
  <2>1. CASE a = t.to
    <3>1. a[1] = "Bridge"
      BY <2>1, <1>4, OneKind, KindsDiffer DEF FeeHandlerChanges, Kinds
    <3>2. d[a] = [c[a] EXCEPT !.feeHandler = t.feeHandler]
      BY <1>1, <1>2, <2>1
    <3> QED
      BY <2>1, <3>1, <3>2, <1>4, KindsDiffer
      DEF HasType, FeeHandlerChanges, TokenHandlers, FeeHandlers, Kinds, BridgeStorage, OrNone
  <2>2. CASE a # t.to
    BY <1>1, <1>2, <2>2, <1>4
  <2> QED
    BY <2>1, <2>2
<1> QED
  BY <1>3, <1>4, TypesKeptEach, Zenon

LEMMA EndKeygenTyped ==
    ASSUME NEW c, ChainTyped(c), NEW t \in KeygenEnds
    PROVE  ChainTyped(After(c, t)) /\ DOMAIN After(c, t) = DOMAIN c
<1> DEFINE d == After(c, t)
<1>1. c = [a \in DOMAIN c |-> c[a]]
  BY DEF ChainTyped
<1>2. d = [c EXCEPT ![t.to].mpc = t.mpc]
  <2>1. t.tx = "endKeygen"
    BY DEF KeygenEnds
  <2> QED
    BY <2>1 DEF After
<1>3. d = [a \in DOMAIN c |-> d[a]]
  BY <1>1, <1>2
<1>4. ASSUME NEW a \in DOMAIN c, a \in Addresses, HasType(a, c[a])
      PROVE  HasType(a, d[a])
  <2>1. CASE a = t.to
    <3>1. a[1] = "Bridge"
      BY <2>1, <1>4, OneKind, KindsDiffer DEF KeygenEnds, Kinds
    <3>2. d[a] = [c[a] EXCEPT !.mpc = t.mpc]
      BY <1>1, <1>2, <2>1
    <3> QED
      BY <2>1, <3>1, <3>2, <1>4, KindsDiffer
      DEF HasType, KeygenEnds, TokenHandlers, FeeHandlers, Kinds, BridgeStorage
  <2>2. CASE a # t.to
    BY <1>1, <1>2, <2>2, <1>4
  <2> QED
    BY <2>1, <2>2
<1> QED
  BY <1>3, <1>4, TypesKeptEach, Zenon

LEMMA GrantMinterTyped ==
    ASSUME NEW c, ChainTyped(c), NEW t \in MinterGrants
    PROVE  ChainTyped(After(c, t)) /\ DOMAIN After(c, t) = DOMAIN c
<1> DEFINE d == After(c, t)
<1>1. c = [a \in DOMAIN c |-> c[a]]
  BY DEF ChainTyped
<1>2. d = [c EXCEPT ![t.to].minters = @ \cup {t.handler}]
  <2>1. t.tx = "grantMinter"
    BY DEF MinterGrants
  <2> QED
    BY <2>1 DEF After
<1>3. d = [a \in DOMAIN c |-> d[a]]
  BY <1>1, <1>2
<1>4. ASSUME NEW a \in DOMAIN c, a \in Addresses, HasType(a, c[a])
      PROVE  HasType(a, d[a])
  <2>1. CASE a = t.to
    <3>1. a[1] \in Resources
      BY <2>1, <1>4, OneKind, KindsDiffer DEF MinterGrants, Kinds
    <3>2. d[a] = [c[a] EXCEPT !.minters = @ \cup {t.handler}]
      BY <1>1, <1>2, <2>1
    <3> QED
      BY <2>1, <3>1, <3>2, <1>4, KindsDiffer
      DEF HasType, MinterGrants, TokenHandlers, FeeHandlers, Kinds
  <2>2. CASE a # t.to
    BY <1>1, <1>2, <2>2, <1>4
  <2> QED
    BY <2>1, <2>2
<1> QED
  BY <1>3, <1>4, TypesKeptEach, Zenon

LEMMA GrantSygmaHandlerTyped ==
    ASSUME NEW c, ChainTyped(c), NEW t \in SygmaHandlerGrants
    PROVE  ChainTyped(After(c, t)) /\ DOMAIN After(c, t) = DOMAIN c
<1> DEFINE d == After(c, t)
<1>1. c = [a \in DOMAIN c |-> c[a]]
  BY DEF ChainTyped
<1>2. d = [c EXCEPT ![t.to].handlers = @ \cup {t.handler}]
  <2>1. t.tx = "grantSygmaHandler"
    BY DEF SygmaHandlerGrants
  <2> QED
    BY <2>1 DEF After
<1>3. d = [a \in DOMAIN c |-> d[a]]
  BY <1>1, <1>2
<1>4. ASSUME NEW a \in DOMAIN c, a \in Addresses, HasType(a, c[a])
      PROVE  HasType(a, d[a])
  <2>1. CASE a = t.to
    <3>1. a[1] = "DefaultMessageReceiver"
      BY <2>1, <1>4, OneKind, KindsDiffer DEF SygmaHandlerGrants, Kinds
    <3>2. d[a] = [c[a] EXCEPT !.handlers = @ \cup {t.handler}]
      BY <1>1, <1>2, <2>1
    <3>3. c[a] \in ReceiverStorage /\ t.handler \in HandlerAddresses
      BY <3>1, <1>4 DEF HasType, SygmaHandlerGrants, AddressesOf, HandlerAddresses, TokenHandlers
    <3>4. d[a] \in ReceiverStorage
      BY <3>2, <3>3 DEF ReceiverStorage
    <3> QED
      BY <3>1, <3>4, KindsDiffer DEF HasType, TokenHandlers, FeeHandlers, Kinds
  <2>2. CASE a # t.to
    BY <1>1, <1>2, <2>2, <1>4
  <2> QED
    BY <2>1, <2>2
<1> QED
  BY <1>3, <1>4, TypesKeptEach, Zenon

LEMMA SetRouteTyped ==
    ASSUME NEW c, ChainTyped(c), NEW t \in RouteSettings
    PROVE  ChainTyped(After(c, t)) /\ DOMAIN After(c, t) = DOMAIN c
<1> DEFINE d == After(c, t)
<1>1. c = [a \in DOMAIN c |-> c[a]]
  BY DEF ChainTyped
<1>2. d = [c EXCEPT ![t.to].handlerOf[t.route] = t.feeHandler]
  <2>1. t.tx = "adminSetResourceHandler"
    BY DEF RouteSettings
  <2> QED
    BY <2>1 DEF After
<1>3. d = [a \in DOMAIN c |-> d[a]]
  BY <1>1, <1>2
<1>4. ASSUME NEW a \in DOMAIN c, a \in Addresses, HasType(a, c[a])
      PROVE  HasType(a, d[a])
  <2>1. CASE a = t.to
    <3>1. a[1] = "FeeHandlerRouter"
      BY <2>1, <1>4, OneKind, KindsDiffer DEF RouteSettings, Kinds
    <3>2. d[a] = [c[a] EXCEPT !.handlerOf[t.route] = t.feeHandler]
      BY <1>1, <1>2, <2>1
    <3> QED
      BY <2>1, <3>1, <3>2, <1>4, KindsDiffer
      DEF HasType, RouteSettings, TokenHandlers, FeeHandlers, Kinds, RouterStorage
  <2>2. CASE a # t.to
    BY <1>1, <1>2, <2>2, <1>4
  <2> QED
    BY <2>1, <2>2
<1> QED
  BY <1>3, <1>4, TypesKeptEach, Zenon

LEMMA ChangeFeeTyped ==
    ASSUME NEW c, ChainTyped(c), NEW t \in FeeChanges
    PROVE  ChainTyped(After(c, t)) /\ DOMAIN After(c, t) = DOMAIN c
<1> DEFINE d == After(c, t)
<1>1. c = [a \in DOMAIN c |-> c[a]]
  BY DEF ChainTyped
<1>2. d = [c EXCEPT ![t.to].fee[t.route] = t.fee]
  <2>1. t.tx = "changeFee"
    BY DEF FeeChanges
  <2> QED
    BY <2>1 DEF After
<1>3. d = [a \in DOMAIN c |-> d[a]]
  BY <1>1, <1>2
<1>4. ASSUME NEW a \in DOMAIN c, a \in Addresses, HasType(a, c[a])
      PROVE  HasType(a, d[a])
  <2>1. CASE a = t.to
    <3>1. a[1] \in FeeHandlers
      BY <2>1, <1>4, OneKind, KindsDiffer DEF FeeChanges, Kinds
    <3>2. d[a] = [c[a] EXCEPT !.fee[t.route] = t.fee]
      BY <1>1, <1>2, <2>1
    <3> QED
      BY <2>1, <3>1, <3>2, <1>4, KindsDiffer
      DEF HasType, FeeChanges, TokenHandlers, FeeHandlers, Kinds, FeeHandlerStorage
  <2>2. CASE a # t.to
    BY <1>1, <1>2, <2>2, <1>4
  <2> QED
    BY <2>1, <2>2
<1> QED
  BY <1>3, <1>4, TypesKeptEach, Zenon

LEMMA RenounceAdminTyped ==
    ASSUME NEW c, ChainTyped(c), NEW t \in AdminRenunciations
    PROVE  ChainTyped(After(c, t)) /\ DOMAIN After(c, t) = DOMAIN c
<1> DEFINE d == After(c, t)
<1>1. c = [a \in DOMAIN c |-> c[a]]
  BY DEF ChainTyped
<1>2. d = [c EXCEPT ![t.to].admins = (@ \cup {t.account}) \ {Deployer}]
  <2>1. t.tx = "renounceAdmin"
    BY DEF AdminRenunciations
  <2> QED
    BY <2>1 DEF After
<1>3. d = [a \in DOMAIN c |-> d[a]]
  BY <1>1, <1>2
<1>4. ASSUME NEW a \in DOMAIN c, a \in Addresses, HasType(a, c[a])
      PROVE  HasType(a, d[a])
  <2>1. CASE a = t.to
    <3>1. a[1] \in FeeHandlers
      BY <2>1, <1>4, OneKind, KindsDiffer DEF AdminRenunciations, Kinds
    <3>2. d[a] = [c[a] EXCEPT !.admins = (@ \cup {t.account}) \ {Deployer}]
      BY <1>1, <1>2, <2>1
    <3>3. c[a] \in FeeHandlerStorage(a[1]) /\ t.account \in Admins(a[1])
      BY <2>1, <3>1, <1>4, NoneIsNoAddress DEF HasType, AdminRenunciations, Admins
    <3>4. d[a] \in FeeHandlerStorage(a[1])
      BY <3>2, <3>3 DEF FeeHandlerStorage
    <3> QED
      BY <3>1, <3>4, KindsDiffer DEF HasType, TokenHandlers, FeeHandlers
  <2>2. CASE a # t.to
    BY <1>1, <1>2, <2>2, <1>4
  <2> QED
    BY <2>1, <2>2
<1> QED
  BY <1>3, <1>4, TypesKeptEach, Zenon

LEMMA GrantAdminTyped ==
    ASSUME NEW c, ChainTyped(c), NEW t \in AdminGrants
    PROVE  ChainTyped(After(c, t)) /\ DOMAIN After(c, t) = DOMAIN c
<1> DEFINE d == After(c, t)
<1>1. c = [a \in DOMAIN c |-> c[a]]
  BY DEF ChainTyped
<1>2. d = [c EXCEPT ![t.to].admins = @ \cup {t.account}]
  <2>1. t.tx = "grantAdmin"
    BY DEF AdminGrants
  <2> QED
    BY <2>1 DEF After
<1>3. d = [a \in DOMAIN c |-> d[a]]
  BY <1>1, <1>2
<1>4. ASSUME NEW a \in DOMAIN c, a \in Addresses, HasType(a, c[a])
      PROVE  HasType(a, d[a])
  <2>1. CASE a = t.to
    <3>1. a[1] \in HandedOverByRole
      BY <2>1, <1>4, OneKind, KindsDiffer DEF AdminGrants, Kinds
    <3>2. d[a] = [c[a] EXCEPT !.admins = @ \cup {t.account}]
      BY <1>1, <1>2, <2>1
    <3>3. t.account \in Admins(a[1])
      BY <2>1, <1>4, NoneIsNoAddress DEF AdminGrants, Admins
    <3>4. CASE a[1] = "FeeHandlerRouter"
      <4>1. c[a] \in RouterStorage
        BY <3>4, <1>4 DEF HasType
      <4>2. d[a] \in RouterStorage
        BY <3>2, <3>3, <3>4, <4>1 DEF RouterStorage
      <4> QED
        BY <3>4, <4>2, KindsDiffer DEF HasType, TokenHandlers, FeeHandlers, Kinds
    <3>5. CASE a[1] = "DefaultMessageReceiver"
      <4>1. c[a] \in ReceiverStorage
        BY <3>5, <1>4 DEF HasType
      <4>2. d[a] \in ReceiverStorage
        BY <3>2, <3>3, <3>5, <4>1 DEF ReceiverStorage
      <4> QED
        BY <3>5, <4>2, KindsDiffer DEF HasType, TokenHandlers, FeeHandlers, Kinds
    <3> QED
      BY <3>1, <3>4, <3>5 DEF HandedOverByRole
  <2>2. CASE a # t.to
    BY <1>1, <1>2, <2>2, <1>4
  <2> QED
    BY <2>1, <2>2
<1> QED
  BY <1>3, <1>4, TypesKeptEach, Zenon

LEMMA RenounceRoleTyped ==
    ASSUME NEW c, ChainTyped(c), NEW t \in RoleRenunciations
    PROVE  ChainTyped(After(c, t)) /\ DOMAIN After(c, t) = DOMAIN c
<1> DEFINE d == After(c, t)
<1>1. c = [a \in DOMAIN c |-> c[a]]
  BY DEF ChainTyped
<1>2. d = [c EXCEPT ![t.to].admins = @ \ {Deployer}]
  <2>1. t.tx = "renounceRole"
    BY DEF RoleRenunciations
  <2> QED
    BY <2>1 DEF After
<1>3. d = [a \in DOMAIN c |-> d[a]]
  BY <1>1, <1>2
<1>4. ASSUME NEW a \in DOMAIN c, a \in Addresses, HasType(a, c[a])
      PROVE  HasType(a, d[a])
  <2>1. CASE a = t.to
    <3>1. a[1] \in HandedOverByRole
      BY <2>1, <1>4, OneKind, KindsDiffer DEF RoleRenunciations, Kinds
    <3>2. d[a] = [c[a] EXCEPT !.admins = @ \ {Deployer}]
      BY <1>1, <1>2, <2>1
    <3> QED
      BY <2>1, <3>1, <3>2, <1>4, KindsDiffer
      DEF HasType, RoleRenunciations, TokenHandlers, FeeHandlers, Kinds, RouterStorage,
        ReceiverStorage, HandedOverByRole
  <2>2. CASE a # t.to
    BY <1>1, <1>2, <2>2, <1>4
  <2> QED
    BY <2>1, <2>2
<1> QED
  BY <1>3, <1>4, TypesKeptEach, Zenon

LEMMA GrantAccessTyped ==
    ASSUME NEW c, ChainTyped(c), NEW t \in AccessGrants
    PROVE  ChainTyped(After(c, t)) /\ DOMAIN After(c, t) = DOMAIN c
<1> DEFINE d == After(c, t)
<1>1. c = [a \in DOMAIN c |-> c[a]]
  BY DEF ChainTyped
<1>2. d = [c EXCEPT ![t.to] = With(@, t.function, t.account)]
  <2>1. t.tx = "grantAccess"
    BY DEF AccessGrants, GrantAccess
  <2> QED
    BY <2>1 DEF After
<1>3. d = [a \in DOMAIN c |-> d[a]]
  BY <1>1, <1>2
<1>4. ASSUME NEW a \in DOMAIN c, a \in Addresses, HasType(a, c[a])
      PROVE  HasType(a, d[a])
  <2>1. CASE a = t.to
    <3>1. a[1] = "AccessControlSegregator"
      BY <2>1, <1>4, OneKind, KindsDiffer DEF AccessGrants, Kinds, GrantAccess
    <3>2. d[a] = With(c[a], t.function, t.account)
      BY <1>1, <1>2, <2>1
    <3>3. t.account \in FunctionHeirs(t.function)
      BY DEF AccessGrants, GrantAccess, FunctionHeirs
    <3>4. d[a] = [f \in DOMAIN d[a] |-> d[a][f]]
      BY <3>2 DEF With
    <3>5. \A f \in DOMAIN d[a] : d[a][f] \in {Deployer} \cup FunctionHeirs(f)
      BY <3>1, <3>2, <3>3, <1>4 DEF With, HasType
    <3> QED
      BY <3>1, <3>4, <3>5, KindsDiffer DEF HasType, TokenHandlers, FeeHandlers, Kinds
  <2>2. CASE a # t.to
    BY <1>1, <1>2, <2>2, <1>4
  <2> QED
    BY <2>1, <2>2
<1> QED
  BY <1>3, <1>4, TypesKeptEach, Zenon

LEMMA TransactionTyped ==
    ASSUME NEW c, ChainTyped(c), NEW t \in Transactions, t # Throw
    PROVE  /\ ChainTyped(After(c, t))
           /\ DOMAIN After(c, t) = IF t.tx = "deploy" THEN DOMAIN c \cup {t.to} ELSE DOMAIN c
<1>1. CASE t \in Deployments
  BY <1>1, DeployKeepsTypes, DeployedTyped
<1>2. CASE t \in Mints
  <2>1. t.tx = "mint"
    BY <1>2 DEF Mints
  <2>2. After(c, t) = c
    BY <2>1 DEF After
  <2> QED
    BY <2>1, <2>2
<1>3. CASE t \in Calls \ Mints
  <2>1. t.tx # "deploy"
    BY <1>3 DEF Calls, Settings, Handovers, ResourceSettings, BurnableSettings, FeeHandlerChanges, KeygenEnds,
      MinterGrants, SygmaHandlerGrants, RouteSettings, FeeChanges, AdminRenunciations, AdminGrants,
      RoleRenunciations, AccessGrants, GrantAccess
  <2>2. ChainTyped(After(c, t)) /\ DOMAIN After(c, t) = DOMAIN c
    <3>1. CASE t \in ResourceSettings
      BY <3>1, SetResourceTyped, Zenon
    <3>2. CASE t \in BurnableSettings
      BY <3>2, SetBurnableTyped, Zenon
    <3>3. CASE t \in FeeHandlerChanges
      BY <3>3, ChangeFeeHandlerTyped, Zenon
    <3>4. CASE t \in KeygenEnds
      BY <3>4, EndKeygenTyped, Zenon
    <3>5. CASE t \in MinterGrants
      BY <3>5, GrantMinterTyped, Zenon
    <3>6. CASE t \in SygmaHandlerGrants
      BY <3>6, GrantSygmaHandlerTyped, Zenon
    <3>7. CASE t \in RouteSettings
      BY <3>7, SetRouteTyped, Zenon
    <3>8. CASE t \in FeeChanges
      BY <3>8, ChangeFeeTyped, Zenon
    <3>9. CASE t \in AdminRenunciations
      BY <3>9, RenounceAdminTyped, Zenon
    <3>10. CASE t \in AdminGrants
      BY <3>10, GrantAdminTyped, Zenon
    <3>11. CASE t \in RoleRenunciations
      BY <3>11, RenounceRoleTyped, Zenon
    <3>12. CASE t \in AccessGrants
      BY <3>12, GrantAccessTyped, Zenon
    <3> QED
      BY <1>3, <3>1, <3>2, <3>3, <3>4, <3>5, <3>6,
        <3>7, <3>8, <3>9, <3>10, <3>11, <3>12 DEF Calls, Settings, Handovers
  <2> QED
    BY <2>1, <2>2
<1> QED
  BY <1>1, <1>2, <1>3 DEF Transactions

-----------------------------------------------------------------------------
(* The scripts. *)

\* The contracts that migration 2 deploys and others read.
Core == {"AccessControlSegregator", "Bridge", "DefaultMessageReceiver", "ERC20Handler",
    "ERC721Handler", "FeeHandlerRouter", "BasicFeeHandler", "PercentageERC20FeeHandler"}

\* The artifacts name contracts there are.
Saved(c, d) ==
    /\ d = [kind \in Kinds |-> d[kind]]
    /\ \A kind \in Kinds : d[kind] # None => d[kind] \in AddressesOf(kind) /\ d[kind] \in DOMAIN c
    /\ d["XC20Handler"] = None

CoreSaved(d) == \A kind \in Core : d[kind] # None

LEMMA FreshTyped ==
    ASSUME NEW c, ChainTyped(c), NEW kind
    PROVE  NumberOf(c, kind) \in Nat /\ Fresh(c, kind) \in AddressesOf(kind)
<1>1. IsFiniteSet({a \in DOMAIN c : a[1] = kind})
  BY FS_Subset DEF ChainTyped
<1>2. NumberOf(c, kind) \in Nat
  BY <1>1, FS_CardinalityType DEF NumberOf
<1> QED
  BY <1>2 DEF Fresh, Address, AddressesOf

LEMMA TokenListTyped ==
    ASSUME NEW kind \in TokenHandlers, NEW token \in Listed(kind)
    PROVE  /\ token.resourceID \in Resources /\ token.resourceID \in Handles(kind)
           /\ \A c : ChainTyped(c) => TokenAddress(c, token) \in AddressesOf(token.resourceID)
           /\ AddressesOf(token.resourceID) \subseteq Tokens
<1>1. IsTokenList(Network.erc20) /\ IsTokenList(Network.erc721) /\ IsTokenList(Network.erc1155)
  BY NetworkAssumption
<1>2. /\ token.resourceID \in Resources
      /\ token.address # None =>
            token.address \in DOMAIN ExistingTokens /\ token.address[1] = token.resourceID
  BY <1>1 DEF Listed, IsTokenList, TokenHandlers
<1>3. token.address # None => token.address \in AddressesOf(token.resourceID)
  BY <1>2, NetworkAssumption DEF AddressesOf
<1>4. \A c : ChainTyped(c) => Fresh(c, token.resourceID) \in AddressesOf(token.resourceID)
  BY FreshTyped
<1> QED
  BY <1>2, <1>3, <1>4 DEF TokenAddress, Handles, Tokens, AddressesOf

LEMMA Minting ==
    ASSUME NEW kind \in TokenHandlers, NEW token \in Listed(kind),
           kind = "ERC20Handler" => token.strategy = "mb"
    PROVE  token.resourceID \in Burns(kind)
BY DEF Burns

LEMMA MakeBurnableTyped ==
    ASSUME NEW kind \in TokenHandlers, NEW token \in Listed(kind),
           kind = "ERC20Handler" => token.strategy = "mb",
           NEW bridge \in OrNone("Bridge"), NEW handler \in AddressesOf(kind),
           NEW address \in OrNone(token.resourceID)
    PROVE  MakeBurnable(bridge, handler, address) \in Seq(LoopSteps)
<1>1. handler \in TokenHandlers \X Nat /\ handler[1] = kind
  BY DEF AddressesOf
<1>2. address \in Tokens \cup {None} /\ (address # None => address[1] = token.resourceID)
  BY TokenListTyped DEF OrNone, AddressesOf
<1>3. GrantMinter(address, handler) \in MinterGrants
  BY <1>1, <1>2 DEF GrantMinter, MinterGrants
<1>4. AdminSetBurnable(bridge, handler, address) \in BurnableSettings
  BY <1>1, <1>2, Minting DEF AdminSetBurnable, BurnableSettings
<1> QED
  BY <1>3, <1>4 DEF MakeBurnable, LoopSteps, Settings

LEMMA SetResourceIsTransaction ==
    ASSUME NEW kind \in TokenHandlers, NEW token \in Listed(kind),
           NEW bridge \in OrNone("Bridge"), NEW handler \in AddressesOf(kind),
           NEW address \in OrNone(token.resourceID)
    PROVE  AdminSetResource(bridge, handler, token.resourceID, address) \in LoopSteps
<1>1. handler \in HandlerAddresses /\ handler[1] = kind /\ kind # "GmpHandler"
  BY DEF AddressesOf, HandlerAddresses, TokenHandlers
<1>2. address \in Addresses \cup {None}
  BY TokenListTyped, KindsDiffer DEF OrNone
<1> QED
  BY <1>1, <1>2, TokenListTyped DEF AdminSetResource, ResourceSettings, LoopSteps, Settings

LEMMA SetupTyped ==
    ASSUME NEW kind \in TokenHandlers, NEW token \in Listed(kind), NEW c, ChainTyped(c),
           NEW bridge \in OrNone("Bridge"), NEW handler \in AddressesOf(kind)
    PROVE  /\ kind = "ERC20Handler" => SetupErc20(c, token, bridge, handler) \in Seq(LoopSteps)
           /\ kind # "ERC20Handler" => SetupNft(c, token, bridge, handler) \in Seq(LoopSteps)
<1> DEFINE a == TokenAddress(c, token)
<1>1. a \in AddressesOf(token.resourceID) /\ a \in Tokens /\ a \in OrNone(token.resourceID)
  BY TokenListTyped DEF OrNone
<1> HIDE DEF a
<1>2. DeployToken(c, token) \in Seq(LoopSteps)
  <2>1. Deploy(a, NewToken) \in LoopSteps
    BY <1>1 DEF LoopSteps
  <2>2. <<Deploy(a, NewToken)>> \in Seq(LoopSteps) /\ <<>> \in Seq(LoopSteps)
    BY <2>1
  <2> QED
    BY <2>2 DEF DeployToken, a, When
<1>3. <<AdminSetResource(bridge, handler, token.resourceID, a)>> \in Seq(LoopSteps)
  BY <1>1, SetResourceIsTransaction
<1>4. (kind = "ERC20Handler" => token.strategy = "mb")
          => MakeBurnable(bridge, handler, a) \in Seq(LoopSteps)
  BY <1>1, MakeBurnableTyped
<1>5. <<Mint(a, Deployer), Mint(a, handler)>> \in Seq(LoopSteps)
  <2>1. handler \in HandlerAddresses
    BY DEF AddressesOf, HandlerAddresses
  <2>2. Mint(a, Deployer) \in Mints /\ Mint(a, handler) \in Mints
    BY <2>1, <1>1 DEF Mint, Mints
  <2> QED
    BY <2>2 DEF LoopSteps, Settings
<1>6. CASE kind = "ERC20Handler"
  <2>1. When(token.strategy = "mb", MakeBurnable(bridge, handler, a)) \in Seq(LoopSteps)
    BY <1>4, <1>6 DEF When
  <2> QED
    BY <2>1, <1>2, <1>3, <1>5, <1>6 DEF SetupErc20, a
<1>7. CASE kind # "ERC20Handler"
  BY <1>2, <1>3, <1>4, <1>7 DEF SetupNft, a
<1> QED
  BY <1>6, <1>7

LEMMA LoopStepsAreTransactions ==
    /\ LoopSteps \subseteq Transactions
    /\ Seq(LoopSteps) \subseteq Seq(Transactions)
<1>1. LoopSteps \subseteq Transactions
  BY DEF LoopSteps, Transactions, Deployments, Calls
<1> QED
  BY <1>1

LEMMA ConcatTyped ==
    ASSUME NEW list, IsList(list), list # None, NEW T, NEW f, f = [i \in DOMAIN list |-> f[i]],
           \A i \in DOMAIN list : list[i] \in Entries(list) => f[i] \in Seq(T)
    PROVE  /\ f \in Seq(Seq(T)) /\ Concat(f) \in Seq(T)
           /\ \A i \in DOMAIN list : list[i] \in Entries(list)
<1>1. list \in Seq(ToSet(list)) /\ ToSet(list) = Entries(list)
  BY DEF IsList, Entries
<1>2. PICK n \in Nat : n = Len(list) /\ DOMAIN list = 1 .. n
  BY <1>1
<1>3. \A i \in 1 .. n : list[i] \in Entries(list)
  BY <1>1, <1>2
<1>4. f \in [1 .. n -> Seq(T)]
  BY <1>2, <1>3
<1>5. f \in Seq(Seq(T))
  BY <1>4
<1>6. FlattenSeq(f) \in Seq(T)
  BY <1>5, Flattened, Zenon
<1> QED
  BY <1>2, <1>3, <1>5, <1>6 DEF Concat

LEMMA ListsAreLists ==
    /\ IsList(Network.erc20) /\ IsList(Network.erc721) /\ IsList(Network.erc1155)
    /\ IsList(Network.fee)
    /\ Network.access # None => IsList(Network.access.accessControl)
BY NetworkAssumption DEF IsTokenList

LEMMA SetupLoopsTyped ==
    ASSUME NEW c, ChainTyped(c), NEW bridge \in OrNone("Bridge"), NEW number \in Nat
    PROVE  /\ Network.erc20 # None =>
                Concat([i \in DOMAIN Network.erc20 |->
                    SetupErc20(c, Network.erc20[i], bridge, <<"ERC20Handler", number>>)])
                \in Seq(LoopSteps)
           /\ Network.erc721 # None =>
                Concat([i \in DOMAIN Network.erc721 |->
                    SetupErc721(c, Network.erc721[i], bridge, <<"ERC721Handler", number>>)])
                \in Seq(LoopSteps)
           /\ Network.erc1155 # None =>
                Concat([i \in DOMAIN Network.erc1155 |->
                    SetupErc1155(c, Network.erc1155[i], bridge, <<"ERC1155Handler", number>>)])
                \in Seq(LoopSteps)
<1> DEFINE f1 == [i \in DOMAIN Network.erc20 |->
                    SetupErc20(c, Network.erc20[i], bridge, <<"ERC20Handler", number>>)]
           f2 == [i \in DOMAIN Network.erc721 |->
                    SetupErc721(c, Network.erc721[i], bridge, <<"ERC721Handler", number>>)]
           f3 == [i \in DOMAIN Network.erc1155 |->
                    SetupErc1155(c, Network.erc1155[i], bridge, <<"ERC1155Handler", number>>)]
<1>1. \A kind \in TokenHandlers : <<kind, number>> \in AddressesOf(kind)
  BY DEF AddressesOf
<1>2. /\ {"ERC20Handler", "ERC721Handler", "ERC1155Handler"} \subseteq TokenHandlers
      /\ "ERC721Handler" # "ERC20Handler" /\ "ERC1155Handler" # "ERC20Handler"
      /\ Listed("ERC20Handler") = Entries(Network.erc20)
      /\ Listed("ERC721Handler") = Entries(Network.erc721)
      /\ Listed("ERC1155Handler") = Entries(Network.erc1155)
  BY DEF TokenHandlers, Listed
<1>3. \A i \in DOMAIN Network.erc20 : Network.erc20[i] \in Entries(Network.erc20)
          => f1[i] \in Seq(LoopSteps)
  BY <1>1, <1>2, SetupTyped
<1>4. \A i \in DOMAIN Network.erc721 : Network.erc721[i] \in Entries(Network.erc721)
          => f2[i] \in Seq(LoopSteps)
  BY <1>1, <1>2, SetupTyped DEF SetupErc721
<1>5. \A i \in DOMAIN Network.erc1155 : Network.erc1155[i] \in Entries(Network.erc1155)
          => f3[i] \in Seq(LoopSteps)
  BY <1>1, <1>2, SetupTyped DEF SetupErc1155
<1>6. /\ f1 = [i \in DOMAIN Network.erc20 |-> f1[i]]
      /\ f2 = [i \in DOMAIN Network.erc721 |-> f2[i]]
      /\ f3 = [i \in DOMAIN Network.erc1155 |-> f3[i]]
  OBVIOUS
<1> HIDE DEF f1, f2, f3
<1>7. /\ Network.erc20 # None => Concat(f1) \in Seq(LoopSteps)
      /\ Network.erc721 # None => Concat(f2) \in Seq(LoopSteps)
      /\ Network.erc1155 # None => Concat(f3) \in Seq(LoopSteps)
  BY <1>3, <1>4, <1>5, <1>6, ConcatTyped, ListsAreLists
<1> QED
  BY <1>7 DEF f1, f2, f3

LEMMA MigrateTyped ==
    ASSUME NEW token \in Entries(Network.erc20), NEW c, ChainTyped(c),
           NEW bridge \in OrNone("Bridge"),
           NEW old \in AddressesOf("ERC20Handler"), old \in DOMAIN c,
           NEW new \in AddressesOf("ERC20Handler"),
           NEW receiver \in OrNone("DefaultMessageReceiver")
    PROVE  MigrateToNewTokenHandler(c, token, bridge, old, new, receiver) \in Seq(LoopSteps)
<1> DEFINE a == c[old].tokenOf[token.resourceID]
<1>1. token \in Listed("ERC20Handler") /\ "ERC20Handler" \in TokenHandlers
  BY DEF Listed, TokenHandlers
<1>2. old[1] \in TokenHandlers
  BY <1>1 DEF AddressesOf
<1>3. a \in OrNone(token.resourceID)
  BY <1>1, <1>2, TokenListTyped DEF ChainTyped, HasType
<1> HIDE DEF a
<1>4. <<AdminSetResource(bridge, new, token.resourceID, a)>> \in Seq(LoopSteps)
  BY <1>1, <1>3, SetResourceIsTransaction
<1>5. When(token.strategy = "mb", MakeBurnable(bridge, new, a)) \in Seq(LoopSteps)
  BY <1>1, <1>3, MakeBurnableTyped DEF When
<1>6. GrantSygmaHandler(receiver, new) \in LoopSteps
  BY DEF GrantSygmaHandler, SygmaHandlerGrants, LoopSteps, Settings
<1>7. When(receiver # None, <<GrantSygmaHandler(receiver, new)>>) \in Seq(LoopSteps)
  BY <1>6 DEF When
<1> QED
  BY <1>4, <1>5, <1>7 DEF MigrateToNewTokenHandler, a

LEMMA MigrateLoopTyped ==
    ASSUME NEW c, ChainTyped(c), NEW bridge \in OrNone("Bridge"),
           NEW old \in AddressesOf("ERC20Handler"), old \in DOMAIN c,
           NEW new \in AddressesOf("ERC20Handler"),
           NEW receiver \in OrNone("DefaultMessageReceiver"), Network.erc20 # None
    PROVE  Concat([i \in DOMAIN Network.erc20 |->
                MigrateToNewTokenHandler(c, Network.erc20[i], bridge, old, new, receiver)])
           \in Seq(LoopSteps)
<1> DEFINE f == [i \in DOMAIN Network.erc20 |->
                MigrateToNewTokenHandler(c, Network.erc20[i], bridge, old, new, receiver)]
<1>1. \A i \in DOMAIN Network.erc20 : Network.erc20[i] \in Entries(Network.erc20)
          => f[i] \in Seq(LoopSteps)
  BY MigrateTyped
<1>2. f = [i \in DOMAIN Network.erc20 |-> f[i]]
  OBVIOUS
<1> HIDE DEF f
<1>3. Concat(f) \in Seq(LoopSteps)
  BY <1>1, <1>2, ConcatTyped, ListsAreLists
<1> QED
  BY <1>3 DEF f

\* What migration 6 sends for a fee of the configuration.
RegisterFee(d, fee) ==
    When(fee.type = "basic",
        <<AdminSetResourceHandler(d["FeeHandlerRouter"], fee.route, d["BasicFeeHandler"]),
          ChangeFee(d["BasicFeeHandler"], fee.route, fee.feeAmount)>>)
    \o When(fee.type = "percentage",
        <<AdminSetResourceHandler(d["FeeHandlerRouter"], fee.route, d["PercentageERC20FeeHandler"]),
          ChangeFee(d["PercentageERC20FeeHandler"], fee.route, fee.feeAmount)>>)

LEMMA SavedTyped ==
    ASSUME NEW c, NEW d, Saved(c, d), NEW kind \in Kinds
    PROVE  d[kind] \in OrNone(kind)
BY DEF Saved, OrNone

LEMMA RegisterTyped ==
    ASSUME NEW c, NEW d, Saved(c, d), NEW fee \in Entries(Network.fee)
    PROVE  RegisterFee(d, fee) \in Seq(LoopSteps)
<1>1. /\ d["FeeHandlerRouter"] \in OrNone("FeeHandlerRouter")
      /\ d["BasicFeeHandler"] \in AnyFeeHandler
      /\ d["PercentageERC20FeeHandler"] \in AnyFeeHandler
  BY SavedTyped DEF Kinds, AnyFeeHandler, FeeHandlers
<1>2. fee.route \in Routes /\ fee.feeAmount \in FeeAmounts
  BY NetworkAssumption DEF FeeAmounts
<1>3. \A a \in AnyFeeHandler :
        /\ AdminSetResourceHandler(d["FeeHandlerRouter"], fee.route, a) \in LoopSteps
        /\ ChangeFee(a, fee.route, fee.feeAmount) \in LoopSteps
  BY <1>1, <1>2 DEF AdminSetResourceHandler, ChangeFee, RouteSettings, FeeChanges, LoopSteps,
    Settings
<1>4. \A a \in AnyFeeHandler :
        <<AdminSetResourceHandler(d["FeeHandlerRouter"], fee.route, a),
          ChangeFee(a, fee.route, fee.feeAmount)>> \in Seq(LoopSteps)
  BY <1>3
<1>5. <<>> \in Seq(LoopSteps)
  OBVIOUS
<1> QED
  BY <1>1, <1>4, <1>5 DEF RegisterFee, When

LEMMA RegisterRoutesTyped ==
    ASSUME NEW c, NEW d, Saved(c, d)
    PROVE  RegisterRoutes(c, d) \in Seq(LoopSteps)
<1> DEFINE f == [i \in DOMAIN Network.fee |-> RegisterFee(d, Network.fee[i])]
<1>1. \A i \in DOMAIN Network.fee : Network.fee[i] \in Entries(Network.fee)
          => f[i] \in Seq(LoopSteps)
  BY RegisterTyped
<1>2. f = [i \in DOMAIN Network.fee |-> f[i]]
  OBVIOUS
<1>3. RegisterRoutes(c, d) = IF Network.fee = None THEN <<Throw>> ELSE Concat(f)
  BY DEF RegisterRoutes, ForEach, RegisterFee
<1> HIDE DEF f
<1>4. Network.fee # None => Concat(f) \in Seq(LoopSteps)
  BY <1>1, <1>2, ConcatTyped, ListsAreLists
<1>5. <<Throw>> \in Seq(LoopSteps)
  BY DEF LoopSteps
<1> QED
  BY <1>3, <1>4, <1>5

\* Each kind of contract is deployed at most once.
IsNew(t) == t.tx = "deploy" /\ t.to[1] \in Kinds

OnceEach(script) ==
    \A i, j \in DOMAIN script :
        IsNew(script[i]) /\ IsNew(script[j]) /\ script[i].to[1] = script[j].to[1] => i = j

LEMMA LoopStepsDeployTokens ==
    ASSUME NEW t \in LoopSteps
    PROVE  /\ ~IsNew(t)
           /\ t.tx = "deploy" => t \in Deployments /\ t.to[1] \in Resources
           /\ t.tx # "renounceRole" /\ t.tx # "grantAdmin" /\ t.tx # "renounceAdmin"
<1>1. CASE t = Throw
  BY <1>1 DEF Throw, IsNew
<1>2. CASE t \in {Deploy(a, NewToken) : a \in Tokens}
  BY <1>2, KindsDiffer DEF Deploy, IsNew, Deployments
<1>3. CASE t \in Settings
  <2>1. t.tx \in {"adminSetResource", "adminSetBurnable", "adminChangeFeeHandler", "endKeygen",
      "grantMinter", "mint", "grantSygmaHandler", "adminSetResourceHandler", "changeFee"}
    BY <1>3 DEF Settings, ResourceSettings, BurnableSettings, FeeHandlerChanges, KeygenEnds,
      MinterGrants, Mints, SygmaHandlerGrants, RouteSettings, FeeChanges
  <2> QED
    BY <2>1 DEF IsNew
<1> QED
  BY <1>1, <1>2, <1>3 DEF LoopSteps

\* The kinds a migration deploys.
Own(m) ==
    CASE m = 1 -> {"Migrations"}
      [] m = 2 -> Core \cup {"Pausable"}
      [] m = 3 -> {"GmpHandler"}
      [] m = 5 -> {"ERC1155Handler"}
      [] m = 7 -> {"ERC20Handler"}
      [] m = 9 -> {"FROSTKeygen"}
      [] m = 10 -> {"Retry"}
      [] OTHER -> {}

\* What a migration sends; only the eighth gives roles away.
Steps(m) ==
    IF m = 8 THEN {Throw} \cup Handovers
    ELSE {t \in Deployments : t.to[1] \in Own(m)} \cup (IF m >= 9 THEN {} ELSE LoopSteps)

WellScripted(m, script) ==
    /\ script \in Seq(Steps(m))
    /\ OnceEach(script)
    /\ m = 7 /\ script # <<>> => RedeployTokenHandlers

LEMMA ThenLoop ==
    ASSUME NEW m \in 1 .. 7, NEW p \in Seq(Steps(m)), OnceEach(p), NEW rest \in Seq(LoopSteps)
    PROVE  /\ p \o rest \in Seq(Steps(m))
           /\ OnceEach(p \o rest)
           /\ \A i \in DOMAIN p : i \in DOMAIN (p \o rest) /\ (p \o rest)[i] = p[i]
<1>1. LoopSteps \subseteq Steps(m)
  BY DEF Steps
<1>2. rest \in Seq(Steps(m))
  BY <1>1
<1>3. /\ DOMAIN p = 1 .. Len(p) /\ DOMAIN rest = 1 .. Len(rest)
      /\ Len(p) \in Nat /\ Len(rest) \in Nat
      /\ DOMAIN (p \o rest) = 1 .. Len(p) + Len(rest)
      /\ \A i \in 1 .. Len(p) : (p \o rest)[i] = p[i]
      /\ \A i \in 1 .. Len(rest) : (p \o rest)[Len(p) + i] = rest[i]
  OBVIOUS
<1>4. \A i \in 1 .. Len(rest) : ~IsNew(rest[i])
  BY <1>3, LoopStepsDeployTokens
<1>5. \A i \in DOMAIN (p \o rest) : IsNew((p \o rest)[i]) => i \in DOMAIN p
  <2> SUFFICES ASSUME NEW i \in 1 .. Len(p) + Len(rest), ~(i \in 1 .. Len(p))
      PROVE  ~IsNew((p \o rest)[i])
    BY <1>3
  <2> DEFINE j == i - Len(p)
  <2>1. j \in 1 .. Len(rest) /\ i = Len(p) + j
    BY <1>3
  <2> HIDE DEF j
  <2> QED
    BY <2>1, <1>3, <1>4, Zenon
<1>6. OnceEach(p \o rest)
  <2> SUFFICES ASSUME NEW i \in DOMAIN (p \o rest), NEW j \in DOMAIN (p \o rest),
                      IsNew((p \o rest)[i]), IsNew((p \o rest)[j]),
                      (p \o rest)[i].to[1] = (p \o rest)[j].to[1]
      PROVE  i = j
    BY DEF OnceEach
  <2>1. i \in DOMAIN p /\ j \in DOMAIN p
    BY <1>5
  <2>2. (p \o rest)[i] = p[i] /\ (p \o rest)[j] = p[j]
    BY <2>1, <1>3
  <2>3. IsNew(p[i]) /\ IsNew(p[j]) /\ p[i].to[1] = p[j].to[1]
    BY <2>2, Zenon
  <2> QED
    BY <2>1, <2>3 DEF OnceEach
<1> QED
  BY <1>2, <1>3, <1>6

\* The contracts of migration 2, before the tokens.
CoreScript(c) ==
    LET access == Fresh(c, "AccessControlSegregator")
        bridge == Fresh(c, "Bridge")
        receiver == Fresh(c, "DefaultMessageReceiver")
        erc20Handler == Fresh(c, "ERC20Handler")
        router == Fresh(c, "FeeHandlerRouter")
    IN <<Deploy(access, NewAccess(GenerateAccessControlFuncSignatures)),
         Deploy(Fresh(c, "Pausable"), <<>>),
         Deploy(bridge, NewBridge(access)),
         Deploy(receiver, NewReceiver),
         Deploy(erc20Handler, NewHandler(bridge)),
         Deploy(Fresh(c, "ERC721Handler"), NewHandler(bridge)),
         Deploy(router, NewRouter(bridge)),
         Deploy(Fresh(c, "BasicFeeHandler"), NewFeeHandler),
         Deploy(Fresh(c, "PercentageERC20FeeHandler"), NewFeeHandler),
         AdminChangeFeeHandler(bridge, router),
         GrantSygmaHandler(receiver, erc20Handler)>>

LEMMA CoreScriptTyped ==
    ASSUME NEW c, ChainTyped(c)
    PROVE  /\ CoreScript(c) \in Seq(Steps(2)) /\ OnceEach(CoreScript(c))
           /\ \A kind \in Core : \E i \in DOMAIN CoreScript(c) :
                CoreScript(c)[i].tx = "deploy" /\ CoreScript(c)[i].to = Fresh(c, kind)
<1> DEFINE access == Fresh(c, "AccessControlSegregator")
           bridge == Fresh(c, "Bridge")
           receiver == Fresh(c, "DefaultMessageReceiver")
           erc20Handler == Fresh(c, "ERC20Handler")
           router == Fresh(c, "FeeHandlerRouter")
           d1 == Deploy(access, NewAccess(GenerateAccessControlFuncSignatures))
           d2 == Deploy(Fresh(c, "Pausable"), <<>>)
           d3 == Deploy(bridge, NewBridge(access))
           d4 == Deploy(receiver, NewReceiver)
           d5 == Deploy(erc20Handler, NewHandler(bridge))
           d6 == Deploy(Fresh(c, "ERC721Handler"), NewHandler(bridge))
           d7 == Deploy(router, NewRouter(bridge))
           d8 == Deploy(Fresh(c, "BasicFeeHandler"), NewFeeHandler)
           d9 == Deploy(Fresh(c, "PercentageERC20FeeHandler"), NewFeeHandler)
           t10 == AdminChangeFeeHandler(bridge, router)
           t11 == GrantSygmaHandler(receiver, erc20Handler)
<1>1. \A kind : Fresh(c, kind) \in AddressesOf(kind) /\ Fresh(c, kind)[1] = kind
  BY FreshTyped DEF AddressesOf
<1>2. /\ d1 \in Deployments /\ d2 \in Deployments /\ d3 \in Deployments
      /\ d4 \in Deployments /\ d5 \in Deployments /\ d6 \in Deployments
      /\ d7 \in Deployments /\ d8 \in Deployments /\ d9 \in Deployments
  <2>1. /\ Fresh(c, "Pausable") \in Plain \X Nat
        /\ erc20Handler \in HandlerAddresses /\ Fresh(c, "ERC721Handler") \in HandlerAddresses
        /\ Fresh(c, "BasicFeeHandler") \in FeeHandlers \X Nat
        /\ Fresh(c, "PercentageERC20FeeHandler") \in FeeHandlers \X Nat
        /\ bridge \in OrNone("Bridge")
    BY <1>1 DEF AddressesOf, Plain, HandlerAddresses, TokenHandlers, FeeHandlers, OrNone
  <2>2. /\ access \in AddressesOf("AccessControlSegregator") /\ bridge \in AddressesOf("Bridge")
        /\ receiver \in AddressesOf("DefaultMessageReceiver")
        /\ router \in AddressesOf("FeeHandlerRouter")
    BY <1>1
  <2> HIDE DEF access, bridge, receiver, erc20Handler, router
  <2> QED
    BY <2>1, <2>2 DEF Deployments
<1>3. t10 \in LoopSteps /\ t11 \in LoopSteps
  BY <1>1 DEF LoopSteps, Settings, FeeHandlerChanges, SygmaHandlerGrants, AdminChangeFeeHandler,
    GrantSygmaHandler, OrNone
<1>4. /\ d1.to[1] = "AccessControlSegregator" /\ d2.to[1] = "Pausable" /\ d3.to[1] = "Bridge"
      /\ d4.to[1] = "DefaultMessageReceiver" /\ d5.to[1] = "ERC20Handler"
      /\ d6.to[1] = "ERC721Handler" /\ d7.to[1] = "FeeHandlerRouter"
      /\ d8.to[1] = "BasicFeeHandler" /\ d9.to[1] = "PercentageERC20FeeHandler"
  BY <1>1 DEF Deploy
<1>5. /\ d1.to = access /\ d3.to = bridge /\ d4.to = receiver /\ d5.to = erc20Handler
      /\ d6.to = Fresh(c, "ERC721Handler") /\ d7.to = router
      /\ d8.to = Fresh(c, "BasicFeeHandler") /\ d9.to = Fresh(c, "PercentageERC20FeeHandler")
      /\ d1.tx = "deploy" /\ d3.tx = "deploy" /\ d4.tx = "deploy" /\ d5.tx = "deploy"
      /\ d6.tx = "deploy" /\ d7.tx = "deploy" /\ d8.tx = "deploy" /\ d9.tx = "deploy"
  BY DEF Deploy
<1>6. CoreScript(c) = <<d1, d2, d3, d4, d5, d6, d7, d8, d9, t10, t11>>
  BY DEF CoreScript
<1> HIDE DEF d1, d2, d3, d4, d5, d6, d7, d8, d9, t10, t11
<1>7. CoreScript(c) \in Seq(Steps(2))
  <2>1. /\ d1 \in Steps(2) /\ d2 \in Steps(2) /\ d3 \in Steps(2) /\ d4 \in Steps(2)
        /\ d5 \in Steps(2) /\ d6 \in Steps(2) /\ d7 \in Steps(2) /\ d8 \in Steps(2)
        /\ d9 \in Steps(2) /\ t10 \in Steps(2) /\ t11 \in Steps(2)
    BY <1>2, <1>3, <1>4 DEF Steps, Own, Core
  <2> QED
    BY <2>1, <1>6
<1>8. OnceEach(CoreScript(c))
  <2>1. ~IsNew(t10) /\ ~IsNew(t11)
    BY <1>3, LoopStepsDeployTokens
  <2> QED
    BY <2>1, <1>4, <1>6 DEF OnceEach
<1>9. \A kind \in Core : \E i \in DOMAIN CoreScript(c) :
                CoreScript(c)[i].tx = "deploy" /\ CoreScript(c)[i].to = Fresh(c, kind)
  BY <1>5, <1>6 DEF Core
<1> QED
  BY <1>7, <1>8, <1>9

\* A transaction of a script.
Sends(script, t) == \E i \in DOMAIN script : script[i] = t

\* Who renounces a role has granted it before.
GrantsFirst(script) ==
    \A i \in DOMAIN script : script[i].tx = "renounceRole" =>
        \E j \in DOMAIN script :
            j < i /\ script[j] = GrantAdmin(script[i].to, AdminOf(script[i].to[1]))

LEMMA JoinedScripts ==
    ASSUME NEW T, NEW u \in Seq(T), NEW v \in Seq(T), GrantsFirst(u), GrantsFirst(v)
    PROVE  /\ u \o v \in Seq(T) /\ GrantsFirst(u \o v)
           /\ \A t : Sends(u, t) \/ Sends(v, t) => Sends(u \o v, t)
<1>1. /\ DOMAIN u = 1 .. Len(u) /\ DOMAIN v = 1 .. Len(v) /\ Len(u) \in Nat /\ Len(v) \in Nat
      /\ DOMAIN (u \o v) = 1 .. Len(u) + Len(v)
      /\ \A i \in 1 .. Len(u) : (u \o v)[i] = u[i]
      /\ \A i \in 1 .. Len(v) : (u \o v)[Len(u) + i] = v[i]
      /\ u \o v \in Seq(T)
  OBVIOUS
<1>2. GrantsFirst(u \o v)
  <2> SUFFICES ASSUME NEW i \in 1 .. Len(u) + Len(v), (u \o v)[i].tx = "renounceRole"
      PROVE  \E j \in DOMAIN (u \o v) : /\ j < i
                 /\ (u \o v)[j] = GrantAdmin((u \o v)[i].to, AdminOf((u \o v)[i].to[1]))
    BY <1>1 DEF GrantsFirst
  <2>1. CASE i \in 1 .. Len(u)
    <3>1. (u \o v)[i] = u[i]
      BY <1>1, <2>1
    <3>2. PICK j \in DOMAIN u : j < i /\ u[j] = GrantAdmin(u[i].to, AdminOf(u[i].to[1]))
      BY <3>1, <2>1, <1>1 DEF GrantsFirst
    <3>3. (u \o v)[j] = u[j] /\ j \in DOMAIN (u \o v)
      BY <3>2, <1>1
    <3> QED
      BY <3>1, <3>2, <3>3
  <2>2. CASE ~(i \in 1 .. Len(u))
    <3>1. PICK k \in 1 .. Len(v) : i = Len(u) + k
      BY <1>1, <2>2
    <3>2. (u \o v)[i] = v[k]
      BY <1>1, <3>1, Zenon
    <3>3. PICK j \in DOMAIN v : j < k /\ v[j] = GrantAdmin(v[k].to, AdminOf(v[k].to[1]))
      BY <3>1, <3>2, <1>1 DEF GrantsFirst
    <3>4. PICK l : l = Len(u) + j
      OBVIOUS
    <3>5. (u \o v)[l] = v[j]
      BY <3>3, <3>4, <1>1, Zenon
    <3>6. l < i /\ l \in DOMAIN (u \o v)
      BY <3>1, <3>3, <3>4, <1>1
    <3> QED
      BY <3>2, <3>3, <3>5, <3>6
  <2> QED
    BY <2>1, <2>2
<1>3. \A t : Sends(u, t) => Sends(u \o v, t)
  BY <1>1 DEF Sends
<1>4. \A t : Sends(v, t) => Sends(u \o v, t)
  <2> SUFFICES ASSUME NEW t, NEW i \in 1 .. Len(v), v[i] = t
      PROVE  Sends(u \o v, t)
    BY <1>1 DEF Sends
  <2>1. PICK k : k = Len(u) + i
    OBVIOUS
  <2>2. (u \o v)[k] = t
    BY <2>1, <1>1, Zenon
  <2>3. k \in DOMAIN (u \o v)
    BY <2>1, <1>1
  <2> QED
    BY <2>2, <2>3 DEF Sends
<1> QED
  BY <1>1, <1>2, <1>3, <1>4

LEMMA NoRenunciation ==
    ASSUME NEW script, \A i \in DOMAIN script : script[i].tx # "renounceRole"
    PROVE  GrantsFirst(script)
BY DEF GrantsFirst

LEMMA HandOverTyped ==
    ASSUME NEW kind \in HandedOverByRole, NEW contract \in AddressesOf(kind), NEW admin,
           admin \in {Network.access.feeRouterAdmin, Network.access.defaultMessageReceiverAdmin},
           admin # None => admin = AdminOf(kind) /\ admin # Deployer
    PROVE  LET script == When(admin # None, HandOver(contract, admin))
           IN /\ script \in Seq(Steps(8)) /\ GrantsFirst(script)
              /\ admin # None => Sends(script, RenounceRole(contract))
<1>1. contract \in UNION {OrNone(k) : k \in HandedOverByRole} /\ contract[1] = kind
  BY DEF OrNone, AddressesOf
<1>2. ASSUME admin # None
      PROVE  GrantAdmin(contract, admin) \in Handovers /\ RenounceRole(contract) \in Handovers
  BY <1>1, <1>2 DEF GrantAdmin, AdminGrants, RenounceRole, RoleRenunciations, Handovers
<1>3. CASE admin # None
  <2>1. GrantAdmin(contract, admin) \in Steps(8) /\ RenounceRole(contract) \in Steps(8)
    BY <1>2, <1>3 DEF Steps
  <2>2. /\ GrantAdmin(contract, admin).tx = "grantAdmin" /\ RenounceRole(contract).tx = "renounceRole"
        /\ RenounceRole(contract).to = contract
    BY DEF GrantAdmin, RenounceRole
  <2> DEFINE s == <<GrantAdmin(contract, admin), RenounceRole(contract)>>
  <2>3. /\ s \in Seq(Steps(8)) /\ DOMAIN s = {1, 2} /\ s[1] = GrantAdmin(contract, admin)
        /\ s[2] = RenounceRole(contract)
    BY <2>1
  <2>4. When(admin # None, HandOver(contract, admin)) = s
    BY <1>3 DEF When, HandOver
  <2> HIDE DEF s
  <2>5. GrantsFirst(s)
    BY <2>2, <2>3, <1>1, <1>3 DEF GrantsFirst
  <2>6. Sends(s, RenounceRole(contract))
    BY <2>3 DEF Sends
  <2> QED
    BY <2>3, <2>4, <2>5, <2>6
<1>4. CASE admin = None
  BY <1>4 DEF When, GrantsFirst
<1> QED
  BY <1>3, <1>4

\* What hands a contract over for good.
GivesUp(script, contract) ==
    \/ Sends(script, RenounceAdmin(contract, AdminOf(contract[1])))
    \/ Sends(script, RenounceRole(contract))

LEMMA CoreAddresses ==
    ASSUME NEW c, NEW d, Saved(c, d), CoreSaved(d)
    PROVE  \A kind \in Core : d[kind] \in AddressesOf(kind) /\ d[kind] \in DOMAIN c /\ kind \in Kinds
BY DEF Saved, CoreSaved, Core, Kinds

LEMMA AccessLoopTyped ==
    ASSUME NEW c, NEW d, Saved(c, d), Network.access # None
    PROVE  LET Grant(entry) ==
                  <<GrantAccess(d["AccessControlSegregator"], entry.function, entry.account)>>
               script == ForEach(Network.access.accessControl, Grant)
           IN /\ script \in Seq(Steps(8)) /\ GrantsFirst(script)
              /\ \A entry \in Entries(Network.access.accessControl) : Sends(script,
                    GrantAccess(d["AccessControlSegregator"], entry.function, entry.account))
<1> DEFINE list == Network.access.accessControl
           G(entry) == GrantAccess(d["AccessControlSegregator"], entry.function, entry.account)
           f == [i \in DOMAIN list |-> <<G(list[i])>>]
<1>1. d["AccessControlSegregator"] \in OrNone("AccessControlSegregator")
  BY SavedTyped DEF Kinds
<1>2. \A entry \in Entries(list) : G(entry) \in AccessGrants
  BY <1>1 DEF AccessGrants
<1>3. \A t \in AccessGrants : t.tx # "renounceRole"
  BY DEF AccessGrants, GrantAccess
<1>4. AccessGrants \cup {Throw} \subseteq Steps(8)
  BY DEF Steps, Handovers
<1>5. CASE list = None
  <2>1. /\ <<Throw>> \in Seq(Steps(8)) /\ DOMAIN <<Throw>> = {1} /\ <<Throw>>[1] = Throw
        /\ Throw.tx # "renounceRole"
    BY <1>4 DEF Throw
  <2> DEFINE s == <<Throw>>
  <2> HIDE DEF s
  <2>2. GrantsFirst(s)
    BY <2>1 DEF GrantsFirst, s
  <2> QED
    BY <1>5, <2>1, <2>2 DEF ForEach, Entries, s
<1>6. CASE list # None
  <2>1. \A i \in DOMAIN list : list[i] \in Entries(list) => f[i] \in Seq(AccessGrants)
    BY <1>2
  <2>2. f = [i \in DOMAIN list |-> f[i]]
    OBVIOUS
  <2>3. \A i \in DOMAIN list : f[i] = <<G(list[i])>> /\ f[i][1] = G(list[i]) /\ DOMAIN f[i] = {1}
    OBVIOUS
  <2>4. DOMAIN f = DOMAIN list
    OBVIOUS
  <2>5. Entries(list) = {list[i] : i \in DOMAIN list}
    BY <1>6 DEF Entries, ToSet
  <2> HIDE DEF f, G
  <2>6. f \in Seq(Seq(AccessGrants)) /\ Concat(f) \in Seq(AccessGrants)
    BY <1>6, <2>1, <2>2, ConcatTyped, ListsAreLists
  <2>7. \A entry \in Entries(list) : Sends(Concat(f), G(entry))
    <3> SUFFICES ASSUME NEW j \in DOMAIN list
        PROVE  Sends(Concat(f), G(list[j]))
      BY <2>5
    <3>1. PICK p : Within(f[j], FlattenSeq(f), p)
      BY <2>4, <2>6, Flattened, Zenon
    <3>2. 1 \in DOMAIN f[j] /\ f[j][1] = G(list[j])
      BY <2>3
    <3>3. p + 1 \in DOMAIN FlattenSeq(f) /\ FlattenSeq(f)[p + 1] = G(list[j])
      BY <3>1, <3>2, Zenon DEF Within
    <3> QED
      BY <3>3 DEF Sends, Concat
  <2>8. GrantsFirst(Concat(f))
    BY <2>6, <1>3, NoRenunciation
  <2>9. Concat(f) \in Seq(Steps(8))
    BY <2>6, <1>4
  <2> QED
    BY <2>7, <2>8, <2>9, <1>6 DEF ForEach, G, f
<1> QED
  BY <1>5, <1>6

\* What hands the fee handlers over.
Given(d) ==
    When(Network.access.feeHandlerAdmin # None,
        <<RenounceAdmin(d["BasicFeeHandler"], Network.access.feeHandlerAdmin),
          RenounceAdmin(d["PercentageERC20FeeHandler"], Network.access.feeHandlerAdmin)>>)

LEMMA GivenTyped ==
    ASSUME NEW c, NEW d, Saved(c, d), CoreSaved(d), Network.access # None
    PROVE  /\ Given(d) \in Seq(Steps(8)) /\ GrantsFirst(Given(d))
           /\ \A kind \in FeeHandlers : AdminOf(kind) # Deployer =>
                Sends(Given(d), RenounceAdmin(d[kind], AdminOf(kind)))
<1> DEFINE admin == Network.access.feeHandlerAdmin
           t1 == RenounceAdmin(d["BasicFeeHandler"], admin)
           t2 == RenounceAdmin(d["PercentageERC20FeeHandler"], admin)
<1>1. \A kind \in FeeHandlers : AdminOf(kind) = Heir(admin)
  BY DEF FeeHandlers, AdminOf
<1>2. /\ d["BasicFeeHandler"] \in AddressesOf("BasicFeeHandler")
      /\ d["PercentageERC20FeeHandler"] \in AddressesOf("PercentageERC20FeeHandler")
  BY CoreAddresses DEF Core
<1>3. CASE admin = None
  <2>1. Given(d) = <<>> /\ \A kind \in FeeHandlers : AdminOf(kind) = Deployer
    BY <1>1, <1>3 DEF Given, When, Heir
  <2> QED
    BY <2>1 DEF GrantsFirst
<1>4. CASE admin # None
  <2>1. \A kind \in FeeHandlers : AdminOf(kind) = admin
    BY <1>1, <1>4 DEF Heir
  <2>2. t1 \in AdminRenunciations /\ t2 \in AdminRenunciations
    BY <1>2, <2>1 DEF RenounceAdmin, AdminRenunciations, AddressesOf, AnyFeeHandler, OrNone,
      FeeHandlers
  <2>3. t1.tx # "renounceRole" /\ t2.tx # "renounceRole"
    BY DEF RenounceAdmin
  <2>4. Given(d) = <<t1, t2>>
    BY <1>4 DEF Given, When
  <2>5. \A kind \in FeeHandlers : RenounceAdmin(d[kind], AdminOf(kind)) \in {t1, t2}
    BY <2>1 DEF FeeHandlers
  <2> HIDE DEF t1, t2
  <2>6. /\ Given(d) \in Seq(Steps(8)) /\ DOMAIN Given(d) = {1, 2}
        /\ Given(d)[1] = t1 /\ Given(d)[2] = t2
    BY <2>2, <2>4 DEF Steps, Handovers
  <2>7. GrantsFirst(Given(d))
    BY <2>3, <2>6 DEF GrantsFirst
  <2>8. Sends(Given(d), t1) /\ Sends(Given(d), t2)
    BY <2>6 DEF Sends
  <2> QED
    BY <2>5, <2>6, <2>7, <2>8
<1> QED
  BY <1>3, <1>4

LEMMA RenounceAdminsTyped ==
    ASSUME NEW c, NEW d, Saved(c, d), CoreSaved(d)
    PROVE  /\ RenounceAdmins(c, d) \in Seq(Steps(8)) /\ GrantsFirst(RenounceAdmins(c, d))
           /\ Network.access # None =>
                /\ \A kind \in Administered : AdminOf(kind) # Deployer =>
                    GivesUp(RenounceAdmins(c, d), d[kind])
                /\ \A entry \in Entries(Network.access.accessControl) :
                    Sends(RenounceAdmins(c, d),
                        GrantAccess(d["AccessControlSegregator"], entry.function, entry.account))
<1>1. CASE Network.access = None
  <2>1. RenounceAdmins(c, d) = <<>>
    BY <1>1 DEF RenounceAdmins
  <2> QED
    BY <2>1, <1>1 DEF GrantsFirst
<1>2. CASE Network.access # None
  <2> DEFINE Grant(entry) ==
          <<GrantAccess(d["AccessControlSegregator"], entry.function, entry.account)>>
        router == When(Network.access.feeRouterAdmin # None,
            HandOver(d["FeeHandlerRouter"], Network.access.feeRouterAdmin))
        receiver == When(Network.access.defaultMessageReceiverAdmin # None,
            HandOver(d["DefaultMessageReceiver"], Network.access.defaultMessageReceiverAdmin))
        loop == ForEach(Network.access.accessControl, Grant)
  <2>1. /\ AdminOf("FeeHandlerRouter") = Heir(Network.access.feeRouterAdmin)
        /\ AdminOf("DefaultMessageReceiver") = Heir(Network.access.defaultMessageReceiverAdmin)
        /\ Network.access.feeRouterAdmin # Deployer
        /\ Network.access.defaultMessageReceiverAdmin # Deployer
    BY <1>2, NetworkAssumption DEF AdminOf
  <2>2. \A kind \in Core : d[kind] \in AddressesOf(kind)
    BY CoreAddresses
  <2>3. /\ router \in Seq(Steps(8)) /\ GrantsFirst(router)
        /\ Network.access.feeRouterAdmin # None =>
              Sends(router, RenounceRole(d["FeeHandlerRouter"]))
    <3>1. "FeeHandlerRouter" \in HandedOverByRole /\ "FeeHandlerRouter" \in Core
      BY DEF HandedOverByRole, Core
    <3>2. Network.access.feeRouterAdmin # None =>
              /\ Network.access.feeRouterAdmin = AdminOf("FeeHandlerRouter")
              /\ Network.access.feeRouterAdmin # Deployer
      BY <2>1 DEF Heir
    <3> QED
      BY <3>1, <3>2, <2>2, HandOverTyped
  <2>4. /\ receiver \in Seq(Steps(8)) /\ GrantsFirst(receiver)
        /\ Network.access.defaultMessageReceiverAdmin # None =>
              Sends(receiver, RenounceRole(d["DefaultMessageReceiver"]))
    <3>1. "DefaultMessageReceiver" \in HandedOverByRole /\ "DefaultMessageReceiver" \in Core
      BY DEF HandedOverByRole, Core
    <3>2. Network.access.defaultMessageReceiverAdmin # None =>
              /\ Network.access.defaultMessageReceiverAdmin = AdminOf("DefaultMessageReceiver")
              /\ Network.access.defaultMessageReceiverAdmin # Deployer
      BY <2>1 DEF Heir
    <3> QED
      BY <3>1, <3>2, <2>2, HandOverTyped
  <2>5. /\ loop \in Seq(Steps(8)) /\ GrantsFirst(loop)
        /\ \A entry \in Entries(Network.access.accessControl) : Sends(loop,
              GrantAccess(d["AccessControlSegregator"], entry.function, entry.account))
    BY <1>2, AccessLoopTyped
  <2>6. RenounceAdmins(c, d) = Given(d) \o router \o receiver \o loop
    BY <1>2 DEF RenounceAdmins, Given
  <2>7. /\ Given(d) \in Seq(Steps(8)) /\ GrantsFirst(Given(d))
        /\ \A kind \in FeeHandlers : AdminOf(kind) # Deployer =>
              Sends(Given(d), RenounceAdmin(d[kind], AdminOf(kind)))
    BY <1>2, GivenTyped
  <2> HIDE DEF router, receiver, loop
  <2>8. /\ Given(d) \o router \in Seq(Steps(8)) /\ GrantsFirst(Given(d) \o router)
        /\ \A t : Sends(Given(d), t) \/ Sends(router, t) => Sends(Given(d) \o router, t)
    BY <2>3, <2>7, JoinedScripts
  <2>9. /\ Given(d) \o router \o receiver \in Seq(Steps(8))
        /\ GrantsFirst(Given(d) \o router \o receiver)
        /\ \A t : Sends(Given(d) \o router, t) \/ Sends(receiver, t)
              => Sends(Given(d) \o router \o receiver, t)
    BY <2>4, <2>8, JoinedScripts
  <2>10. /\ RenounceAdmins(c, d) \in Seq(Steps(8)) /\ GrantsFirst(RenounceAdmins(c, d))
         /\ \A t : Sends(Given(d) \o router \o receiver, t) \/ Sends(loop, t)
              => Sends(RenounceAdmins(c, d), t)
    BY <2>5, <2>6, <2>9, JoinedScripts
  <2>11. \A kind \in Core : d[kind][1] = kind
    BY <2>2 DEF AddressesOf
  <2>12. ASSUME NEW kind \in Administered, AdminOf(kind) # Deployer
         PROVE  GivesUp(RenounceAdmins(c, d), d[kind])
    <3>1. CASE kind \in FeeHandlers
      <4>1. Sends(RenounceAdmins(c, d), RenounceAdmin(d[kind], AdminOf(kind)))
        BY <2>7, <2>8, <2>9, <2>10, <2>12, <3>1
      <4>2. kind \in Core
        BY <3>1 DEF FeeHandlers, Core
      <4> QED
        BY <4>1, <4>2, <2>11 DEF GivesUp
    <3>2. CASE kind = "FeeHandlerRouter"
      <4>1. Network.access.feeRouterAdmin # None
        BY <2>1, <2>12, <3>2 DEF Heir
      <4> QED
        BY <4>1, <3>2, <2>3, <2>8, <2>9, <2>10 DEF GivesUp
    <3>3. CASE kind = "DefaultMessageReceiver"
      <4>1. Network.access.defaultMessageReceiverAdmin # None
        BY <2>1, <2>12, <3>3 DEF Heir
      <4> QED
        BY <4>1, <3>3, <2>4, <2>9, <2>10 DEF GivesUp
    <3> QED
      BY <3>1, <3>2, <3>3 DEF Administered, FeeHandlers
  <2> QED
    BY <2>5, <2>10, <2>12
<1> QED
  BY <1>1, <1>2

LEMMA SingleDeployment ==
    ASSUME NEW m, m \notin {8}, NEW t \in Deployments, t.to[1] \in Own(m)
    PROVE  <<t>> \in Seq(Steps(m)) /\ OnceEach(<<t>>)
<1>1. t \in Steps(m)
  BY DEF Steps
<1> QED
  BY <1>1 DEF OnceEach

LEMMA DeployContractsTyped ==
    ASSUME NEW c, ChainTyped(c), NEW d
    PROVE  /\ DeployContracts(c, d) \in Seq(Steps(2)) /\ OnceEach(DeployContracts(c, d))
           /\ \A kind \in Core : \E i \in DOMAIN DeployContracts(c, d) :
                /\ DeployContracts(c, d)[i].tx = "deploy"
                /\ DeployContracts(c, d)[i].to = Fresh(c, kind)
<1> DEFINE bridge == Fresh(c, "Bridge")
           number(kind) == NumberOf(c, kind) + 1
           e20 == IF Network.erc20 = None THEN <<Throw>> ELSE
                Concat([i \in DOMAIN Network.erc20 |->
                    SetupErc20(c, Network.erc20[i], bridge, <<"ERC20Handler", number("ERC20Handler")>>)])
           e721 == IF Network.erc721 = None THEN <<Throw>> ELSE
                Concat([i \in DOMAIN Network.erc721 |->
                    SetupErc721(c, Network.erc721[i], bridge,
                                <<"ERC721Handler", number("ERC721Handler")>>)])
           keygen == When(Network.MPCAddress # None, <<EndKeygen(bridge, Network.MPCAddress)>>)
<1>1. DeployContracts(c, d) = CoreScript(c) \o e20 \o e721 \o keygen
  BY DEF DeployContracts, CoreScript, ForEach, Fresh, Address
<1>2. /\ bridge \in AddressesOf("Bridge") /\ bridge \in OrNone("Bridge")
      /\ number("ERC20Handler") \in Nat /\ number("ERC721Handler") \in Nat
  <2>1. \A kind : NumberOf(c, kind) \in Nat /\ Fresh(c, kind) \in AddressesOf(kind)
    BY FreshTyped
  <2> QED
    BY <2>1 DEF OrNone
<1>3. <<Throw>> \in Seq(LoopSteps) /\ <<>> \in Seq(LoopSteps)
  BY DEF LoopSteps
<1>4. e20 \in Seq(LoopSteps) /\ e721 \in Seq(LoopSteps)
  BY <1>2, <1>3, SetupLoopsTyped
<1>5. keygen \in Seq(LoopSteps)
  <2>1. EndKeygen(bridge, Network.MPCAddress) \in LoopSteps
    BY <1>2 DEF EndKeygen, KeygenEnds, LoopSteps, Settings
  <2> QED
    BY <2>1, <1>3 DEF When
<1> HIDE DEF e20, e721, keygen
<1> DEFINE rest == e20 \o e721 \o keygen
<1>6. rest \in Seq(LoopSteps) /\ DeployContracts(c, d) = CoreScript(c) \o rest
  <2>1. /\ CoreScript(c) \in Seq(Steps(2))
        /\ LoopSteps \subseteq Steps(2)
    BY CoreScriptTyped DEF Steps
  <2> DEFINE T == Steps(2)
  <2>2. e20 \in Seq(T) /\ e721 \in Seq(T) /\ keygen \in Seq(T) /\ CoreScript(c) \in Seq(T)
    BY <2>1, <1>4, <1>5
  <2> HIDE DEF T
  <2>3. CoreScript(c) \o e20 \o e721 \o keygen = CoreScript(c) \o (e20 \o e721 \o keygen)
    BY <2>2
  <2> QED
    BY <1>1, <1>4, <1>5, <2>3
<1> HIDE DEF rest
<1>7. /\ CoreScript(c) \o rest \in Seq(Steps(2)) /\ OnceEach(CoreScript(c) \o rest)
      /\ \A i \in DOMAIN CoreScript(c) : /\ i \in DOMAIN (CoreScript(c) \o rest)
                                         /\ (CoreScript(c) \o rest)[i] = CoreScript(c)[i]
  BY <1>6, CoreScriptTyped, ThenLoop
<1>8. \A kind \in Core : \E i \in DOMAIN (CoreScript(c) \o rest) :
         (CoreScript(c) \o rest)[i].tx = "deploy" /\ (CoreScript(c) \o rest)[i].to = Fresh(c, kind)
  <2> SUFFICES ASSUME NEW kind \in Core
      PROVE  \E i \in DOMAIN (CoreScript(c) \o rest) :
         (CoreScript(c) \o rest)[i].tx = "deploy" /\ (CoreScript(c) \o rest)[i].to = Fresh(c, kind)
    OBVIOUS
  <2>1. PICK i \in DOMAIN CoreScript(c) :
            CoreScript(c)[i].tx = "deploy" /\ CoreScript(c)[i].to = Fresh(c, kind)
    BY CoreScriptTyped
  <2>2. i \in DOMAIN (CoreScript(c) \o rest) /\ (CoreScript(c) \o rest)[i] = CoreScript(c)[i]
    BY <1>7
  <2>3. (CoreScript(c) \o rest)[i].tx = "deploy" /\ (CoreScript(c) \o rest)[i].to = Fresh(c, kind)
    BY <2>1, <2>2, Zenon
  <2> QED
    BY <2>2, <2>3
<1> QED
  BY <1>6, <1>7, <1>8

LEMMA RedeployHandlersTyped ==
    ASSUME NEW c, ChainTyped(c), NEW d, Saved(c, d), CoreSaved(d)
    PROVE  WellScripted(7, RedeployHandlers(c, d))
<1> DEFINE new == Fresh(c, "ERC20Handler")
           first == When(Network.erc20 # <<>>, <<Deploy(new, NewHandler(d["Bridge"]))>>)
           loop == IF Network.erc20 = None THEN <<Throw>> ELSE
                Concat([i \in DOMAIN Network.erc20 |->
                    MigrateToNewTokenHandler(c, Network.erc20[i], d["Bridge"], d["ERC20Handler"],
                                             new, d["DefaultMessageReceiver"])])
<1>1. CASE ~RedeployTokenHandlers
  <2>1. RedeployHandlers(c, d) = <<>>
    BY <1>1 DEF RedeployHandlers, When
  <2> QED
    BY <2>1 DEF WellScripted, OnceEach
<1>2. CASE RedeployTokenHandlers
  <2>1. d["XC20Handler"] = None
    BY DEF Saved
  <2>2. RedeployHandlers(c, d) = first \o loop \o <<>>
    BY <1>2, <2>1 DEF RedeployHandlers, RedeployHandler, When, ForEach
  <2>3. /\ d["Bridge"] \in OrNone("Bridge")
        /\ d["DefaultMessageReceiver"] \in OrNone("DefaultMessageReceiver")
        /\ d["ERC20Handler"] \in AddressesOf("ERC20Handler") /\ d["ERC20Handler"] \in DOMAIN c
        /\ new \in AddressesOf("ERC20Handler")
    BY CoreAddresses, FreshTyped DEF Core, OrNone
  <2>4. loop \in Seq(LoopSteps)
    <3>1. <<Throw>> \in Seq(LoopSteps)
      BY DEF LoopSteps
    <3> QED
      BY <3>1, <2>3, MigrateLoopTyped
  <2>5. first \in Seq(Steps(7)) /\ OnceEach(first)
    <3>1. new \in HandlerAddresses /\ new[1] = "ERC20Handler"
      BY <2>3 DEF AddressesOf, HandlerAddresses, TokenHandlers
    <3>2. Deploy(new, NewHandler(d["Bridge"])) \in Deployments
      BY <2>3, <3>1 DEF Deployments
    <3>3. Deploy(new, NewHandler(d["Bridge"])).to[1] \in Own(7)
      BY <3>1 DEF Deploy, Own
    <3>4. /\ <<Deploy(new, NewHandler(d["Bridge"]))>> \in Seq(Steps(7))
          /\ OnceEach(<<Deploy(new, NewHandler(d["Bridge"]))>>)
      BY <3>2, <3>3, SingleDeployment
    <3>5. <<>> \in Seq(Steps(7)) /\ OnceEach(<<>>)
      BY DEF OnceEach
    <3> QED
      BY <3>4, <3>5 DEF When
  <2> HIDE DEF first, loop
  <2>6. first \o loop \in Seq(Steps(7)) /\ OnceEach(first \o loop)
    BY <2>4, <2>5, ThenLoop
  <2>7. first \o loop \o <<>> = first \o loop
    BY <2>6
  <2> QED
    BY <2>2, <2>6, <2>7, <1>2 DEF WellScripted
<1> QED
  BY <1>1, <1>2

\* A script that throws at once, or does nothing.
LEMMA ThrownTyped ==
    ASSUME NEW m \in 1 .. 8, NEW script \in {<<>>, <<Throw>>}
    PROVE  script \in Seq(Steps(m)) /\ OnceEach(script)
<1>1. Throw \in Steps(m)
  BY DEF Steps, LoopSteps
<1>2. <<Throw>> \in Seq(Steps(m)) /\ <<>> \in Seq(Steps(m))
  BY <1>1
<1>3. OnceEach(<<Throw>>) /\ OnceEach(<<>>)
  BY DEF OnceEach
<1> QED
  BY <1>2, <1>3

LEMMA DeployGmpHandlerTyped ==
    ASSUME NEW c, ChainTyped(c), NEW d, Saved(c, d)
    PROVE  DeployGmpHandler(c, d) \in Seq(Steps(3)) /\ OnceEach(DeployGmpHandler(c, d))
<1> DEFINE handler == Fresh(c, "GmpHandler")
           t1 == Deploy(handler, NewHandler(d["Bridge"]))
           t2 == AdminSetResource(d["Bridge"], handler, Network.gmp, d["Bridge"])
<1>1. CASE Network.gmp = None
  BY <1>1 DEF DeployGmpHandler, When, OnceEach
<1>3. CASE d["Bridge"] = None
  <2>1. DeployGmpHandler(c, d) \in {<<>>, <<Throw>>}
    BY <1>3 DEF DeployGmpHandler, When, WithDeployed
  <2>2. \A script \in {<<>>, <<Throw>>} : script \in Seq(Steps(3)) /\ OnceEach(script)
    <3>1. Throw \in Steps(3)
      BY DEF Steps, LoopSteps
    <3>2. <<>> \in Seq(Steps(3)) /\ <<Throw>> \in Seq(Steps(3))
      BY <3>1
    <3>3. OnceEach(<<>>) /\ OnceEach(<<Throw>>)
      BY DEF OnceEach
    <3> QED
      BY <3>2, <3>3
  <2> QED
    BY <2>1, <2>2
<1>2. CASE Network.gmp # None /\ d["Bridge"] # None
  <2>1. d["Bridge"] \in OrNone("Bridge") /\ d["Bridge"] \in Addresses \cup {None}
    BY SavedTyped, KindsDiffer DEF Kinds, OrNone
  <2>2. handler \in HandlerAddresses /\ handler[1] = "GmpHandler"
    BY FreshTyped DEF AddressesOf, HandlerAddresses
  <2>3. t1 \in Deployments /\ t1.to[1] = "GmpHandler"
    <3>1. t1 \in Deployments
      BY <2>1, <2>2 DEF Deployments
    <3>2. t1.to = handler
      BY DEF Deploy
    <3> QED
      BY <3>1, <3>2, <2>2
  <2>4. t2 \in ResourceSettings
    BY <1>2, <2>1, <2>2, NetworkAssumption DEF AdminSetResource, ResourceSettings, TokenHandlers
  <2>5. t1 \in Steps(3) /\ t2 \in LoopSteps /\ t2 \in Steps(3)
    BY <2>3, <2>4 DEF Steps, Own, LoopSteps, Settings
  <2>6. ~IsNew(t2)
    BY <2>5, LoopStepsDeployTokens
  <2>7. DeployGmpHandler(c, d) = <<t1, t2>>
    BY <1>2 DEF DeployGmpHandler, When, WithDeployed
  <2> HIDE DEF t1, t2
  <2>8. /\ <<t1, t2>> \in Seq(Steps(3)) /\ DOMAIN <<t1, t2>> = {1, 2}
        /\ <<t1, t2>>[2] = t2
    BY <2>5
  <2> DEFINE s == <<t1, t2>>
  <2> HIDE DEF s
  <2>9. OnceEach(s)
    BY <2>6, <2>8 DEF OnceEach, s
  <2> QED
    BY <2>7, <2>8, <2>9 DEF s
<1> QED
  BY <1>1, <1>2, <1>3

LEMMA DeployErc1155Typed ==
    ASSUME NEW c, ChainTyped(c), NEW d, Saved(c, d)
    PROVE  DeployErc1155(c, d) \in Seq(Steps(5)) /\ OnceEach(DeployErc1155(c, d))
<1> DEFINE handler == Fresh(c, "ERC1155Handler")
           t == Deploy(handler, NewHandler(d["Bridge"]))
           number == NumberOf(c, "ERC1155Handler") + 1
           loop == IF Network.erc1155 = None THEN <<Throw>> ELSE
                Concat([i \in DOMAIN Network.erc1155 |->
                    SetupErc1155(c, Network.erc1155[i], d["Bridge"], <<"ERC1155Handler", number>>)])
<1>1. DeployErc1155(c, d) = IF d["Bridge"] = None THEN <<Throw>> ELSE <<t>> \o loop
  BY DEF DeployErc1155, ForEach, Fresh, Address, WithDeployed
<1>2. d["Bridge"] \in OrNone("Bridge") /\ number \in Nat
      /\ handler \in HandlerAddresses /\ handler[1] = "ERC1155Handler"
  BY SavedTyped, FreshTyped DEF Kinds, AddressesOf, HandlerAddresses, TokenHandlers
<1>3. loop \in Seq(LoopSteps)
  <2>1. <<Throw>> \in Seq(LoopSteps)
    BY DEF LoopSteps
  <2> QED
    BY <2>1, <1>2, SetupLoopsTyped
<1>4. t \in Deployments /\ t.to[1] \in Own(5)
  <2>1. t \in Deployments
    BY <1>2 DEF Deployments
  <2>2. t.to = handler
    BY DEF Deploy
  <2> QED
    BY <2>1, <2>2, <1>2 DEF Own
<1>5. <<t>> \in Seq(Steps(5)) /\ OnceEach(<<t>>)
  BY <1>4, SingleDeployment
<1> HIDE DEF t, loop
<1>6. <<t>> \o loop \in Seq(Steps(5)) /\ OnceEach(<<t>> \o loop)
  <2>1. 5 \in 1 .. 7
    OBVIOUS
  <2> QED
    BY <2>1, <1>3, <1>5, ThenLoop
<1> QED
  BY <1>1, <1>6, ThrownTyped

LEMMA PlainDeployment ==
    ASSUME NEW c, ChainTyped(c), NEW m, NEW kind \in Plain, kind \in Own(m), m # 8, m # 7
    PROVE  /\ WellScripted(m, <<Deploy(Fresh(c, kind), <<>>)>>)
           /\ WellScripted(m, <<>>)
<1>1. Fresh(c, kind) \in Plain \X Nat /\ Fresh(c, kind)[1] = kind
  BY FreshTyped DEF AddressesOf
<1>2. Deploy(Fresh(c, kind), <<>>) \in Deployments /\ Deploy(Fresh(c, kind), <<>>).to[1] = kind
  BY <1>1 DEF Deployments, Deploy
<1> QED
  BY <1>2, SingleDeployment DEF WellScripted, OnceEach

LEMMA StepsTyped ==
    ASSUME NEW m \in Migrations
    PROVE  Steps(m) \subseteq Transactions
BY LoopStepsAreTransactions DEF Steps, Transactions, Calls, Migrations

LEMMA HandoverDeploysNothing ==
    \A t \in Handovers : ~IsNew(t) /\ t.tx # "deploy"
BY DEF Handovers, AdminRenunciations, AdminGrants, RoleRenunciations, AccessGrants, GrantAccess, IsNew

LEMMA ScriptTyped ==
    ASSUME NEW c, ChainTyped(c), NEW d, Saved(c, d), NEW m \in Migrations, m > 5 => CoreSaved(d)
    PROVE  WellScripted(m, Script(m, c, d)) /\ GrantsFirst(Script(m, c, d))
<1>1. ASSUME m # 8, WellScripted(m, Script(m, c, d))
      PROVE  GrantsFirst(Script(m, c, d))
  <2>1. \A t \in Steps(m) : t.tx # "renounceRole"
    BY <1>1, LoopStepsDeployTokens, DeployedTyped DEF Steps
  <2> QED
    BY <1>1, <2>1, NoRenunciation DEF WellScripted
<1>2. CASE m = 1
  <2>1. Script(m, c, d) = <<Deploy(Fresh(c, "Migrations"), <<>>)>>
    BY <1>2 DEF Script, InitialMigration
  <2>2. "Migrations" \in Plain /\ "Migrations" \in Own(m)
    BY <1>2 DEF Plain, Own
  <2> QED
    BY <1>1, <1>2, <2>1, <2>2, PlainDeployment
<1>3. CASE m = 2
  BY <1>1, <1>3, DeployContractsTyped DEF Script, WellScripted
<1>4. CASE m = 3
  BY <1>1, <1>4, DeployGmpHandlerTyped DEF Script, WellScripted
<1>5. CASE m = 4
  <2>1. Script(m, c, d) = <<>>
    BY <1>5 DEF Script, DeployXC20Contracts
  <2> QED
    BY <2>1, <1>5, <1>1 DEF WellScripted, OnceEach
<1>6. CASE m = 5
  BY <1>1, <1>6, DeployErc1155Typed DEF Script, WellScripted
<1>7. CASE m = 6
  <2>1. Script(m, c, d) \in Seq(LoopSteps)
    BY <1>7, RegisterRoutesTyped DEF Script
  <2>2. LoopSteps \subseteq Steps(m)
    BY <1>7 DEF Steps
  <2>3. Script(m, c, d) \in Seq(Steps(m)) /\ OnceEach(Script(m, c, d))
    BY <2>1, <2>2, LoopStepsDeployTokens DEF OnceEach
  <2> QED
    BY <2>3, <1>7, <1>1 DEF WellScripted
<1>8. CASE m = 7
  BY <1>1, <1>8, RedeployHandlersTyped DEF Script
<1>9. CASE m = 8
  <2>1. Script(m, c, d) \in Seq(Steps(8)) /\ GrantsFirst(Script(m, c, d))
    BY <1>9, RenounceAdminsTyped DEF Script
  <2>2. \A t \in Steps(8) : ~IsNew(t)
    BY HandoverDeploysNothing, LoopStepsDeployTokens DEF Steps, LoopSteps
  <2> QED
    BY <2>1, <2>2, <1>9 DEF WellScripted, OnceEach
<1>10. CASE m = 9
  <2>1. Script(m, c, d) \in {<<Deploy(Fresh(c, "FROSTKeygen"), <<>>)>>, <<>>}
    BY <1>10 DEF Script, DeployFROSTKeygen, When
  <2>2. "FROSTKeygen" \in Plain /\ "FROSTKeygen" \in Own(m)
    BY <1>10 DEF Plain, Own
  <2>3. /\ WellScripted(m, <<Deploy(Fresh(c, "FROSTKeygen"), <<>>)>>)
        /\ WellScripted(m, <<>>)
    BY <1>10, <2>2, PlainDeployment
  <2>4. WellScripted(m, Script(m, c, d))
    BY <2>1, <2>3
  <2> QED
    BY <1>1, <1>10, <2>4
<1>11. CASE m = 10
  <2>1. Script(m, c, d) = <<Deploy(Fresh(c, "Retry"), <<>>)>>
    BY <1>11 DEF Script, DeployRetry
  <2>2. "Retry" \in Plain /\ "Retry" \in Own(m)
    BY <1>11 DEF Plain, Own
  <2> QED
    BY <1>1, <1>11, <2>1, <2>2, PlainDeployment
<1> QED
  BY <1>2, <1>3, <1>4, <1>5, <1>6, <1>7, <1>8, <1>9, <1>10, <1>11 DEF Migrations

\* What is left of the scripts when the Bridge's address is not saved.
LEMMA ScriptsWithoutBridge ==
    ASSUME NEW c, NEW d, d["Bridge"] = None, NEW m \in 3 .. 5
    PROVE  Script(m, c, d) \in {<<>>, <<Throw>>} /\ (m = 5 => Script(m, c, d) # <<>>)
<1>1. CASE m = 3
  BY <1>1 DEF Script, DeployGmpHandler, When, WithDeployed
<1>2. CASE m = 4
  <2>1. Script(m, c, d) = DeployXC20Contracts(c, d)
    BY <1>2 DEF Script
  <2>2. DeployXC20Contracts(c, d) = <<>>
    BY DEF DeployXC20Contracts
  <2> QED
    BY <1>2, <2>1, <2>2
<1>3. CASE m = 5
  <2>1. Script(m, c, d) = DeployErc1155(c, d)
    BY <1>3 DEF Script
  <2>2. DeployErc1155(c, d) = <<Throw>>
    BY DEF DeployErc1155, WithDeployed
  <2>3. <<Throw>> # <<>>
    OBVIOUS
  <2> QED
    BY <2>1, <2>2, <2>3
<1> QED
  BY <1>1, <1>2, <1>3

-----------------------------------------------------------------------------
(* What a transaction does to the roles. *)

Granted(c, a) == AdminOf(a[1]) \in c[a].admins

RoleGiven(c, a) == AdminOf(a[1]) = Deployer \/ Deployer \notin c[a].admins

LEMMA AdministeredTyped ==
    ASSUME NEW c, ChainTyped(c), NEW a \in DOMAIN c, a[1] \in Administered
    PROVE  /\ "admins" \in DOMAIN c[a] /\ c[a].admins \subseteq Admins(a[1])
           /\ a[1] = "FeeHandlerRouter" => c[a] \in RouterStorage
           /\ a[1] = "DefaultMessageReceiver" => c[a] \in ReceiverStorage
           /\ a[1] \in FeeHandlers => c[a] \in FeeHandlerStorage(a[1])
           /\ a[1] \in FeeHandlers \cup HandedOverByRole
           /\ a[1] \notin TokenHandlers \cup {"GmpHandler", "Bridge", "AccessControlSegregator"}
           /\ a[1] \notin Resources /\ a \in Addresses /\ a # None
<1>1. HasType(a, c[a]) /\ a \in Addresses
  BY DEF ChainTyped
<1>2. a[1] \in FeeHandlers \cup HandedOverByRole
  BY DEF Administered, FeeHandlers, HandedOverByRole
<1>3. /\ a[1] = "FeeHandlerRouter" => c[a] \in RouterStorage
      /\ a[1] = "DefaultMessageReceiver" => c[a] \in ReceiverStorage
      /\ a[1] \in FeeHandlers => c[a] \in FeeHandlerStorage(a[1])
  BY <1>1 DEF HasType
<1>4. "admins" \in DOMAIN c[a] /\ c[a].admins \subseteq Admins(a[1])
  BY <1>2, <1>3 DEF RouterStorage, ReceiverStorage, FeeHandlerStorage, HandedOverByRole
<1>5. a[1] \notin Resources
  BY KindsDiffer DEF Administered, Kinds
<1>6. a[1] \notin TokenHandlers \cup {"GmpHandler", "Bridge", "AccessControlSegregator"}
  BY DEF Administered, TokenHandlers
<1> QED
  BY <1>1, <1>2, <1>3, <1>4, <1>5, <1>6, NoneIsNoAddress

\* The administrators a transaction leaves a contract with.
AdminsAfter(c, t, a) ==
    IF t.to # a THEN c[a].admins
    ELSE CASE t.tx = "renounceAdmin" -> (c[a].admins \cup {t.account}) \ {Deployer}
           [] t.tx = "grantAdmin" -> c[a].admins \cup {t.account}
           [] t.tx = "renounceRole" -> c[a].admins \ {Deployer}
           [] OTHER -> c[a].admins

LEMMA OthersUntouched ==
    ASSUME NEW c, ChainTyped(c), NEW a \in DOMAIN c, a[1] \in Administered,
           NEW t \in ResourceSettings \cup BurnableSettings \cup FeeHandlerChanges \cup KeygenEnds
               \cup MinterGrants \cup Mints \cup AccessGrants \cup Deployments
    PROVE  /\ After(c, t)[a] = c[a]
           /\ t.tx \notin {"renounceAdmin", "grantAdmin", "renounceRole"}
<1> USE AdministeredTyped
<1>1. a # None /\ a \in DOMAIN c
  OBVIOUS
<1>2. CASE t \in ResourceSettings
  <2>1. t.tx = "adminSetResource" /\ t.to # a /\ t.handler # a
    BY <1>2, KindsDiffer, OneKind DEF ResourceSettings, OrNone, AddressesOf
  <2> QED
    BY <2>1 DEF After
<1>3. CASE t \in BurnableSettings
  <2>1. t.tx = "adminSetBurnable" /\ t.handler # a
    BY <1>3 DEF BurnableSettings
  <2> QED
    BY <2>1 DEF After
<1>4. CASE t \in FeeHandlerChanges
  <2>1. t.tx = "adminChangeFeeHandler" /\ t.to # a
    BY <1>4 DEF FeeHandlerChanges, AddressesOf
  <2> QED
    BY <2>1 DEF After
<1>5. CASE t \in KeygenEnds
  <2>1. t.tx = "endKeygen" /\ t.to # a
    BY <1>5 DEF KeygenEnds, AddressesOf
  <2> QED
    BY <2>1 DEF After
<1>6. CASE t \in MinterGrants
  <2>1. t.tx = "grantMinter" /\ t.to # a
    BY <1>6, KindsDiffer DEF MinterGrants
  <2> QED
    BY <2>1 DEF After
<1>7. CASE t \in Mints
  <2>1. t.tx = "mint"
    BY <1>7 DEF Mints
  <2> QED
    BY <2>1 DEF After
<1>8. CASE t \in AccessGrants
  <2>1. t.tx = "grantAccess" /\ t.to # a
    BY <1>8 DEF AccessGrants, GrantAccess, OrNone, AddressesOf
  <2> QED
    BY <2>1 DEF After
<1>9. CASE t \in Deployments
  <2>1. t.tx = "deploy"
    BY <1>9, DeployedTyped
  <2> QED
    BY <2>1 DEF After, Deployed
<1> QED
  BY <1>2, <1>3, <1>4, <1>5, <1>6, <1>7, <1>8, <1>9

LEMMA AdminsAfterwards ==
    ASSUME NEW c, ChainTyped(c), NEW a \in DOMAIN c, a[1] \in Administered,
           NEW t \in Transactions, t # Throw
    PROVE  After(c, t)[a].admins = AdminsAfter(c, t, a)
<1> USE AdministeredTyped
<1>1. CASE t \in ResourceSettings \cup BurnableSettings \cup FeeHandlerChanges \cup KeygenEnds
               \cup MinterGrants \cup Mints \cup AccessGrants \cup Deployments
  BY <1>1, OthersUntouched DEF AdminsAfter
<1>2. CASE t \in SygmaHandlerGrants
  <2>1. t.tx = "grantSygmaHandler"
    BY <1>2 DEF SygmaHandlerGrants
  <2> QED
    BY <2>1 DEF After, AdminsAfter
<1>3. CASE t \in RouteSettings
  <2>1. t.tx = "adminSetResourceHandler"
    BY <1>3 DEF RouteSettings
  <2> QED
    BY <2>1 DEF After, AdminsAfter
<1>4. CASE t \in FeeChanges
  <2>1. t.tx = "changeFee"
    BY <1>4 DEF FeeChanges
  <2> QED
    BY <2>1 DEF After, AdminsAfter
<1>5. CASE t \in AdminRenunciations
  <2>1. t.tx = "renounceAdmin"
    BY <1>5 DEF AdminRenunciations
  <2> QED
    BY <2>1 DEF After, AdminsAfter
<1>6. CASE t \in AdminGrants
  <2>1. t.tx = "grantAdmin"
    BY <1>6 DEF AdminGrants
  <2> QED
    BY <2>1 DEF After, AdminsAfter
<1>7. CASE t \in RoleRenunciations
  <2>1. t.tx = "renounceRole"
    BY <1>7 DEF RoleRenunciations
  <2> QED
    BY <2>1 DEF After, AdminsAfter
<1> QED
  BY <1>1, <1>2, <1>3, <1>4, <1>5, <1>6, <1>7 DEF Transactions, Calls, Settings, Handovers

\* A renounced role has another holder, if only because it was granted before.
Safe(c, t) == t.tx = "renounceRole" /\ t.to \in DOMAIN c => Granted(c, t.to)

LEMMA HandoverAccount ==
    ASSUME NEW t \in Transactions, t # Throw, t.to # None
    PROVE  /\ t.tx \in {"renounceAdmin", "grantAdmin"} => t.account = AdminOf(t.to[1])
           /\ t.tx = "renounceRole" => AdminOf(t.to[1]) # Deployer
           /\ t.tx \in {"renounceAdmin", "grantAdmin", "renounceRole"} => t.to[1] \in Administered
           /\ t.tx \in {"renounceAdmin", "grantAdmin", "renounceRole", "grantAccess"}
                => t \in Handovers
<1>1. CASE t \in Deployments
  BY <1>1, DeployedTyped
<1>2. CASE t \in Settings
  <2>1. t.tx \notin {"renounceAdmin", "grantAdmin", "renounceRole", "grantAccess"}
    BY <1>2 DEF Settings, ResourceSettings, BurnableSettings, FeeHandlerChanges, KeygenEnds,
      MinterGrants, Mints, SygmaHandlerGrants, RouteSettings, FeeChanges
  <2> QED
    BY <2>1
<1>3. CASE t \in AdminRenunciations
  BY <1>3 DEF AdminRenunciations, AnyFeeHandler, FeeHandlers, OrNone, AddressesOf, Administered,
    Handovers
<1>4. CASE t \in AdminGrants
  BY <1>4 DEF AdminGrants, HandedOverByRole, OrNone, AddressesOf, Administered, Handovers
<1>5. CASE t \in RoleRenunciations
  BY <1>5 DEF RoleRenunciations, HandedOverByRole, OrNone, AddressesOf, Administered, Handovers
<1>6. CASE t \in AccessGrants
  BY <1>6 DEF AccessGrants, GrantAccess, Handovers
<1> QED
  BY <1>1, <1>2, <1>3, <1>4, <1>5, <1>6 DEF Transactions, Calls, Handovers

LEMMA RolesAfter ==
    ASSUME NEW c, ChainTyped(c), NEW a \in DOMAIN c, a[1] \in Administered,
           NEW t \in Transactions, t # Throw, Accepted(c, t), c[a].admins # {}, Safe(c, t)
    PROVE  /\ a \in DOMAIN After(c, t)
           /\ AdminOf(a[1]) # Deployer /\ Granted(c, a) => Granted(After(c, t), a)
           /\ After(c, t)[a].admins # {}
           /\ RoleGiven(c, a) => RoleGiven(After(c, t), a)
           /\ t \in {RenounceAdmin(a, AdminOf(a[1])), RenounceRole(a)} => RoleGiven(After(c, t), a)
           /\ t = GrantAdmin(a, AdminOf(a[1])) => Granted(After(c, t), a)
<1>1. After(c, t)[a].admins = AdminsAfter(c, t, a)
  BY AdminsAfterwards
<1>2. a \in DOMAIN After(c, t)
  BY TransactionTyped
<1>3. a # None
  BY AdministeredTyped
<1>4. t.to = a => /\ t.tx \in {"renounceAdmin", "grantAdmin"} => t.account = AdminOf(a[1])
                  /\ t.tx = "renounceRole" => AdminOf(a[1]) # Deployer
  BY <1>3, HandoverAccount
<1>5. t.to = a /\ t.tx = "renounceRole" => Granted(c, a)
  BY DEF Safe
<1>6. t.tx = "renounceAdmin" => t.account # Deployer
  BY DEF Accepted
<1>7. AdminOf(a[1]) # Deployer /\ Granted(c, a) => Granted(After(c, t), a)
  BY <1>1 DEF AdminsAfter, Granted
<1>8. After(c, t)[a].admins # {}
  <2>1. CASE t.to # a
    BY <1>1, <2>1 DEF AdminsAfter
  <2>2. CASE t.to = a /\ t.tx = "renounceAdmin"
    BY <1>1, <1>6, <2>2 DEF AdminsAfter
  <2>3. CASE t.to = a /\ t.tx = "renounceRole"
    BY <1>1, <1>4, <1>5, <2>3 DEF AdminsAfter, Granted
  <2>4. CASE t.to = a /\ t.tx \notin {"renounceRole", "renounceAdmin"}
    BY <1>1, <2>4 DEF AdminsAfter
  <2> QED
    BY <2>1, <2>2, <2>3, <2>4
<1>9. RoleGiven(c, a) => RoleGiven(After(c, t), a)
  BY <1>1, <1>4 DEF AdminsAfter, RoleGiven
<1>10. t \in {RenounceAdmin(a, AdminOf(a[1])), RenounceRole(a)} => RoleGiven(After(c, t), a)
  BY <1>1 DEF AdminsAfter, RoleGiven, RenounceAdmin, RenounceRole
<1>11. t = GrantAdmin(a, AdminOf(a[1])) => Granted(After(c, t), a)
  BY <1>1 DEF AdminsAfter, Granted, GrantAdmin
<1> QED
  BY <1>2, <1>7, <1>8, <1>9, <1>10, <1>11

LEMMA NewAdministered ==
    ASSUME NEW c, ChainTyped(c), NEW t \in Transactions, t # Throw,
           NEW a \in DOMAIN After(c, t), a \notin DOMAIN c, a[1] \in Administered
    PROVE  After(c, t)[a].admins = {Deployer}
<1>1. t.tx = "deploy" /\ a = t.to
  BY TransactionTyped
<1>2. t \in Deployments
  <2>1. t \notin Settings /\ t \notin Handovers
    BY <1>1, HandoverDeploysNothing, LoopStepsDeployTokens DEF Settings, ResourceSettings,
      BurnableSettings, FeeHandlerChanges, KeygenEnds, MinterGrants, Mints, SygmaHandlerGrants,
      RouteSettings, FeeChanges
  <2> QED
    BY <2>1 DEF Transactions, Calls
<1>3. After(c, t)[a] = t.contract
  BY <1>1 DEF After, Deployed
<1>4. a[1] \notin Plain \cup TokenHandlers \cup {"GmpHandler", "Bridge", "AccessControlSegregator"}
      /\ a[1] \notin Resources
  BY KindsDiffer DEF Administered, Kinds, Plain, TokenHandlers
<1>5. t.contract \in {NewReceiver, NewFeeHandler} \cup {NewRouter(b) : b \in AddressesOf("Bridge")}
  BY <1>1, <1>2, <1>4, KindsDiffer DEF Deployments, Deploy, AddressesOf, HandlerAddresses
<1> QED
  BY <1>3, <1>5 DEF NewReceiver, NewFeeHandler, NewRouter

FunctionGiven(c, a, entry) == entry.function \in DOMAIN c[a] /\ c[a][entry.function] = entry.account

LEMMA FunctionsAfter ==
    ASSUME NEW c, ChainTyped(c), NEW a \in DOMAIN c, a[1] = "AccessControlSegregator",
           Network.access # None, NEW entry \in Entries(Network.access.accessControl),
           NEW t \in Transactions, t # Throw
    PROVE  /\ FunctionGiven(c, a, entry) => FunctionGiven(After(c, t), a, entry)
           /\ t = GrantAccess(a, entry.function, entry.account)
                => FunctionGiven(After(c, t), a, entry)
<1>1. CASE t \in AccessGrants
  <2>1. PICK e \in Entries(Network.access.accessControl) :
            t.function = e.function /\ t.account = e.account /\ t.tx = "grantAccess"
    BY <1>1 DEF AccessGrants, GrantAccess
  <2>2. After(c, t) = [c EXCEPT ![t.to] = With(@, t.function, t.account)]
    BY <2>1 DEF After
  <2>3. CASE t.to = a
    <3>1. After(c, t)[a] = With(c[a], e.function, e.account)
      BY <2>1, <2>2, <2>3
    <3>2. e.function = entry.function => e = entry
      BY NetworkAssumption
    <3> QED
      BY <3>1, <3>2, <2>1 DEF FunctionGiven, With, GrantAccess
  <2>4. CASE t.to # a
    BY <2>2, <2>4 DEF FunctionGiven, GrantAccess
  <2> QED
    BY <2>3, <2>4
<1>2. CASE t \notin AccessGrants
  <2>1. t # GrantAccess(a, entry.function, entry.account)
    <3>1. a \in OrNone("AccessControlSegregator")
      BY DEF ChainTyped, OrNone, AddressesOf, Addresses
    <3> QED
      BY <3>1, <1>2 DEF AccessGrants
  <2>2. After(c, t)[a] = c[a]
    <3>1. a \notin Tokens /\ a # None /\ a[1] \notin TokenHandlers \cup {"GmpHandler"}
          /\ a[1] \notin FeeHandlers /\ a[1] \notin HandedOverByRole
      BY KindsDiffer, NoneIsNoAddress
      DEF Kinds, TokenHandlers, FeeHandlers, HandedOverByRole, ChainTyped
    <3>2. CASE t \in Deployments
      <4>1. t.tx = "deploy"
        BY <3>2, DeployedTyped
      <4> QED
        BY <4>1 DEF After, Deployed
    <3>3. CASE t \in ResourceSettings
      <4>1. t.tx = "adminSetResource" /\ t.to # a /\ t.handler # a
        BY <3>1, <3>3, KindsDiffer DEF ResourceSettings, OrNone, AddressesOf
      <4> QED
        BY <4>1 DEF After
    <3>4. CASE t \in BurnableSettings
      <4>1. t.tx = "adminSetBurnable" /\ t.handler # a
        BY <3>1, <3>4 DEF BurnableSettings
      <4> QED
        BY <4>1 DEF After
    <3>5. CASE t \in FeeHandlerChanges
      <4>1. t.tx = "adminChangeFeeHandler" /\ t.to # a
        BY <3>5 DEF FeeHandlerChanges, AddressesOf
      <4> QED
        BY <4>1 DEF After
    <3>6. CASE t \in KeygenEnds
      <4>1. t.tx = "endKeygen" /\ t.to # a
        BY <3>6 DEF KeygenEnds, AddressesOf
      <4> QED
        BY <4>1 DEF After
    <3>7. CASE t \in MinterGrants
      <4>1. t.tx = "grantMinter" /\ t.to # a
        BY <3>1, <3>7 DEF MinterGrants
      <4> QED
        BY <4>1 DEF After
    <3>8. CASE t \in Mints
      <4>1. t.tx = "mint"
        BY <3>8 DEF Mints
      <4> QED
        BY <4>1 DEF After
    <3>9. CASE t \in SygmaHandlerGrants
      <4>1. t.tx = "grantSygmaHandler" /\ t.to # a
        BY <3>1, <3>9 DEF SygmaHandlerGrants, OrNone, AddressesOf
      <4> QED
        BY <4>1 DEF After
    <3>10. CASE t \in RouteSettings
      <4>1. t.tx = "adminSetResourceHandler" /\ t.to # a
        BY <3>1, <3>10 DEF RouteSettings, OrNone, AddressesOf
      <4> QED
        BY <4>1 DEF After
    <3>11. CASE t \in FeeChanges
      <4>1. t.tx = "changeFee" /\ t.to # a
        BY <3>1, <3>11 DEF FeeChanges, AnyFeeHandler, FeeHandlers, OrNone, AddressesOf
      <4> QED
        BY <4>1 DEF After
    <3>12. CASE t \in AdminRenunciations
      <4>1. t.tx = "renounceAdmin" /\ t.to # a
        BY <3>1, <3>12 DEF AdminRenunciations, AnyFeeHandler, FeeHandlers, OrNone, AddressesOf
      <4> QED
        BY <4>1 DEF After
    <3>13. CASE t \in AdminGrants
      <4>1. t.tx = "grantAdmin" /\ t.to # a
        BY <3>1, <3>13 DEF AdminGrants, HandedOverByRole, OrNone, AddressesOf
      <4> QED
        BY <4>1 DEF After
    <3>14. CASE t \in RoleRenunciations
      <4>1. t.tx = "renounceRole" /\ t.to # a
        BY <3>1, <3>14 DEF RoleRenunciations, HandedOverByRole, OrNone, AddressesOf
      <4> QED
        BY <4>1 DEF After
    <3> QED
      BY <1>2, <3>2, <3>3, <3>4, <3>5, <3>6, <3>7, <3>8, <3>9, <3>10, <3>11, <3>12, <3>13, <3>14
      DEF Transactions, Calls, Settings, Handovers
  <2> QED
    BY <2>1, <2>2 DEF FunctionGiven
<1> QED
  BY <1>1, <1>2

-----------------------------------------------------------------------------
(* The inductive invariant of the migrations. *)

\* What the variables hold.
MTyped ==
    /\ completed \in 0 .. 10
    /\ stops \in Seq(Migrations) /\ Len(stops) <= MaxStops + 1
    /\ ChainTyped(chain)
    /\ Saved(chain, artifacts)
    /\ completed >= 2 => CoreSaved(artifacts) \/ AddressesAreLost
    /\ Running =>
        /\ process = [migration |-> completed + 1, todo |-> process.todo,
                      deployed |-> process.deployed]
        /\ completed + 1 \in Migrations
        /\ process.todo \in Seq(Steps(completed + 1))
        /\ Saved(chain, process.deployed)
        /\ Len(stops) <= MaxStops
        /\ pending = {}
    /\ pending # {} =>
        /\ completed + 1 \in Migrations /\ stops # <<>>
        /\ \E t \in Steps(completed + 1) : pending = {t} /\ CanSend(t)

\* Migration 2 deploys all the contracts that the next ones read.
CoreToCome ==
    Running /\ completed + 1 >= 2 /\ ~AddressesAreLost => \A kind \in Core :
        \/ process.deployed[kind] # None
        \/ /\ completed + 1 = 2
           /\ \E i \in DOMAIN process.todo :
                process.todo[i].tx = "deploy" /\ process.todo[i].to[1] = kind

\* A migration changes the addresses of its own contracts only; the Bridge's is
\* not known before it is saved, and once it is lost nothing is sent.
SavedInTurn ==
    /\ completed < 2 => artifacts["Bridge"] = None
    /\ Running => \A kind \in Kinds :
        process.deployed[kind] = artifacts[kind] \/ kind \in Own(completed + 1)
    /\ AddressesAreLost =>
        /\ pending = {}
        /\ Running =>
            /\ process.deployed = artifacts
            /\ process.todo \in {<<>>, <<Throw>>}
            /\ completed = 4 => process.todo # <<>>

LEMMA TailOf ==
    ASSUME NEW T, NEW s \in Seq(T), s # <<>>
    PROVE  /\ Head(s) \in T /\ Tail(s) \in Seq(T)
           /\ \A i \in DOMAIN Tail(s) : i + 1 \in DOMAIN s /\ i \in Nat /\ Tail(s)[i] = s[i + 1]
           /\ \A i \in DOMAIN s : \/ i = 1 /\ s[i] = Head(s)
                                  \/ i - 1 \in DOMAIN Tail(s) /\ Tail(s)[i - 1] = s[i]
           /\ 1 \in DOMAIN s /\ s[1] = Head(s)
<1>1. /\ Len(s) \in Nat /\ Len(s) >= 1 /\ DOMAIN s = 1 .. Len(s)
      /\ Head(s) = s[1] /\ Head(s) \in T /\ Tail(s) \in Seq(T)
      /\ DOMAIN Tail(s) = 1 .. Len(s) - 1
      /\ \A i \in 1 .. Len(s) - 1 : Tail(s)[i] = s[i + 1]
  OBVIOUS
<1>2. \A i \in DOMAIN Tail(s) : i + 1 \in DOMAIN s /\ i \in Nat /\ Tail(s)[i] = s[i + 1]
  BY <1>1
<1>3. ASSUME NEW i \in DOMAIN s, i # 1
      PROVE  i - 1 \in DOMAIN Tail(s) /\ Tail(s)[i - 1] = s[i]
  <2>1. i - 1 \in 1 .. Len(s) - 1 /\ i = (i - 1) + 1
    BY <1>1, <1>3
  <2>2. PICK j \in 1 .. Len(s) - 1 : i = j + 1
    BY <2>1
  <2>3. Tail(s)[j] = s[i]
    BY <1>1, <2>2, Zenon
  <2>4. i - 1 = j
    BY <1>1, <2>2
  <2> QED
    BY <1>1, <2>2, <2>3, <2>4
<1> QED
  BY <1>1, <1>2, <1>3

LEMMA NewKinds ==
    ASSUME NEW t \in Transactions, IsNew(t)
    PROVE  t \in Deployments /\ t.to \in AddressesOf(t.to[1]) /\ t.to[1] # "XC20Handler"
<1>1. t \in Deployments
  BY LoopStepsDeployTokens, HandoverDeploysNothing DEF Transactions, Calls, LoopSteps, IsNew
<1>2. t.to \in Addresses
  BY <1>1, DeployedTyped
<1>3. t.to[1] # "XC20Handler"
  <2>1. t.to \in (Plain \X Nat) \cup AddressesOf("AccessControlSegregator") \cup AddressesOf("Bridge")
            \cup HandlerAddresses \cup Tokens \cup AddressesOf("DefaultMessageReceiver")
            \cup AddressesOf("FeeHandlerRouter") \cup (FeeHandlers \X Nat)
    BY <1>1 DEF Deployments, Deploy
  <2>2. t.to \notin Tokens
    BY KindsDiffer DEF IsNew
  <2> QED
    BY <2>1, <2>2 DEF Plain, AddressesOf, HandlerAddresses, TokenHandlers, FeeHandlers
<1> QED
  BY <1>1, <1>2, <1>3 DEF Addresses, AddressesOf

LEMMA SavingTyped ==
    ASSUME NEW c, ChainTyped(c), NEW d, Saved(c, d), NEW t \in Transactions, t # Throw
    PROVE  /\ Saved(After(c, t), d)
           /\ Saved(After(c, t), Saving(d, t))
           /\ \A kind \in Kinds : Saving(d, t)[kind] =
                IF IsNew(t) /\ t.to[1] = kind THEN t.to ELSE d[kind]
<1>1. DOMAIN c \subseteq DOMAIN After(c, t)
  BY TransactionTyped
<1>2. Saved(After(c, t), d)
  BY <1>1 DEF Saved
<1>3. CASE IsNew(t)
  <2>1. t.to \in AddressesOf(t.to[1]) /\ t.to[1] # "XC20Handler" /\ t.tx = "deploy"
        /\ t.to[1] \in Kinds
    BY <1>3, NewKinds DEF IsNew
  <2>2. t.to \in DOMAIN After(c, t)
    BY <2>1, TransactionTyped
  <2>3. Saving(d, t) = [d EXCEPT ![t.to[1]] = t.to]
    BY <2>1 DEF Saving
  <2>4. d = [kind \in Kinds |-> d[kind]]
    BY DEF Saved
  <2>5. \A kind \in Kinds : Saving(d, t)[kind] = IF t.to[1] = kind THEN t.to ELSE d[kind]
    BY <2>3, <2>4
  <2>6. Saving(d, t) = [kind \in Kinds |-> Saving(d, t)[kind]]
    BY <2>3, <2>4
  <2>7. "XC20Handler" \in Kinds
    BY DEF Kinds
  <2>8. Saved(After(c, t), Saving(d, t))
    BY <1>2, <2>1, <2>2, <2>5, <2>6, <2>7 DEF Saved
  <2> QED
    BY <1>2, <1>3, <2>5, <2>8
<1>4. CASE ~IsNew(t)
  <2>1. Saving(d, t) = d
    BY <1>4 DEF Saving, IsNew
  <2> QED
    BY <1>2, <1>4, <2>1
<1> QED
  BY <1>3, <1>4

LEMMA MTypedInit == MInit => MTyped /\ CoreToCome /\ SavedInTurn
<1> SUFFICES ASSUME MInit
    PROVE  MTyped /\ CoreToCome /\ SavedInTurn
  OBVIOUS
<1> USE DEF MInit
<1>1. ChainTyped(chain)
  <2>1. DOMAIN chain \subseteq Tokens /\ IsFiniteSet(DOMAIN chain)
    BY NetworkAssumption DEF Tokens
  <2>2. chain = [a \in DOMAIN chain |-> chain[a]]
    BY NetworkAssumption
  <2>3. \A a \in DOMAIN chain : HasType(a, chain[a])
    BY <2>1, NetworkAssumption, KindsDiffer DEF HasType, TokenHandlers, FeeHandlers, Kinds
  <2> QED
    BY <2>1, <2>2, <2>3, KindsDiffer DEF ChainTyped
<1>2. Saved(chain, artifacts)
  BY DEF Saved, Kinds
<1>3. stops \in Seq(Migrations) /\ Len(stops) <= MaxStops + 1
  BY BoundAssumption
<1>4. "Bridge" \in Kinds
  BY DEF Kinds
<1> QED
  BY <1>1, <1>2, <1>3, <1>4 DEF MTyped, CoreToCome, SavedInTurn, AddressesAreLost, Running

LEMMA BeginTyped ==
    ASSUME MTyped, SavedInTurn, Begin
    PROVE  /\ MTyped' /\ CoreToCome' /\ SavedInTurn'
           /\ WellScripted(completed + 1, process'.todo) /\ GrantsFirst(process'.todo)
<1> USE DEF Begin
<1>1. completed + 1 \in Migrations /\ completed \in Nat /\ completed + 1 \in Nat
  BY DEF MTyped
<1>2. /\ ChainTyped(chain) /\ Saved(chain, artifacts)
      /\ completed + 1 > 2 => CoreSaved(artifacts) \/ AddressesAreLost
      /\ completed + 1 > 5 => CoreSaved(artifacts)
  BY <1>1 DEF MTyped, AddressesAreLost
<1> DEFINE s == Script(completed + 1, chain, artifacts)
<1>3. WellScripted(completed + 1, s) /\ GrantsFirst(s)
  BY <1>1, <1>2, ScriptTyped
<1>4. /\ process' = [migration |-> completed + 1, todo |-> s, deployed |-> artifacts]
      /\ process'.todo = s /\ process'.deployed = artifacts
  OBVIOUS
<1>7. AddressesAreLost' <=> AddressesAreLost
  BY DEF AddressesAreLost
<1>8. SavedInTurn'
  <2>1. ASSUME AddressesAreLost
        PROVE  s \in {<<>>, <<Throw>>} /\ (completed = 4 => s # <<>>)
    <3>1. completed + 1 \in 3 .. 5 /\ artifacts["Bridge"] = None
      BY <2>1 DEF AddressesAreLost
    <3> HIDE DEF s
    <3> QED
      BY <3>1, ScriptsWithoutBridge DEF s
  <2> HIDE DEF s
  <2> QED
    BY <1>4, <1>7, <2>1 DEF SavedInTurn
<1>5. CASE completed + 1 = 2
  <2>1. s = DeployContracts(chain, artifacts)
    BY <1>5 DEF Script
  <2>2. \A kind \in Core : \E i \in DOMAIN s : s[i].tx = "deploy" /\ s[i].to = Fresh(chain, kind)
    BY <1>2, <2>1, DeployContractsTyped
  <2>3. \A kind \in Core : Fresh(chain, kind)[1] = kind
    BY DEF Fresh, Address
  <2> HIDE DEF s
  <2>4. \A kind \in Core : \E i \in DOMAIN process'.todo :
            process'.todo[i].tx = "deploy" /\ process'.todo[i].to[1] = kind
    BY <2>2, <2>3, <1>4
  <2> QED
    BY <2>4, <1>5, <1>3, <1>4, <1>2, <1>7, <1>8 DEF CoreToCome, MTyped, WellScripted
<1>6. CASE completed + 1 # 2
  <2> HIDE DEF s
  <2> QED
    BY <1>1, <1>3, <1>4, <1>6, <1>2, <1>7, <1>8 DEF CoreToCome, CoreSaved, MTyped, WellScripted
<1> QED
  BY <1>5, <1>6

LEMMA NewIsOwn ==
    ASSUME NEW m \in Migrations, NEW t \in Steps(m), IsNew(t)
    PROVE  t.to[1] \in Own(m) /\ t.to[1] \in Kinds /\ t.tx = "deploy"
BY LoopStepsDeployTokens, HandoverDeploysNothing DEF Steps, IsNew, LoopSteps

LEMMA SentTyped ==
    ASSUME MTyped, NEW t \in Steps(completed + 1), completed + 1 \in Migrations, CanSend(t)
    PROVE  /\ t \in Transactions /\ t # Throw /\ Accepted(chain, t)
           /\ ChainTyped(After(chain, t)) /\ DOMAIN chain \subseteq DOMAIN After(chain, t)
           /\ Saved(After(chain, t), artifacts)
<1>1. t \in Transactions /\ t # Throw /\ Accepted(chain, t)
  BY StepsTyped DEF CanSend
<1>2. ChainTyped(chain) /\ Saved(chain, artifacts)
  BY DEF MTyped
<1>3. ChainTyped(After(chain, t)) /\ DOMAIN chain \subseteq DOMAIN After(chain, t)
  BY <1>1, <1>2, TransactionTyped
<1>4. Saved(After(chain, t), artifacts)
  BY <1>1, <1>2, SavingTyped
<1> QED
  BY <1>1, <1>3, <1>4

\* The next transaction of a script.
Next1 == Head(process.todo)

\* Without the Bridge's address no transaction is sent, or was.
LEMMA LostSendsNothing ==
    ASSUME SavedInTurn, AddressesAreLost
    PROVE  ~Confirm /\ ~TimeOut /\ ~Settle
<1>1. ASSUME Confirm \/ TimeOut
      PROVE  FALSE
  <2>1. Running /\ process.todo # <<>> /\ CanSend(Head(process.todo))
    BY <1>1 DEF Confirm, TimeOut
  <2>2. Head(process.todo) = Throw
    BY <2>1 DEF SavedInTurn
  <2> QED
    BY <2>1, <2>2 DEF CanSend
<1> QED
  BY <1>1 DEF SavedInTurn, Settle

LEMMA ConfirmTyped ==
    ASSUME MTyped, CoreToCome, SavedInTurn, Confirm
    PROVE  /\ MTyped' /\ CoreToCome' /\ SavedInTurn' /\ Running'
           /\ completed >= 2 => CoreSaved(artifacts)
           /\ process.todo \in Seq(Steps(completed + 1)) /\ process.todo # <<>>
           /\ process.todo \in Seq(Transactions)
           /\ Next1 \in Steps(completed + 1) /\ completed + 1 \in Migrations /\ CanSend(Next1)
           /\ chain' = After(chain, Next1)
           /\ process'.todo = Tail(process.todo)
           /\ process'.migration = completed + 1
           /\ process'.deployed = Saving(process.deployed, Next1)
           /\ \A kind \in Kinds : process'.deployed[kind] =
                IF IsNew(Next1) /\ Next1.to[1] = kind THEN Next1.to ELSE process.deployed[kind]
<1> DEFINE t == Next1
<1>1. /\ Running /\ process.todo # <<>> /\ CanSend(t) /\ chain' = After(chain, t)
      /\ process' = [process EXCEPT !.todo = Tail(@), !.deployed = Saving(@, t)]
      /\ completed' = completed /\ artifacts' = artifacts /\ pending' = pending
      /\ stops' = stops
  BY DEF Confirm, Next1
<1>2. /\ process = [migration |-> completed + 1, todo |-> process.todo,
                    deployed |-> process.deployed]
      /\ completed + 1 \in Migrations /\ completed \in Nat
      /\ process.todo \in Seq(Steps(completed + 1))
      /\ ChainTyped(chain) /\ Saved(chain, process.deployed)
  BY <1>1 DEF MTyped
<1>3. t \in Steps(completed + 1) /\ Tail(process.todo) \in Seq(Steps(completed + 1))
  BY <1>1, <1>2, TailOf DEF Next1
<1>4. process' = [migration |-> completed + 1, todo |-> Tail(process.todo),
                  deployed |-> Saving(process.deployed, t)]
  <2>1. PICK s, d : process = [migration |-> completed + 1, todo |-> s, deployed |-> d]
    BY <1>2
  <2>2. process.todo = s /\ process.deployed = d
    BY <2>1
  <2> QED
    BY <1>1, <2>1, <2>2
<1>5. /\ process'.todo = Tail(process.todo) /\ process'.deployed = Saving(process.deployed, t)
      /\ process'.migration = completed + 1
      /\ process' = [migration |-> completed + 1, todo |-> process'.todo,
                     deployed |-> process'.deployed]
  BY <1>4
<1>6. /\ t \in Transactions /\ t # Throw /\ ChainTyped(chain')
      /\ Saved(chain', artifacts)
  BY <1>1, <1>2, <1>3, SentTyped
<1>7. /\ Saved(chain', process'.deployed)
      /\ \A kind \in Kinds : process'.deployed[kind] =
                IF IsNew(t) /\ t.to[1] = kind THEN t.to ELSE process.deployed[kind]
  BY <1>1, <1>2, <1>5, <1>6, SavingTyped
<1>12. ~AddressesAreLost /\ ~AddressesAreLost' /\ (completed >= 2 => CoreSaved(artifacts))
  <2>1. ~AddressesAreLost
    BY LostSendsNothing
  <2> QED
    BY <1>1, <2>1 DEF AddressesAreLost, MTyped
<1>13. SavedInTurn'
  <2>1. IsNew(t) => t.to[1] \in Own(completed + 1)
    BY <1>2, <1>3, NewIsOwn
  <2> QED
    BY <1>1, <1>7, <1>12, <2>1 DEF SavedInTurn
<1>8. MTyped'
  BY <1>1, <1>2, <1>3, <1>5, <1>6, <1>7, <1>12 DEF MTyped, CoreSaved, Running
<1>9. CoreToCome'
  <2> SUFFICES ASSUME completed + 1 >= 2, NEW kind \in Core
      PROVE  \/ process'.deployed[kind] # None
             \/ /\ completed + 1 = 2
                /\ \E i \in DOMAIN process'.todo :
                     process'.todo[i].tx = "deploy" /\ process'.todo[i].to[1] = kind
    BY <1>1 DEF CoreToCome
  <2>4. \/ process.deployed[kind] # None
        \/ /\ completed + 1 = 2
           /\ \E i \in DOMAIN process.todo :
                process.todo[i].tx = "deploy" /\ process.todo[i].to[1] = kind
    BY <1>1, <1>12 DEF CoreToCome
  <2>1. kind \in Kinds
    BY DEF Core, Kinds
  <2>2. CASE process.deployed[kind] # None
    <3>1. IsNew(t) => t.to # None
      BY <1>6, NewKinds, NoneIsNoAddress DEF IsNew
    <3> QED
      BY <2>1, <2>2, <3>1, <1>7
  <2>3. CASE process.deployed[kind] = None
    <3>1. completed + 1 = 2
      BY <2>3, <2>4
    <3>2. PICK i \in DOMAIN process.todo :
              process.todo[i].tx = "deploy" /\ process.todo[i].to[1] = kind
      BY <2>3, <2>4
    <3>3. CASE process.todo[i] = t
      <4>1. IsNew(t) /\ t.to[1] = kind
        BY <3>2, <3>3, <2>1, Zenon DEF IsNew
      <4>2. t.to # None
        BY <4>1, <1>6, NewKinds, NoneIsNoAddress DEF IsNew
      <4> QED
        BY <2>1, <4>1, <4>2, <1>7
    <3>4. CASE process.todo[i] # t
      <4>1. i - 1 \in DOMAIN Tail(process.todo) /\ Tail(process.todo)[i - 1] = process.todo[i]
        BY <1>1, <1>2, <3>4, TailOf DEF Next1
      <4>2. PICK j \in DOMAIN Tail(process.todo) : Tail(process.todo)[j] = process.todo[i]
        BY <4>1
      <4>3. Tail(process.todo)[j].tx = "deploy" /\ Tail(process.todo)[j].to[1] = kind
        BY <3>2, <4>2, Zenon
      <4> QED
        BY <3>1, <4>3, <1>5
    <3> QED
      BY <3>3, <3>4
  <2> QED
    BY <2>2, <2>3
<1>10. process.todo \in Seq(Transactions)
  BY <1>2, StepsTyped
<1>11. Running'
  <2>1. Idle.migration = 0 /\ completed + 1 # 0
    BY <1>2 DEF Idle
  <2> QED
    BY <2>1, <1>5 DEF Running
<1> HIDE DEF t
<1> QED
  BY <1>1, <1>2, <1>3, <1>5, <1>7, <1>8, <1>9, <1>10, <1>11, <1>12, <1>13 DEF t

LEMMA CompleteTyped ==
    ASSUME MTyped, CoreToCome, SavedInTurn, Complete
    PROVE  /\ MTyped' /\ CoreToCome' /\ SavedInTurn'
           /\ ~AddressesAreLost /\ completed + 1 >= 2 => CoreSaved(process.deployed)
<1> USE DEF Complete
<1>1. /\ completed + 1 \in Migrations /\ completed \in Nat /\ completed' = completed + 1
      /\ Saved(chain, process.deployed) /\ pending = {} /\ process.migration = completed + 1
  <2>1. process = [migration |-> completed + 1, todo |-> process.todo,
                      deployed |-> process.deployed]
    BY DEF MTyped
  <2> QED
    BY <2>1 DEF MTyped
<1>2. ~AddressesAreLost /\ completed + 1 >= 2 => CoreSaved(process.deployed)
  BY <1>1 DEF CoreToCome, CoreSaved
<1>3. ~Running'
  BY DEF Running
<1>4. AddressesAreLost => AddressesAreLost'
  <2>1. AddressesAreLost => process.deployed = artifacts /\ completed # 4
    BY DEF SavedInTurn
  <2> QED
    BY <1>1, <2>1 DEF AddressesAreLost
<1>5. SavedInTurn'
  <2>1. completed + 1 = 1 => "Bridge" \in Kinds /\ "Bridge" \notin Own(completed + 1)
    BY DEF Kinds, Own
  <2> QED
    BY <1>1, <1>3, <2>1 DEF SavedInTurn
<1> QED
  BY <1>1, <1>2, <1>3, <1>4, <1>5 DEF MTyped, CoreToCome, Migrations, CoreSaved

\* What is completed and not saved leaves everything else as it is.
LEMMA UnsavedTyped ==
    ASSUME MTyped, CoreToCome, SavedInTurn, StopUnsaved
    PROVE  /\ MTyped' /\ CoreToCome' /\ SavedInTurn' /\ Running /\ ~Running'
           /\ completed + 1 \in Migrations /\ completed \in Nat /\ process.todo = <<>>
           /\ stops' = Append(stops, completed + 1) /\ stops \in Seq(Migrations) /\ stops' # <<>>
           /\ pending = {} /\ pending' = {} /\ UNCHANGED <<chain, artifacts>>
           /\ completed' = IF completed = 0 THEN 0 ELSE completed + 1
<1>1. /\ completed + 1 \in Migrations /\ completed \in Nat /\ process.migration = completed + 1
      /\ pending = {} /\ Running /\ stops \in Seq(Migrations) /\ Len(stops) < MaxStops
      /\ process.todo = <<>> /\ process' = Idle /\ UNCHANGED <<chain, artifacts, pending>>
  <2>1. process = [migration |-> completed + 1, todo |-> process.todo,
                      deployed |-> process.deployed]
    BY DEF MTyped, StopUnsaved
  <2> QED
    BY <2>1 DEF MTyped, StopUnsaved
<1>2. /\ completed' = IF completed = 0 THEN 0 ELSE completed + 1
      /\ stops' = Append(stops, completed + 1)
  BY <1>1 DEF StopUnsaved
<1>3. ~Running'
  BY <1>1 DEF Running
<1>4. stops' \in Seq(Migrations) /\ Len(stops') <= MaxStops + 1 /\ stops' # <<>>
  BY <1>1, <1>2, BoundAssumption
<1>5. completed' \in 0 .. 10
  BY <1>1, <1>2 DEF Migrations
<1>6. completed' >= 2 => CoreSaved(artifacts) \/ AddressesAreLost'
  <2>1. CASE completed = 0
    BY <1>2, <2>1
  <2>2. CASE completed = 1
    BY <1>1, <1>2, <2>2 DEF SavedInTurn, AddressesAreLost
  <2>3. CASE completed >= 2
    <3>1. AddressesAreLost => completed # 4
      BY <1>1 DEF SavedInTurn
    <3> QED
      BY <1>1, <1>2, <2>3, <3>1 DEF MTyped, AddressesAreLost
  <2> QED
    BY <1>1, <2>1, <2>2, <2>3
<1>7. ChainTyped(chain) /\ Saved(chain, artifacts)
  BY DEF MTyped
<1>8. MTyped'
  BY <1>1, <1>3, <1>4, <1>5, <1>6, <1>7 DEF MTyped, CoreSaved
<1>9. CoreToCome' /\ SavedInTurn'
  BY <1>1, <1>2, <1>3 DEF CoreToCome, SavedInTurn
<1> QED
  BY <1>1, <1>2, <1>3, <1>4, <1>8, <1>9

LEMMA StopTyped ==
    ASSUME MTyped, SavedInTurn, Fail \/ Interrupt \/ TimeOut
    PROVE  /\ MTyped' /\ CoreToCome' /\ SavedInTurn' /\ ~Running' /\ stops' # <<>>
           /\ UNCHANGED <<chain, completed, artifacts>>
           /\ \A t \in pending' : TimeOut /\ t = process.todo[1] /\ process.todo # <<>>
                /\ process.todo \in Seq(Transactions) /\ Running
<1>1. /\ Running /\ process' = Idle /\ stops' = Append(stops, process.migration)
      /\ UNCHANGED <<chain, completed, artifacts>>
  BY DEF Fail, Interrupt, TimeOut, Stop
<1>2. ~Running'
  BY <1>1 DEF Running
<1>3. /\ completed + 1 \in Migrations /\ pending = {} /\ process.migration = completed + 1
      /\ process.todo \in Seq(Steps(completed + 1))
      /\ stops \in Seq(Migrations) /\ Len(stops) <= MaxStops
  <2>1. process = [migration |-> completed + 1, todo |-> process.todo,
                      deployed |-> process.deployed]
    BY <1>1 DEF MTyped
  <2> QED
    BY <1>1, <2>1 DEF MTyped
<1>4. stops' \in Seq(Migrations) /\ Len(stops') <= MaxStops + 1 /\ stops' # <<>>
  BY <1>1, <1>3, BoundAssumption
<1>5. \/ pending' = {}
      \/ /\ TimeOut /\ process.todo # <<>> /\ pending' = {Head(process.todo)}
         /\ CanSend(Head(process.todo))
  BY <1>3 DEF Fail, Interrupt, TimeOut
<1>6. pending' # {} => \E t \in Steps(completed + 1) : pending' = {t} /\ CanSend(t)
  BY <1>3, <1>5, TailOf
<1>7. \A t : CanSend(t) <=> CanSend(t)'
  BY <1>1 DEF CanSend
<1>10. AddressesAreLost' <=> AddressesAreLost
  BY <1>1 DEF AddressesAreLost
<1>8. MTyped'
  BY <1>1, <1>2, <1>3, <1>4, <1>6, <1>7, <1>10 DEF MTyped, CoreSaved
<1>9. process.todo \in Seq(Transactions)
  BY <1>3, StepsTyped
<1>11. SavedInTurn'
  BY <1>1, <1>2, <1>5, <1>10, LostSendsNothing DEF SavedInTurn
<1> QED
  BY <1>1, <1>2, <1>3, <1>4, <1>5, <1>8, <1>9, <1>11, TailOf DEF CoreToCome

LEMMA SettleTyped ==
    ASSUME MTyped, CoreToCome, SavedInTurn, Settle
    PROVE  /\ completed >= 2 => CoreSaved(artifacts)
           /\ MTyped' /\ CoreToCome' /\ SavedInTurn' /\ ~Running /\ ~Running' /\ stops # <<>> /\ pending' = {}
           /\ UNCHANGED <<completed, artifacts, process, stops>>
           /\ \E t \in Steps(completed + 1) :
                /\ completed + 1 \in Migrations /\ CanSend(t) /\ pending = {t}
                /\ chain' \in {chain, After(chain, t)}
<1>1. PICK t \in pending : /\ chain' \in {chain, After(chain, t)} /\ pending' = {}
                           /\ UNCHANGED <<completed, artifacts, process, stops>>
  BY DEF Settle
<1>2. /\ completed + 1 \in Migrations /\ stops # <<>> /\ ~Running
      /\ t \in Steps(completed + 1) /\ pending = {t} /\ CanSend(t)
  BY <1>1 DEF MTyped
<1>3. ~Running'
  BY <1>1, <1>2 DEF Running
<1>4. ChainTyped(chain') /\ Saved(chain', artifacts)
  BY <1>1, <1>2, SentTyped DEF MTyped
<1>6. ~AddressesAreLost /\ ~AddressesAreLost' /\ (completed >= 2 => CoreSaved(artifacts))
  <2>1. ~AddressesAreLost
    BY LostSendsNothing
  <2> QED
    BY <1>1, <2>1 DEF AddressesAreLost, MTyped
<1>5. MTyped'
  BY <1>1, <1>3, <1>4, <1>6 DEF MTyped, CoreSaved
<1>7. SavedInTurn'
  BY <1>1, <1>3, <1>6 DEF SavedInTurn
<1> QED
  BY <1>1, <1>2, <1>3, <1>5, <1>6, <1>7 DEF CoreToCome

\* Where the addresses of the last deployments are.
Latest == IF Running THEN process.deployed ELSE artifacts

\* Until a run stops half way, each kind is deployed once, by its migration; but
\* the handler of fungible tokens may be replaced.
FirstRun ==
    stops = <<>> =>
        /\ \A kind \in Kinds : artifacts[kind] # None => \E m \in 1 .. completed : kind \in Own(m)
        /\ \A a \in DOMAIN chain :
            \/ a[1] \notin Kinds
            \/ a[1] = "ERC20Handler" /\ RedeployTokenHandlers
            \/ a = Latest[a[1]]
        /\ Running =>
            /\ OnceEach(process.todo)
            /\ completed + 1 = 7 /\ process.todo # <<>> => RedeployTokenHandlers
            /\ \A kind \in Kinds :
                process.deployed[kind] = artifacts[kind] \/ kind \in Own(completed + 1)
            /\ \A i \in DOMAIN process.todo : IsNew(process.todo[i]) =>
                completed + 1 = 7 \/ process.deployed[process.todo[i].to[1]] = None

LEMMA OwnDiffers ==
    ASSUME NEW m \in Migrations, NEW n \in 1 .. m - 1, NEW kind \in Own(m), kind \in Own(n)
    PROVE  m = 7
BY DEF Migrations, Own, Core

LEMMA TailOnceEach ==
    ASSUME NEW T, NEW s \in Seq(T), s # <<>>, OnceEach(s)
    PROVE  /\ OnceEach(Tail(s))
           /\ \A i \in DOMAIN Tail(s) :
                IsNew(Tail(s)[i]) /\ IsNew(Head(s)) => Tail(s)[i].to[1] # Head(s).to[1]
<1>1. /\ \A i \in DOMAIN Tail(s) : i + 1 \in DOMAIN s /\ i \in Nat /\ Tail(s)[i] = s[i + 1]
      /\ DOMAIN Tail(s) \subseteq Nat \ {0}
      /\ 1 \in DOMAIN s /\ s[1] = Head(s)
  BY TailOf
<1>2. ASSUME NEW i \in DOMAIN Tail(s), NEW j \in DOMAIN Tail(s), IsNew(Tail(s)[i]),
             IsNew(Tail(s)[j]), Tail(s)[i].to[1] = Tail(s)[j].to[1]
      PROVE  i = j
  <2>1. PICK k \in DOMAIN s : k = i + 1 /\ Tail(s)[i] = s[k]
    BY <1>1
  <2>2. PICK l \in DOMAIN s : l = j + 1 /\ Tail(s)[j] = s[l]
    BY <1>1
  <2>3. IsNew(s[k]) /\ IsNew(s[l]) /\ s[k].to[1] = s[l].to[1]
    BY <2>1, <2>2, <1>2, Zenon
  <2>4. k = l
    BY <2>3 DEF OnceEach
  <2> QED
    BY <2>1, <2>2, <2>4, <1>1
<1>3. ASSUME NEW i \in DOMAIN Tail(s), IsNew(Tail(s)[i]), IsNew(Head(s)),
             Tail(s)[i].to[1] = Head(s).to[1]
      PROVE  FALSE
  <2>1. PICK k \in DOMAIN s : k = i + 1 /\ Tail(s)[i] = s[k]
    BY <1>1
  <2>2. IsNew(s[k]) /\ IsNew(s[1]) /\ s[k].to[1] = s[1].to[1]
    BY <2>1, <1>1, <1>3, Zenon
  <2>3. k = 1
    BY <2>2, <1>1 DEF OnceEach
  <2> QED
    BY <2>1, <2>3, <1>1
<1> QED
  BY <1>2, <1>3 DEF OnceEach

LEMMA FirstRunInit == MInit => FirstRun
<1> SUFFICES ASSUME MInit
    PROVE  FirstRun
  OBVIOUS
<1>1. \A a \in DOMAIN chain : a[1] \notin Kinds
  BY NetworkAssumption DEF MInit
<1> QED
  BY <1>1 DEF MInit, FirstRun, Running

LEMMA FirstRunBegin ==
    ASSUME MTyped, SavedInTurn, FirstRun, Begin
    PROVE  FirstRun'
<1>1. /\ WellScripted(completed + 1, process'.todo)
      /\ process'.deployed = artifacts /\ ~Running
      /\ UNCHANGED <<chain, completed, artifacts, stops>>
      /\ completed + 1 \in Migrations /\ completed \in Nat
  BY BeginTyped DEF Begin, MTyped
<1> SUFFICES ASSUME stops = <<>>
    PROVE  FirstRun'
  BY <1>1 DEF FirstRun
<1>2. \A kind \in Kinds : artifacts[kind] # None => \E m \in 1 .. completed : kind \in Own(m)
  BY DEF FirstRun
<1>3. Latest = artifacts /\ (Running' => Latest' = artifacts) /\ (~Running' => Latest' = artifacts)
  BY <1>1 DEF Latest
<1>4. ASSUME NEW i \in DOMAIN process'.todo, IsNew(process'.todo[i]), completed + 1 # 7
      PROVE  artifacts[process'.todo[i].to[1]] = None
  <2>1. process'.todo[i] \in Steps(completed + 1)
    BY <1>1 DEF WellScripted
  <2>2. process'.todo[i].to[1] \in Own(completed + 1) /\ process'.todo[i].to[1] \in Kinds
    BY <1>1, <1>4, <2>1, NewIsOwn
  <2> QED
    BY <1>1, <1>2, <1>4, <2>2, OwnDiffers
<1> QED
  BY <1>1, <1>2, <1>3, <1>4 DEF FirstRun, WellScripted

LEMMA FirstRunConfirm ==
    ASSUME MTyped, CoreToCome, SavedInTurn, FirstRun, Confirm
    PROVE  FirstRun'
<1> DEFINE t == Next1
<1>1. /\ process.todo \in Seq(Steps(completed + 1)) /\ process.todo # <<>>
      /\ t \in Steps(completed + 1) /\ completed + 1 \in Migrations /\ CanSend(t)
      /\ chain' = After(chain, t)
      /\ process'.todo = Tail(process.todo)
      /\ \A kind \in Kinds : process'.deployed[kind] =
            IF IsNew(t) /\ t.to[1] = kind THEN t.to ELSE process.deployed[kind]
  BY ConfirmTyped
<1>2. Running /\ Running' /\ UNCHANGED <<completed, artifacts, stops>>
  BY ConfirmTyped DEF Confirm
<1>3. t = Head(process.todo)
  BY DEF Next1
<1> HIDE DEF t
<1> SUFFICES ASSUME stops = <<>>
    PROVE  FirstRun'
  BY <1>2 DEF FirstRun
<1>4. /\ OnceEach(process.todo)
      /\ completed + 1 = 7 /\ process.todo # <<>> => RedeployTokenHandlers
      /\ \A kind \in Kinds :
            process.deployed[kind] = artifacts[kind] \/ kind \in Own(completed + 1)
      /\ \A i \in DOMAIN process.todo : IsNew(process.todo[i]) =>
            completed + 1 = 7 \/ process.deployed[process.todo[i].to[1]] = None
      /\ \A a \in DOMAIN chain :
            \/ a[1] \notin Kinds
            \/ a[1] = "ERC20Handler" /\ RedeployTokenHandlers
            \/ a = process.deployed[a[1]]
  BY <1>2 DEF FirstRun, Latest
<1>5. t \in Transactions /\ t # Throw /\ ChainTyped(chain)
  BY <1>1, SentTyped DEF MTyped
<1>6. IsNew(t) => /\ t.to[1] \in Own(completed + 1) /\ t.to[1] \in Kinds
                  /\ completed + 1 = 7 \/ process.deployed[t.to[1]] = None
  <2>1. 1 \in DOMAIN process.todo /\ process.todo[1] = t
    BY <1>1, <1>3, TailOf
  <2>2. IsNew(t) => completed + 1 = 7 \/ process.deployed[t.to[1]] = None
    BY <1>4, <2>1
  <2> QED
    BY <1>1, <2>2, NewIsOwn
<1>7. DOMAIN chain' = IF t.tx = "deploy" THEN DOMAIN chain \cup {t.to} ELSE DOMAIN chain
  BY <1>1, <1>5, TransactionTyped
<1>8. ASSUME NEW a \in DOMAIN chain', a[1] \in Kinds,
             ~(a[1] = "ERC20Handler" /\ RedeployTokenHandlers)
      PROVE  a = process'.deployed[a[1]]
  <2>1. CASE a \in DOMAIN chain
    <3>1. a = process.deployed[a[1]] /\ a # None
      BY <1>4, <1>8, <1>5, <2>1, NoneIsNoAddress DEF ChainTyped
    <3>2. ASSUME IsNew(t), t.to[1] = a[1]
          PROVE  FALSE
      <4>1. completed + 1 = 7
        BY <1>6, <3>1, <3>2
      <4>2. a[1] = "ERC20Handler"
        BY <4>1, <1>6, <3>2 DEF Own
      <4> QED
        BY <4>1, <4>2, <1>1, <1>4, <1>8
    <3> QED
      BY <3>1, <3>2, <1>1, <1>8
  <2>2. CASE a \notin DOMAIN chain
    <3>1. t.tx = "deploy" /\ a = t.to
      BY <1>7, <2>2
    <3> QED
      BY <3>1, <1>1, <1>8 DEF IsNew
  <2> QED
    BY <2>1, <2>2
<1>9. \A kind \in Kinds :
            process'.deployed[kind] = artifacts[kind] \/ kind \in Own(completed + 1)
  BY <1>1, <1>4, <1>6
<1>10. ASSUME NEW i \in DOMAIN process'.todo, IsNew(process'.todo[i]), completed + 1 # 7
       PROVE  process'.deployed[process'.todo[i].to[1]] = None
  <2>1. i + 1 \in DOMAIN process.todo /\ process'.todo[i] = process.todo[i + 1]
    BY <1>1, <1>10, TailOf
  <2>2. PICK j \in DOMAIN process.todo : process'.todo[i] = process.todo[j]
    BY <2>1
  <2>3. process.deployed[process'.todo[i].to[1]] = None
    BY <1>4, <1>10, <2>2, Zenon
  <2>4. process'.todo[i].to[1] \in Kinds
    BY <1>10 DEF IsNew
  <2>5. IsNew(t) => process'.todo[i].to[1] # t.to[1]
    BY <1>1, <1>3, <1>4, <1>10, TailOnceEach
  <2> QED
    BY <1>1, <2>3, <2>4, <2>5
<1>11. OnceEach(process'.todo)
  BY <1>1, <1>4, TailOnceEach
<1>12. completed + 1 = 7 => RedeployTokenHandlers
  BY <1>1, <1>4
<1> QED
  BY <1>2, <1>8, <1>9, <1>10, <1>11, <1>12 DEF FirstRun, Latest

LEMMA FirstRunComplete ==
    ASSUME MTyped, FirstRun, Complete
    PROVE  FirstRun'
<1>1. /\ Running /\ ~Running' /\ completed' = completed + 1 /\ artifacts' = process.deployed
      /\ UNCHANGED <<chain, stops>> /\ completed \in Nat
  <2>1. process = [migration |-> completed + 1, todo |-> process.todo,
                      deployed |-> process.deployed]
    BY DEF MTyped, Complete
  <2>2. process.migration = completed + 1
    BY <2>1
  <2> QED
    BY <2>2 DEF Complete, Running, MTyped
<1>2. Latest = process.deployed /\ Latest' = process.deployed
  BY <1>1 DEF Latest
<1> SUFFICES ASSUME stops = <<>>
    PROVE  FirstRun'
  BY <1>1 DEF FirstRun
<1>3. ASSUME NEW kind \in Kinds, process.deployed[kind] # None
      PROVE  \E m \in 1 .. completed + 1 : kind \in Own(m)
  BY <1>1, <1>3 DEF FirstRun
<1> QED
  BY <1>1, <1>2, <1>3 DEF FirstRun

\* No contract loses its last administrator: a role that is to be renounced has
\* been granted before, or will have been.
RolesKept ==
    /\ \A a \in DOMAIN chain : a[1] \in Administered => chain[a].admins # {}
    /\ Running => \A i \in DOMAIN process.todo :
        \/ Safe(chain, process.todo[i])
        \/ \E j \in DOMAIN process.todo :
            /\ j < i
            /\ process.todo[j] = GrantAdmin(process.todo[i].to, AdminOf(process.todo[i].to[1]))
    /\ \A t \in pending : Safe(chain, t)

\* What is configured to be somebody else's is given away, or will be.
HandingOver ==
    /\ Running /\ completed + 1 >= 8 =>
        \A kind \in Core : process.deployed[kind] = artifacts[kind]
    /\ Network.access # None /\ Running /\ completed + 1 = 8 =>
        /\ \A kind \in Administered :
            RoleGiven(chain, artifacts[kind]) \/ GivesUp(process.todo, artifacts[kind])
        /\ \A entry \in Entries(Network.access.accessControl) :
            \/ FunctionGiven(chain, artifacts["AccessControlSegregator"], entry)
            \/ Sends(process.todo, GrantAccess(artifacts["AccessControlSegregator"],
                                               entry.function, entry.account))
    /\ Network.access # None /\ completed >= 8 =>
        /\ \A kind \in Administered : RoleGiven(chain, artifacts[kind])
        /\ \A entry \in Entries(Network.access.accessControl) :
            FunctionGiven(chain, artifacts["AccessControlSegregator"], entry)

LEMMA OnlyHandoverRenounces ==
    ASSUME NEW m \in Migrations, NEW t \in Steps(m), t.tx = "renounceRole"
    PROVE  m = 8
BY LoopStepsDeployTokens, DeployedTyped DEF Steps

LEMMA HandoverSendsCalls ==
    ASSUME NEW t \in Steps(8)
    PROVE  t.tx # "deploy"
BY HandoverDeploysNothing DEF Steps, Throw

LEMMA AdminsKept ==
    ASSUME MTyped, RolesKept, completed + 1 \in Migrations, NEW t \in Steps(completed + 1),
           CanSend(t), Safe(chain, t)
    PROVE  \A a \in DOMAIN After(chain, t) :
               a[1] \in Administered => After(chain, t)[a].admins # {}
<1>1. t \in Transactions /\ t # Throw /\ Accepted(chain, t) /\ ChainTyped(chain)
  BY SentTyped DEF MTyped
<1> SUFFICES ASSUME NEW a \in DOMAIN After(chain, t), a[1] \in Administered
    PROVE  After(chain, t)[a].admins # {}
  OBVIOUS
<1>2. CASE a \in DOMAIN chain
  BY <1>1, <1>2, RolesAfter DEF RolesKept
<1>3. CASE a \notin DOMAIN chain
  BY <1>1, <1>3, NewAdministered
<1> QED
  BY <1>2, <1>3

LEMMA StillSafe ==
    ASSUME MTyped, RolesKept, completed + 1 \in Migrations, NEW t \in Steps(completed + 1),
           CanSend(t), Safe(chain, t), NEW u \in Steps(completed + 1),
           Safe(chain, u) \/ t = GrantAdmin(u.to, AdminOf(u.to[1]))
    PROVE  Safe(After(chain, t), u)
<1> SUFFICES ASSUME u.tx = "renounceRole", u.to \in DOMAIN After(chain, t)
    PROVE  Granted(After(chain, t), u.to)
  BY DEF Safe
<1>1. t \in Transactions /\ t # Throw /\ Accepted(chain, t) /\ ChainTyped(chain)
  BY SentTyped DEF MTyped
<1>2. completed + 1 = 8
  BY OnlyHandoverRenounces
<1>3. u.to \in DOMAIN chain
  BY <1>1, <1>2, HandoverSendsCalls, TransactionTyped
<1>4. u \in Transactions /\ u # Throw /\ u.to # None
  BY <1>1, <1>3, StepsTyped, NoneIsNoAddress DEF Throw, ChainTyped
<1>5. u.to[1] \in Administered /\ AdminOf(u.to[1]) # Deployer
  BY <1>4, HandoverAccount
<1>6. chain[u.to].admins # {}
  BY <1>3, <1>5 DEF RolesKept
<1>7. Granted(chain, u.to) \/ t = GrantAdmin(u.to, AdminOf(u.to[1]))
  BY <1>3 DEF Safe
<1> QED
  BY <1>1, <1>3, <1>5, <1>6, <1>7, RolesAfter

LEMMA RolesInit == MInit => RolesKept /\ HandingOver
<1> SUFFICES ASSUME MInit
    PROVE  RolesKept /\ HandingOver
  OBVIOUS
<1>1. \A a \in DOMAIN chain : a[1] \notin Administered
  BY NetworkAssumption DEF MInit, Administered, Kinds
<1> QED
  BY <1>1 DEF MInit, RolesKept, HandingOver, Running

LEMMA RolesBegin ==
    ASSUME MTyped, SavedInTurn, RolesKept, HandingOver, Begin
    PROVE  RolesKept' /\ HandingOver'
<1>1. /\ GrantsFirst(process'.todo)
      /\ process'.deployed = artifacts /\ ~Running
      /\ UNCHANGED <<chain, completed, artifacts, stops, pending>>
      /\ process'.todo = Script(completed + 1, chain, artifacts)
      /\ completed \in Nat /\ pending = {}
  BY BeginTyped DEF Begin, MTyped
<1>2. RolesKept'
  BY <1>1 DEF RolesKept, GrantsFirst, Safe
<1>3. CASE completed + 1 = 8 /\ Network.access # None
  <2>1. process'.todo = RenounceAdmins(chain, artifacts)
    BY <1>1, <1>3 DEF Script
  <2>2. Saved(chain, artifacts) /\ CoreSaved(artifacts)
    BY <1>3 DEF MTyped, AddressesAreLost
  <2>3. \A kind \in Administered : kind \in Core /\ artifacts[kind][1] = kind
    BY <2>2, CoreAddresses DEF Administered, Core, AddressesOf
  <2>4. /\ \A kind \in Administered :
             RoleGiven(chain, artifacts[kind]) \/ GivesUp(process'.todo, artifacts[kind])
        /\ \A entry \in Entries(Network.access.accessControl) :
             Sends(process'.todo, GrantAccess(artifacts["AccessControlSegregator"],
                                               entry.function, entry.account))
    BY <1>3, <2>1, <2>2, <2>3, RenounceAdminsTyped DEF RoleGiven
  <2> QED
    BY <1>1, <1>2, <1>3, <2>4 DEF HandingOver
<1>4. CASE ~(completed + 1 = 8 /\ Network.access # None)
  BY <1>1, <1>2, <1>4 DEF HandingOver
<1> QED
  BY <1>3, <1>4

LEMMA SendsTail ==
    ASSUME NEW T, NEW s \in Seq(T), s # <<>>, NEW t, Sends(s, t), t # Head(s)
    PROVE  Sends(Tail(s), t)
<1>1. PICK i \in DOMAIN s : s[i] = t
  BY DEF Sends
<1>2. i - 1 \in DOMAIN Tail(s) /\ Tail(s)[i - 1] = t
  BY <1>1, TailOf
<1> QED
  BY <1>2 DEF Sends

\* What is given away stays so.
LEMMA GivenForGood ==
    ASSUME MTyped, RolesKept, completed >= 5, completed + 1 \in Migrations,
           NEW t \in Steps(completed + 1), CanSend(t), Safe(chain, t)
    PROVE  /\ \A kind \in Administered :
                /\ RoleGiven(chain, artifacts[kind]) => RoleGiven(After(chain, t), artifacts[kind])
                /\ t \in {RenounceAdmin(artifacts[kind], AdminOf(artifacts[kind][1])),
                          RenounceRole(artifacts[kind])}
                        => RoleGiven(After(chain, t), artifacts[kind])
           /\ Network.access # None => \A entry \in Entries(Network.access.accessControl) :
                /\ FunctionGiven(chain, artifacts["AccessControlSegregator"], entry)
                    => FunctionGiven(After(chain, t), artifacts["AccessControlSegregator"], entry)
                /\ t = GrantAccess(artifacts["AccessControlSegregator"], entry.function,
                                   entry.account)
                    => FunctionGiven(After(chain, t), artifacts["AccessControlSegregator"], entry)
<1>1. t \in Transactions /\ t # Throw /\ Accepted(chain, t) /\ ChainTyped(chain)
  BY SentTyped DEF MTyped
<1>2. Saved(chain, artifacts) /\ CoreSaved(artifacts)
  BY DEF MTyped, AddressesAreLost
<1>3. \A kind \in Core : artifacts[kind] \in DOMAIN chain /\ artifacts[kind][1] = kind
  BY <1>2, CoreAddresses DEF AddressesOf
<1>4. ASSUME NEW kind \in Administered
      PROVE  /\ RoleGiven(chain, artifacts[kind]) => RoleGiven(After(chain, t), artifacts[kind])
             /\ t \in {RenounceAdmin(artifacts[kind], AdminOf(artifacts[kind][1])),
                       RenounceRole(artifacts[kind])}
                     => RoleGiven(After(chain, t), artifacts[kind])
  <2>1. artifacts[kind] \in DOMAIN chain /\ artifacts[kind][1] = kind
    BY <1>3, <1>4 DEF Administered, Core
  <2>2. chain[artifacts[kind]].admins # {}
    BY <2>1, <1>4 DEF RolesKept
  <2> QED
    BY <1>1, <1>4, <2>1, <2>2, RolesAfter
<1>5. artifacts["AccessControlSegregator"] \in DOMAIN chain
      /\ artifacts["AccessControlSegregator"][1] = "AccessControlSegregator"
  BY <1>3 DEF Core
<1> QED
  BY <1>1, <1>4, <1>5, FunctionsAfter

LEMMA RolesConfirm ==
    ASSUME MTyped, CoreToCome, SavedInTurn, RolesKept, HandingOver, Confirm
    PROVE  RolesKept' /\ HandingOver'
<1> DEFINE t == Next1
<1>1. /\ process.todo \in Seq(Steps(completed + 1)) /\ process.todo # <<>>
      /\ t \in Steps(completed + 1) /\ completed + 1 \in Migrations /\ CanSend(t)
      /\ chain' = After(chain, t)
      /\ process'.todo = Tail(process.todo)
      /\ \A kind \in Kinds : process'.deployed[kind] =
            IF IsNew(t) /\ t.to[1] = kind THEN t.to ELSE process.deployed[kind]
  BY ConfirmTyped
<1>2. /\ Running /\ Running' /\ UNCHANGED <<completed, artifacts, stops, pending>>
      /\ pending = {} /\ completed \in Nat
  BY ConfirmTyped DEF Confirm, MTyped
<1>3. t = Head(process.todo)
  BY DEF Next1
<1> HIDE DEF t
<1>4. 1 \in DOMAIN process.todo /\ process.todo[1] = t /\ DOMAIN process.todo \subseteq Nat \ {0}
  BY <1>1, <1>3, TailOf
<1>5. Safe(chain, t)
  BY <1>2, <1>4 DEF RolesKept
<1>6. ASSUME NEW i \in DOMAIN process'.todo
      PROVE  \/ Safe(chain', process'.todo[i])
             \/ \E j \in DOMAIN process'.todo : /\ j < i
                  /\ process'.todo[j] = GrantAdmin(process'.todo[i].to,
                                                   AdminOf(process'.todo[i].to[1]))
  <2>1. PICK k \in DOMAIN process.todo : k = i + 1 /\ process'.todo[i] = process.todo[k]
    BY <1>1, <1>6, TailOf
  <2> DEFINE u == process'.todo[i]
  <2>2. u \in Steps(completed + 1)
    BY <1>1, <2>1
  <2>3. \/ Safe(chain, u)
        \/ \E j \in DOMAIN process.todo : j < k /\ process.todo[j] = GrantAdmin(u.to, AdminOf(u.to[1]))
    BY <1>2, <2>1 DEF RolesKept
  <2> HIDE DEF u
  <2>4. CASE Safe(chain, u)
    BY <1>1, <1>5, <2>2, <2>4, StillSafe DEF u
  <2>5. ASSUME NEW j \in DOMAIN process.todo, j < k,
               process.todo[j] = GrantAdmin(u.to, AdminOf(u.to[1]))
        PROVE  \/ Safe(chain', u)
               \/ \E l \in DOMAIN process'.todo : /\ l < i
                  /\ process'.todo[l] = GrantAdmin(u.to, AdminOf(u.to[1]))
    <3>1. CASE process.todo[j] = t
      BY <1>1, <1>5, <2>2, <2>5, <3>1, StillSafe
    <3>2. CASE process.todo[j] # t
      <4>1. j - 1 \in DOMAIN process'.todo /\ process'.todo[j - 1] = process.todo[j]
        BY <1>1, <1>3, <2>5, <3>2, TailOf
      <4>2. j - 1 < i
        <5>1. j \in Nat /\ i \in Nat
          BY <1>4, <1>1, <1>6, TailOf
        <5> QED
          BY <5>1, <2>1, <2>5
      <4> QED
        BY <4>1, <4>2, <2>5
    <3> QED
      BY <3>1, <3>2
  <2> QED
    BY <2>3, <2>4, <2>5 DEF u
<1>7. RolesKept'
  <2>1. \A a \in DOMAIN chain' : a[1] \in Administered => chain'[a].admins # {}
    BY <1>1, <1>5, AdminsKept
  <2> QED
    BY <1>2, <1>6, <2>1 DEF RolesKept
<1>8. ASSUME completed + 1 >= 8, NEW kind \in Core
      PROVE  process'.deployed[kind] = artifacts[kind]
  <2>1. kind \in Kinds /\ process.deployed[kind] = artifacts[kind]
    BY <1>2, <1>8 DEF HandingOver, Core, Kinds
  <2>2. \A m \in Migrations : m >= 8 => kind \notin Own(m)
    BY DEF Migrations, Own, Core
  <2>3. ~(IsNew(t) /\ t.to[1] = kind)
    BY <1>1, <1>8, <2>2, NewIsOwn
  <2> QED
    BY <1>1, <2>1, <2>3
<1>9. ASSUME Network.access # None, completed + 1 = 8
      PROVE  /\ \A kind \in Administered :
                  RoleGiven(chain', artifacts[kind]) \/ GivesUp(process'.todo, artifacts[kind])
             /\ \A entry \in Entries(Network.access.accessControl) :
                  \/ FunctionGiven(chain', artifacts["AccessControlSegregator"], entry)
                  \/ Sends(process'.todo, GrantAccess(artifacts["AccessControlSegregator"],
                                                      entry.function, entry.account))
  <2>1. completed >= 5
    BY <1>2, <1>9
  <2>2. /\ \A kind \in Administered :
             RoleGiven(chain, artifacts[kind]) \/ GivesUp(process.todo, artifacts[kind])
        /\ \A entry \in Entries(Network.access.accessControl) :
            \/ FunctionGiven(chain, artifacts["AccessControlSegregator"], entry)
            \/ Sends(process.todo, GrantAccess(artifacts["AccessControlSegregator"],
                                               entry.function, entry.account))
    BY <1>2, <1>9 DEF HandingOver
  <2>3. \A u : Sends(process.todo, u) => u = t \/ Sends(process'.todo, u)
    BY <1>1, <1>3, SendsTail
  <2>4. ASSUME NEW kind \in Administered
        PROVE  RoleGiven(chain', artifacts[kind]) \/ GivesUp(process'.todo, artifacts[kind])
    <3>1. CASE RoleGiven(chain, artifacts[kind])
      BY <1>1, <1>5, <2>1, <2>4, <3>1, GivenForGood
    <3>2. CASE GivesUp(process.todo, artifacts[kind])
      <4>1. \/ GivesUp(process'.todo, artifacts[kind])
            \/ t \in {RenounceAdmin(artifacts[kind], AdminOf(artifacts[kind][1])),
                      RenounceRole(artifacts[kind])}
        BY <2>3, <3>2 DEF GivesUp
      <4> QED
        BY <1>1, <1>5, <2>1, <2>4, <4>1, GivenForGood
    <3> QED
      BY <2>2, <2>4, <3>1, <3>2
  <2>5. ASSUME NEW entry \in Entries(Network.access.accessControl)
        PROVE  \/ FunctionGiven(chain', artifacts["AccessControlSegregator"], entry)
               \/ Sends(process'.todo, GrantAccess(artifacts["AccessControlSegregator"],
                                                   entry.function, entry.account))
    BY <1>1, <1>5, <1>9, <2>1, <2>2, <2>3, <2>5, GivenForGood
  <2> QED
    BY <2>4, <2>5
<1>10. ASSUME Network.access # None, completed >= 8
       PROVE  /\ \A kind \in Administered : RoleGiven(chain', artifacts[kind])
              /\ \A entry \in Entries(Network.access.accessControl) :
                   FunctionGiven(chain', artifacts["AccessControlSegregator"], entry)
  <2>1. /\ \A kind \in Administered : RoleGiven(chain, artifacts[kind])
        /\ \A entry \in Entries(Network.access.accessControl) :
            FunctionGiven(chain, artifacts["AccessControlSegregator"], entry)
    BY <1>10 DEF HandingOver
  <2>2. completed >= 5
    BY <1>2, <1>10
  <2> QED
    BY <1>1, <1>5, <1>10, <2>1, <2>2, GivenForGood
<1> QED
  BY <1>2, <1>7, <1>8, <1>9, <1>10 DEF HandingOver

LEMMA RolesComplete ==
    ASSUME MTyped, RolesKept, HandingOver, Complete
    PROVE  RolesKept' /\ HandingOver'
<1>1. /\ Running /\ ~Running' /\ completed' = completed + 1 /\ artifacts' = process.deployed
      /\ process.todo = <<>> /\ UNCHANGED <<chain, stops, pending>>
      /\ completed \in Nat
  <2>1. process = [migration |-> completed + 1, todo |-> process.todo,
                      deployed |-> process.deployed]
    BY DEF MTyped, Complete
  <2>2. process.migration = completed + 1
    BY <2>1
  <2> QED
    BY <2>2 DEF Complete, Running, MTyped
<1>2. RolesKept'
  BY <1>1 DEF RolesKept, Safe
<1>3. CASE Network.access # None /\ completed + 1 >= 8
  <2>1. \A kind \in Core : artifacts'[kind] = artifacts[kind]
    BY <1>1, <1>3 DEF HandingOver
  <2>2. \A t : ~Sends(process.todo, t)
    BY <1>1 DEF Sends
  <2>3. /\ \A kind \in Administered : RoleGiven(chain, artifacts[kind])
        /\ \A entry \in Entries(Network.access.accessControl) :
            FunctionGiven(chain, artifacts["AccessControlSegregator"], entry)
    <3>1. completed + 1 = 8 \/ completed >= 8
      BY <1>1, <1>3
    <3> QED
      BY <3>1, <1>1, <1>3, <2>2 DEF HandingOver, GivesUp
  <2>4. \A kind \in Administered \cup {"AccessControlSegregator"} : artifacts'[kind] = artifacts[kind]
    BY <2>1 DEF Administered, Core
  <2>5. /\ \A kind \in Administered : RoleGiven(chain', artifacts'[kind])
        /\ \A entry \in Entries(Network.access.accessControl) :
            FunctionGiven(chain', artifacts'["AccessControlSegregator"], entry)
    BY <1>1, <2>3, <2>4
  <2> QED
    BY <1>1, <1>2, <2>5 DEF HandingOver
<1>4. CASE ~(Network.access # None /\ completed + 1 >= 8)
  BY <1>1, <1>2, <1>4 DEF HandingOver
<1> QED
  BY <1>3, <1>4

\* Also when the eighth is completed and its addresses, which it has none of, are
\* not saved.
LEMMA RolesUnsaved ==
    ASSUME MTyped, CoreToCome, SavedInTurn, RolesKept, HandingOver, StopUnsaved
    PROVE  RolesKept' /\ HandingOver' /\ FirstRun'
<1>1. /\ Running /\ ~Running' /\ completed \in Nat /\ process.todo = <<>>
      /\ stops' # <<>> /\ pending' = {} /\ UNCHANGED <<chain, artifacts>>
      /\ completed' = IF completed = 0 THEN 0 ELSE completed + 1
  BY UnsavedTyped
<1>2. RolesKept' /\ FirstRun'
  BY <1>1 DEF RolesKept, FirstRun
<1>3. ASSUME Network.access # None, completed + 1 >= 8
      PROVE  /\ \A kind \in Administered : RoleGiven(chain, artifacts[kind])
             /\ \A entry \in Entries(Network.access.accessControl) :
                    FunctionGiven(chain, artifacts["AccessControlSegregator"], entry)
  <2>1. \A t : ~Sends(process.todo, t)
    BY <1>1 DEF Sends
  <2>2. completed + 1 = 8 \/ completed >= 8
    BY <1>1, <1>3
  <2> QED
    BY <1>1, <1>3, <2>1, <2>2 DEF HandingOver, GivesUp
<1>4. HandingOver'
  BY <1>1, <1>3 DEF HandingOver
<1> QED
  BY <1>2, <1>4

LEMMA RolesStop ==
    ASSUME MTyped, SavedInTurn, RolesKept, HandingOver, Fail \/ Interrupt \/ TimeOut
    PROVE  RolesKept' /\ HandingOver' /\ FirstRun'
<1>1. /\ ~Running' /\ stops' # <<>> /\ UNCHANGED <<chain, completed, artifacts>>
      /\ \A t \in pending' : TimeOut /\ t = process.todo[1] /\ process.todo # <<>>
                /\ process.todo \in Seq(Transactions) /\ Running
  BY StopTyped
<1>2. \A t \in pending' : Safe(chain, t)
  <2> SUFFICES ASSUME NEW t \in pending'
      PROVE  Safe(chain, t)
    OBVIOUS
  <2>1. t = process.todo[1] /\ 1 \in DOMAIN process.todo /\ DOMAIN process.todo \subseteq Nat \ {0}
        /\ Running
    BY <1>1
  <2> QED
    BY <2>1 DEF RolesKept
<1> QED
  BY <1>1, <1>2 DEF RolesKept, HandingOver, FirstRun, Safe

LEMMA RolesSettle ==
    ASSUME MTyped, CoreToCome, SavedInTurn, RolesKept, HandingOver, Settle
    PROVE  RolesKept' /\ HandingOver' /\ FirstRun'
<1>1. /\ ~Running /\ ~Running' /\ stops # <<>> /\ pending' = {}
      /\ UNCHANGED <<completed, artifacts, process, stops>> /\ completed \in Nat
  BY SettleTyped DEF MTyped
<1>2. PICK t \in Steps(completed + 1) :
                /\ completed + 1 \in Migrations /\ CanSend(t) /\ pending = {t}
                /\ chain' \in {chain, After(chain, t)}
  BY SettleTyped
<1>3. Safe(chain, t)
  BY <1>2 DEF RolesKept
<1>4. \A a \in DOMAIN chain' : a[1] \in Administered => chain'[a].admins # {}
  BY <1>2, <1>3, AdminsKept DEF RolesKept
<1>5. ASSUME Network.access # None, completed >= 8
      PROVE  /\ \A kind \in Administered : RoleGiven(chain', artifacts[kind])
             /\ \A entry \in Entries(Network.access.accessControl) :
                   FunctionGiven(chain', artifacts["AccessControlSegregator"], entry)
  <2>1. /\ \A kind \in Administered : RoleGiven(chain, artifacts[kind])
        /\ \A entry \in Entries(Network.access.accessControl) :
            FunctionGiven(chain, artifacts["AccessControlSegregator"], entry)
    BY <1>5 DEF HandingOver
  <2>2. completed >= 5
    BY <1>1, <1>5
  <2> QED
    BY <1>2, <1>3, <1>5, <2>1, <2>2, GivenForGood
<1> QED
  BY <1>1, <1>4, <1>5 DEF RolesKept, HandingOver, FirstRun

MIInv == MTyped /\ CoreToCome /\ SavedInTurn /\ FirstRun /\ RolesKept /\ HandingOver

\* What holds all through a deployment, whatever the network and however often
\* its scripts stop: every contract has the storage its kind has, transactions
\* to come are those of the migration that runs, the contracts that migration 2
\* saves are saved once it is completed, unless it stopped in between and nothing
\* is sent any more, and what migration 8 has not given away yet is among the
\* transactions it still has to send.
THEOREM MInvariance == MSpec => []MIInv
<1>1. MInit => MIInv
  BY MTypedInit, FirstRunInit, RolesInit DEF MIInv
<1>2. MIInv /\ [MNext]_mvars => MIInv'
  <2> SUFFICES ASSUME MIInv, [MNext]_mvars
      PROVE  MIInv'
    OBVIOUS
  <2> USE DEF MIInv
  <2>1. CASE Begin
    BY <2>1, BeginTyped, FirstRunBegin, RolesBegin
  <2>2. CASE Confirm
    BY <2>2, ConfirmTyped, FirstRunConfirm, RolesConfirm
  <2>3. CASE Complete
    BY <2>3, CompleteTyped, FirstRunComplete, RolesComplete
  <2>7. CASE StopUnsaved
    BY <2>7, UnsavedTyped, RolesUnsaved
  <2>4. CASE Fail \/ Interrupt \/ TimeOut
    BY <2>4, StopTyped, RolesStop
  <2>5. CASE Settle
    BY <2>5, SettleTyped, RolesSettle
  <2>6. CASE UNCHANGED mvars
    <3>1. /\ UNCHANGED <<chain, completed, artifacts, process, pending, stops>>
          /\ (\A t : CanSend(t)' <=> CanSend(t)) /\ (Running' <=> Running)
          /\ Latest' = Latest /\ (AddressesAreLost' <=> AddressesAreLost)
      BY <2>6 DEF mvars, CanSend, Running, Latest, AddressesAreLost
    <3> QED
      BY <3>1 DEF MTyped, CoreToCome, SavedInTurn, FirstRun, RolesKept, HandingOver
  <2> QED
    BY <2>1, <2>2, <2>3, <2>4, <2>5, <2>6, <2>7 DEF MNext
<1> QED
  BY <1>1, <1>2, PTL DEF MSpec

\* A deployment is well formed, whatever the network and however often it stops:
\* the artifacts Truffle has saved are addresses of contracts of their kind, one
\* transaction at most is left to be mined late, and a contract nobody saved is
\* one of a stopped run, or a handler that migration 7 has replaced.
THEOREM MTypeCorrect == MSpec => []MTypeOK
<1>1. MIInv => MTypeOK
  <2> SUFFICES ASSUME MIInv
      PROVE  MTypeOK
    OBVIOUS
  <2> USE DEF MIInv
  <2>1. \A d : Saved(chain, d) => \A kind \in Kinds : d[kind] \in At(kind) \cup {None}
    BY DEF Saved, At, AddressesOf
  <2>2. Running => process.migration = completed + 1
    <3> SUFFICES ASSUME Running
        PROVE  process.migration = completed + 1
      OBVIOUS
    <3>1. process = [migration |-> completed + 1, todo |-> process.todo,
                      deployed |-> process.deployed]
      BY DEF MTyped
    <3> QED
      BY <3>1
  <2>3. Cardinality(pending) <= 1
    <3>1. pending # {} => \E t : pending = {t}
      BY DEF MTyped
    <3>2. pending = {} => Cardinality(pending) = 0
      BY FS_EmptySet
    <3>3. (\E t : pending = {t}) => Cardinality(pending) = 1
      BY FS_Singleton
    <3> QED
      BY <3>1, <3>2, <3>3
  <2>4. \A a \in DOMAIN chain : a[1] \in Kinds /\ a # artifacts[a[1]] =>
            \/ Running /\ a = process.deployed[a[1]]
            \/ stops # <<>>
            \/ a[1] = "ERC20Handler" /\ RedeployTokenHandlers
    BY DEF FirstRun, Latest
  <2>5. completed \in Migrations \cup {0}
    BY DEF MTyped, Migrations
  <2> QED
    BY <2>1, <2>2, <2>3, <2>4, <2>5 DEF MTyped, MTypeOK
<1> QED
  BY <1>1, MInvariance, PTL

\* Migration 8 grants a role before it renounces it, and renounceAdmin grants and
\* revokes in one transaction: wherever it stops, and whatever of it is mined
\* late, every contract and every function of the Bridge has an administrator,
\* and has none but the deployer and the one configured.
THEOREM HandoverKeepsRoles == MSpec => []HandoverLosesNoRole
<1>1. MIInv => HandoverLosesNoRole
  <2> SUFFICES ASSUME MIInv
      PROVE  HandoverLosesNoRole
    OBVIOUS
  <2> USE DEF MIInv
  <2>1. ASSUME NEW kind \in Administered, NEW a \in At(kind)
        PROVE  chain[a].admins # {} /\ chain[a].admins \subseteq {Deployer, AdminOf(kind)}
    <3>1. a \in DOMAIN chain /\ a[1] = kind /\ ChainTyped(chain)
      BY <2>1 DEF At, MTyped
    <3>2. chain[a].admins \subseteq Admins(kind)
      BY <3>1, <2>1, AdministeredTyped
    <3> QED
      BY <3>1, <3>2, <2>1 DEF RolesKept, Admins
  <2>2. ASSUME NEW a \in At("AccessControlSegregator"), NEW f \in DOMAIN chain[a]
        PROVE  chain[a][f] \in {Deployer} \cup FunctionHeirs(f)
    BY <2>2 DEF At, MTyped, ChainTyped, HasType
  <2> QED
    BY <2>1, <2>2 DEF HandoverLosesNoRole
<1> QED
  BY <1>1, MInvariance, PTL

\* When migration 8 is completed each contract has the configured administrator
\* only, and each function of the Bridge the configured account, also when several
\* runs, and transactions mined late, gave them away one by one.
THEOREM HandoverIsComplete == MSpec => []HandedOver
<1>1. MIInv => HandedOver
  <2> SUFFICES ASSUME MIInv, completed >= 8, Network.access # None
      PROVE  /\ \A kind \in Administered : chain[artifacts[kind]].admins = {AdminOf(kind)}
             /\ \A entry \in Entries(Network.access.accessControl) :
                  chain[artifacts["AccessControlSegregator"]][entry.function] = entry.account
    BY DEF HandedOver
  <2> USE DEF MIInv
  <2>1. Saved(chain, artifacts) /\ CoreSaved(artifacts) /\ ChainTyped(chain)
    BY DEF MTyped, AddressesAreLost
  <2>2. ASSUME NEW kind \in Administered
        PROVE  chain[artifacts[kind]].admins = {AdminOf(kind)}
    <3>1. artifacts[kind] \in DOMAIN chain /\ artifacts[kind][1] = kind
      BY <2>1, <2>2, CoreAddresses DEF Administered, Core, AddressesOf
    <3>2. chain[artifacts[kind]].admins \subseteq {Deployer, AdminOf(kind)}
      BY <2>1, <2>2, <3>1, AdministeredTyped DEF Admins
    <3>3. chain[artifacts[kind]].admins # {}
      BY <2>2, <3>1 DEF RolesKept
    <3>4. AdminOf(kind) = Deployer \/ Deployer \notin chain[artifacts[kind]].admins
      BY <2>2, <3>1 DEF HandingOver, RoleGiven
    <3> QED
      BY <3>2, <3>3, <3>4
  <2>3. ASSUME NEW entry \in Entries(Network.access.accessControl)
        PROVE  chain[artifacts["AccessControlSegregator"]][entry.function] = entry.account
    BY <2>3 DEF HandingOver, FunctionGiven
  <2> QED
    BY <2>2, <2>3
<1> QED
  BY <1>1, MInvariance, PTL
-----------------------------------------------------------------------------
(* What a transaction does to each kind of contract. *)

LEMMA TransactionByName ==
    ASSUME NEW t \in Transactions, t # Throw
    PROVE  /\ t.tx = "deploy" => t \in Deployments
           /\ t.tx = "adminSetResource" => t \in ResourceSettings
           /\ t.tx = "adminSetBurnable" => t \in BurnableSettings
           /\ t.tx = "adminChangeFeeHandler" => t \in FeeHandlerChanges
           /\ t.tx = "endKeygen" => t \in KeygenEnds
           /\ t.tx = "grantMinter" => t \in MinterGrants
           /\ t.tx = "mint" => t \in Mints
           /\ t.tx = "grantSygmaHandler" => t \in SygmaHandlerGrants
           /\ t.tx = "adminSetResourceHandler" => t \in RouteSettings
           /\ t.tx = "changeFee" => t \in FeeChanges
           /\ t.tx = "renounceAdmin" => t \in AdminRenunciations
           /\ t.tx = "grantAdmin" => t \in AdminGrants
           /\ t.tx = "renounceRole" => t \in RoleRenunciations
           /\ t.tx = "grantAccess" => t \in AccessGrants
           /\ t.tx \in {"deploy", "adminSetResource", "adminSetBurnable", "adminChangeFeeHandler",
                        "endKeygen", "grantMinter", "mint", "grantSygmaHandler",
                        "adminSetResourceHandler", "changeFee", "renounceAdmin", "grantAdmin",
                        "renounceRole", "grantAccess"}
<1>1. /\ t \in Deployments => t.tx = "deploy"
      /\ t \in ResourceSettings => t.tx = "adminSetResource"
      /\ t \in BurnableSettings => t.tx = "adminSetBurnable"
      /\ t \in FeeHandlerChanges => t.tx = "adminChangeFeeHandler"
      /\ t \in KeygenEnds => t.tx = "endKeygen"
      /\ t \in MinterGrants => t.tx = "grantMinter"
      /\ t \in Mints => t.tx = "mint"
  BY DeployedTyped
  DEF ResourceSettings, BurnableSettings, FeeHandlerChanges, KeygenEnds, MinterGrants, Mints
<1>2. /\ t \in SygmaHandlerGrants => t.tx = "grantSygmaHandler"
      /\ t \in RouteSettings => t.tx = "adminSetResourceHandler"
      /\ t \in FeeChanges => t.tx = "changeFee"
      /\ t \in AdminRenunciations => t.tx = "renounceAdmin"
      /\ t \in AdminGrants => t.tx = "grantAdmin"
      /\ t \in RoleRenunciations => t.tx = "renounceRole"
      /\ t \in AccessGrants => t.tx = "grantAccess"
  BY DEF SygmaHandlerGrants, RouteSettings, FeeChanges, AdminRenunciations, AdminGrants,
    RoleRenunciations, AccessGrants, GrantAccess
<1>3. \/ t \in Deployments \/ t \in ResourceSettings \/ t \in BurnableSettings
      \/ t \in FeeHandlerChanges \/ t \in KeygenEnds \/ t \in MinterGrants \/ t \in Mints
      \/ t \in SygmaHandlerGrants \/ t \in RouteSettings \/ t \in FeeChanges
      \/ t \in AdminRenunciations \/ t \in AdminGrants \/ t \in RoleRenunciations
      \/ t \in AccessGrants
  BY DEF Transactions, Calls, Settings, Handovers
<1> QED
  BY <1>1, <1>2, <1>3

\* The contracts that a transaction changes.
Touched(t) ==
    CASE t.tx \in {"deploy", "mint"} -> {}
      [] t.tx = "adminSetResource" -> {t.to, t.handler}
      [] t.tx = "adminSetBurnable" -> {t.handler}
      [] OTHER -> {t.to}

LEMMA Untouched ==
    ASSUME NEW c, ChainTyped(c), NEW t \in Transactions, t # Throw,
           NEW a \in DOMAIN c, a \notin Touched(t)
    PROVE  After(c, t)[a] = c[a]
<1>1. c = [x \in DOMAIN c |-> c[x]]
  BY DEF ChainTyped
<1>2. CASE t.tx = "deploy"
  BY <1>2 DEF After, Deployed
<1>3. CASE t.tx = "mint"
  BY <1>3 DEF After
<1>4. CASE t.tx = "adminSetResource"
  <2>1. a # t.to /\ a # t.handler
    BY <1>4 DEF Touched
  <2> QED
    BY <1>1, <1>4, <2>1 DEF After
<1>5. CASE t.tx = "adminSetBurnable"
  <2>1. a # t.handler
    BY <1>5 DEF Touched
  <2> QED
    BY <1>1, <1>5, <2>1 DEF After
<1>6. ASSUME t.tx \in {"adminChangeFeeHandler", "endKeygen", "grantMinter", "grantSygmaHandler",
                       "adminSetResourceHandler", "changeFee", "renounceAdmin", "grantAdmin",
                       "renounceRole", "grantAccess"}
      PROVE  After(c, t)[a] = c[a]
  <2>1. a # t.to
    BY <1>6 DEF Touched
  <2>2. CASE t.tx = "adminChangeFeeHandler"
    BY <1>1, <2>1, <2>2 DEF After
  <2>3. CASE t.tx = "endKeygen"
    BY <1>1, <2>1, <2>3 DEF After
  <2>4. CASE t.tx = "grantMinter"
    BY <1>1, <2>1, <2>4 DEF After
  <2>5. CASE t.tx = "grantSygmaHandler"
    BY <1>1, <2>1, <2>5 DEF After
  <2>6. CASE t.tx = "adminSetResourceHandler"
    BY <1>1, <2>1, <2>6 DEF After
  <2>7. CASE t.tx = "changeFee"
    BY <1>1, <2>1, <2>7 DEF After
  <2>8. CASE t.tx = "renounceAdmin"
    BY <1>1, <2>1, <2>8 DEF After
  <2>9. CASE t.tx = "grantAdmin"
    BY <1>1, <2>1, <2>9 DEF After
  <2>10. CASE t.tx = "renounceRole"
    BY <1>1, <2>1, <2>10 DEF After
  <2>11. CASE t.tx = "grantAccess"
    BY <1>1, <2>1, <2>11 DEF After
  <2> QED
    BY <1>6, <2>2, <2>3, <2>4, <2>5, <2>6, <2>7, <2>8, <2>9, <2>10, <2>11
<1> QED
  BY <1>2, <1>3, <1>4, <1>5, <1>6, TransactionByName

\* The contracts of a kind are changed by few transactions.
LEMMA TouchedBy ==
    ASSUME NEW t \in Transactions, t # Throw, NEW a \in Touched(t), a \in Addresses
    PROVE  /\ a[1] = "Bridge" =>
                t.to = a /\ t.tx \in {"adminSetResource", "adminChangeFeeHandler", "endKeygen"}
           /\ a[1] \in TokenHandlers \cup {"GmpHandler"} =>
                t.handler = a /\ t.tx \in {"adminSetResource", "adminSetBurnable"}
           /\ a[1] = "FeeHandlerRouter" =>
                t.to = a /\ t.tx \in {"adminSetResourceHandler", "grantAdmin", "renounceRole"}
           /\ a[1] \in FeeHandlers => t.to = a /\ t.tx \in {"changeFee", "renounceAdmin"}
           /\ a[1] = "DefaultMessageReceiver" =>
                t.to = a /\ t.tx \in {"grantSygmaHandler", "grantAdmin", "renounceRole"}
           /\ a[1] \in Resources => t.to = a /\ t.tx = "grantMinter"
<1> USE TransactionByName, NoneIsNoAddress
<1>0. /\ \A k \in TokenHandlers \cup FeeHandlers : k \notin Resources
      /\ "Bridge" \notin Resources /\ "GmpHandler" \notin Resources
      /\ "FeeHandlerRouter" \notin Resources /\ "DefaultMessageReceiver" \notin Resources
      /\ "AccessControlSegregator" \notin Resources
      /\ a # None
  BY KindsDiffer DEF Kinds, TokenHandlers, FeeHandlers
<1>1. CASE t.tx = "adminSetResource"
  <2>1. t \in ResourceSettings /\ a \in {t.to, t.handler}
    BY <1>1 DEF Touched
  <2>2. CASE a = t.to
    BY <1>0, <1>1, <2>1, <2>2 DEF ResourceSettings, OrNone, AddressesOf, TokenHandlers, FeeHandlers
  <2>3. CASE a = t.handler
    BY <1>0, <1>1, <2>1, <2>3 DEF ResourceSettings, HandlerAddresses, TokenHandlers, FeeHandlers
  <2> QED
    BY <2>1, <2>2, <2>3
<1>2. CASE t.tx = "adminSetBurnable"
  BY <1>0, <1>2 DEF Touched, BurnableSettings, TokenHandlers, FeeHandlers
<1>3. CASE t.tx = "adminChangeFeeHandler"
  BY <1>0, <1>3 DEF Touched, FeeHandlerChanges, AddressesOf, TokenHandlers, FeeHandlers
<1>4. CASE t.tx = "endKeygen"
  BY <1>0, <1>4 DEF Touched, KeygenEnds, AddressesOf, TokenHandlers, FeeHandlers
<1>5. CASE t.tx = "grantMinter"
  <2>1. a = t.to /\ a \in Tokens
    BY <1>0, <1>5 DEF Touched, MinterGrants
  <2>2. a[1] \in Resources
    BY <2>1 DEF Tokens
  <2> QED
    BY <1>0, <1>5, <2>1, <2>2
<1>6. CASE t.tx = "grantSygmaHandler"
  BY <1>0, <1>6 DEF Touched, SygmaHandlerGrants, OrNone, AddressesOf, TokenHandlers, FeeHandlers
<1>7. CASE t.tx = "adminSetResourceHandler"
  BY <1>0, <1>7 DEF Touched, RouteSettings, OrNone, AddressesOf, TokenHandlers, FeeHandlers
<1>8. CASE t.tx = "changeFee"
  BY <1>0, <1>8 DEF Touched, FeeChanges, AnyFeeHandler, OrNone, AddressesOf, TokenHandlers, FeeHandlers
<1>9. CASE t.tx = "renounceAdmin"
  BY <1>0, <1>9 DEF Touched, AdminRenunciations, AnyFeeHandler, OrNone, AddressesOf, TokenHandlers,
    FeeHandlers
<1>10. CASE t.tx = "grantAdmin"
  BY <1>0, <1>10 DEF Touched, AdminGrants, HandedOverByRole, OrNone, AddressesOf, TokenHandlers,
    FeeHandlers
<1>11. CASE t.tx = "renounceRole"
  BY <1>0, <1>11 DEF Touched, RoleRenunciations, HandedOverByRole, OrNone, AddressesOf, TokenHandlers,
    FeeHandlers
<1>12. CASE t.tx = "grantAccess"
  BY <1>0, <1>12 DEF Touched, AccessGrants, GrantAccess, OrNone, AddressesOf, TokenHandlers, FeeHandlers
<1>13. t.tx \notin {"deploy", "mint"}
  BY DEF Touched
<1> QED
  BY <1>1, <1>2, <1>3, <1>4, <1>5, <1>6, <1>7, <1>8, <1>9, <1>10, <1>11, <1>12, <1>13

LEMMA BridgeAfter ==
    ASSUME NEW c, ChainTyped(c), NEW t \in Transactions, t # Throw,
           NEW b \in DOMAIN c, b[1] = "Bridge"
    PROVE  /\ \A r \in Resources : After(c, t)[b].handlerOf[r] =
                IF t.tx = "adminSetResource" /\ t.to = b /\ t.resource = r
                THEN t.handler ELSE c[b].handlerOf[r]
           /\ After(c, t)[b].feeHandler =
                IF t.tx = "adminChangeFeeHandler" /\ t.to = b THEN t.feeHandler ELSE c[b].feeHandler
           /\ After(c, t)[b].mpc = IF t.tx = "endKeygen" /\ t.to = b THEN t.mpc ELSE c[b].mpc
<1>1. /\ c = [x \in DOMAIN c |-> c[x]] /\ b \in Addresses /\ c[b] \in BridgeStorage
  BY DEF ChainTyped, HasType
<1>2. CASE b \notin Touched(t)
  <2>1. After(c, t)[b] = c[b]
    BY <1>2, Untouched
  <2>2. t.tx \in {"adminSetResource", "adminChangeFeeHandler", "endKeygen"} => t.to # b
    BY <1>2 DEF Touched
  <2> QED
    BY <2>1, <2>2
<1>3. CASE b \in Touched(t)
  <2>1. t.to = b /\ t.tx \in {"adminSetResource", "adminChangeFeeHandler", "endKeygen"}
    BY <1>1, <1>3, TouchedBy
  <2>2. CASE t.tx = "adminSetResource"
    <3>1. t.handler # b /\ t.resource \in Resources
      BY <2>2, TransactionByName DEF ResourceSettings, HandlerAddresses, TokenHandlers
    <3>2. After(c, t)[b] = [c[b] EXCEPT !.handlerOf[t.resource] = t.handler]
      BY <1>1, <2>1, <2>2, <3>1 DEF After
    <3> QED
      BY <1>1, <2>1, <2>2, <3>1, <3>2 DEF BridgeStorage
  <2>3. CASE t.tx = "adminChangeFeeHandler"
    <3>1. After(c, t)[b] = [c[b] EXCEPT !.feeHandler = t.feeHandler]
      BY <1>1, <2>1, <2>3 DEF After
    <3> QED
      BY <1>1, <2>1, <2>3, <3>1 DEF BridgeStorage
  <2>4. CASE t.tx = "endKeygen"
    <3>1. After(c, t)[b] = [c[b] EXCEPT !.mpc = t.mpc]
      BY <1>1, <2>1, <2>4 DEF After
    <3> QED
      BY <1>1, <2>1, <2>4, <3>1 DEF BridgeStorage
  <2> QED
    BY <2>1, <2>2, <2>3, <2>4
<1> QED
  BY <1>2, <1>3

\* A handler after setResource, and after setBurnable.
AfterResource(handler, t) ==
    [handler EXCEPT !.tokenOf[t.resource] = t.contract,
                    !.burnable = With(@, t.contract, FALSE)]

AfterBurnable(handler, t) == [handler EXCEPT !.burnable[t.token] = TRUE]

LEMMA HandlerAfter ==
    ASSUME NEW c, ChainTyped(c), NEW t \in Transactions, t # Throw,
           NEW h \in DOMAIN c, h[1] \in TokenHandlers \cup {"GmpHandler"}
    PROVE  /\ c[h] \in HandlerStorage
           /\ t.tx = "adminSetResource" /\ t.handler = h =>
                t.resource \in Resources /\ After(c, t)[h] = AfterResource(c[h], t)
           /\ t.tx = "adminSetBurnable" /\ t.handler = h =>
                After(c, t)[h] = AfterBurnable(c[h], t)
           /\ ~(t.tx \in {"adminSetResource", "adminSetBurnable"} /\ t.handler = h) =>
                After(c, t)[h] = c[h]
<1>1. /\ c = [x \in DOMAIN c |-> c[x]] /\ h \in Addresses /\ c[h] \in HandlerStorage
  BY DEF ChainTyped, HasType
<1>2. CASE h \notin Touched(t)
  <2>1. After(c, t)[h] = c[h]
    BY <1>2, Untouched
  <2>2. t.tx \in {"adminSetResource", "adminSetBurnable"} => t.handler # h
    BY <1>2 DEF Touched
  <2> QED
    BY <1>1, <2>1, <2>2
<1>3. CASE h \in Touched(t)
  <2>1. t.handler = h /\ t.tx \in {"adminSetResource", "adminSetBurnable"}
    BY <1>1, <1>3, TouchedBy
  <2>2. CASE t.tx = "adminSetResource"
    <3>1. t.to # h
      <4>1. t.to \in OrNone("Bridge") /\ h # None
        BY <1>1, <2>2, TransactionByName, NoneIsNoAddress DEF ResourceSettings
      <4> QED
        BY <4>1 DEF OrNone, AddressesOf, TokenHandlers
    <3>2. t.resource \in Resources
      BY <2>2, TransactionByName DEF ResourceSettings
    <3>3. After(c, t)[h] = AfterResource(c[h], t)
      BY <1>1, <2>1, <2>2, <3>1 DEF After, AfterResource
    <3> QED
      BY <1>1, <2>1, <2>2, <3>2, <3>3
  <2>3. CASE t.tx = "adminSetBurnable"
    <3>1. After(c, t)[h] = AfterBurnable(c[h], t)
      BY <1>1, <2>1, <2>3 DEF After, AfterBurnable
    <3> QED
      BY <1>1, <2>1, <2>3, <3>1
  <2> QED
    BY <2>1, <2>2, <2>3
<1> QED
  BY <1>2, <1>3

LEMMA HandlerKeepsBridge ==
    ASSUME NEW c, ChainTyped(c), NEW t \in Transactions, t # Throw,
           NEW h \in DOMAIN c, h[1] \in TokenHandlers \cup {"GmpHandler"}
    PROVE  After(c, t)[h].bridge = c[h].bridge
<1>1. /\ c[h] \in HandlerStorage
      /\ t.tx = "adminSetResource" /\ t.handler = h =>
            t.resource \in Resources /\ After(c, t)[h] = AfterResource(c[h], t)
      /\ t.tx = "adminSetBurnable" /\ t.handler = h =>
            After(c, t)[h] = AfterBurnable(c[h], t)
      /\ ~(t.tx \in {"adminSetResource", "adminSetBurnable"} /\ t.handler = h) =>
            After(c, t)[h] = c[h]
  BY HandlerAfter, Zenon
<1> QED
  BY <1>1 DEF HandlerStorage, AfterResource, AfterBurnable

LEMMA TokenAfter ==
    ASSUME NEW c, ChainTyped(c), NEW t \in Transactions, t # Throw,
           NEW h \in DOMAIN c, h[1] \in TokenHandlers \cup {"GmpHandler"}, NEW r \in Resources
    PROVE  After(c, t)[h].tokenOf[r] =
                IF t.tx = "adminSetResource" /\ t.handler = h /\ t.resource = r
                THEN t.contract ELSE c[h].tokenOf[r]
<1>1. /\ c[h] \in HandlerStorage
      /\ t.tx = "adminSetResource" /\ t.handler = h =>
            t.resource \in Resources /\ After(c, t)[h] = AfterResource(c[h], t)
      /\ t.tx = "adminSetBurnable" /\ t.handler = h =>
            After(c, t)[h] = AfterBurnable(c[h], t)
      /\ ~(t.tx \in {"adminSetResource", "adminSetBurnable"} /\ t.handler = h) =>
            After(c, t)[h] = c[h]
  BY HandlerAfter, Zenon
<1>2. CASE t.tx = "adminSetResource" /\ t.handler = h
  <2>1. AfterResource(c[h], t).tokenOf = [c[h].tokenOf EXCEPT ![t.resource] = t.contract]
    BY <1>1 DEF HandlerStorage, AfterResource
  <2>2. c[h].tokenOf = [s \in Resources |-> c[h].tokenOf[s]]
    BY <1>1 DEF HandlerStorage
  <2> QED
    BY <1>1, <1>2, <2>1, <2>2
<1>3. CASE t.tx = "adminSetBurnable" /\ t.handler = h
  <2>1. AfterBurnable(c[h], t).tokenOf = c[h].tokenOf
    BY <1>1 DEF HandlerStorage, AfterBurnable
  <2> QED
    BY <1>1, <1>3, <2>1
<1> QED
  BY <1>1, <1>2, <1>3

LEMMA BurnableAfter ==
    ASSUME NEW c, ChainTyped(c), NEW t \in Transactions, t # Throw,
           NEW h \in DOMAIN c, h[1] \in TokenHandlers
    PROVE  After(c, t)[h].burnable =
                IF t.tx = "adminSetResource" /\ t.handler = h
                THEN With(c[h].burnable, t.contract, FALSE)
                ELSE IF t.tx = "adminSetBurnable" /\ t.handler = h
                THEN [c[h].burnable EXCEPT ![t.token] = TRUE] ELSE c[h].burnable
<1>1. /\ c[h] \in HandlerStorage
      /\ t.tx = "adminSetResource" /\ t.handler = h =>
            t.resource \in Resources /\ After(c, t)[h] = AfterResource(c[h], t)
      /\ t.tx = "adminSetBurnable" /\ t.handler = h =>
            After(c, t)[h] = AfterBurnable(c[h], t)
      /\ ~(t.tx \in {"adminSetResource", "adminSetBurnable"} /\ t.handler = h) =>
            After(c, t)[h] = c[h]
  BY HandlerAfter, Zenon
<1> QED
  BY <1>1 DEF HandlerStorage, AfterResource, AfterBurnable

LEMMA RouterAfter ==
    ASSUME NEW c, ChainTyped(c), NEW t \in Transactions, t # Throw,
           NEW a \in DOMAIN c, a[1] = "FeeHandlerRouter"
    PROVE  /\ After(c, t)[a].bridge = c[a].bridge
           /\ \A route \in Routes : After(c, t)[a].handlerOf[route] =
                IF t.tx = "adminSetResourceHandler" /\ t.to = a /\ t.route = route
                THEN t.feeHandler ELSE c[a].handlerOf[route]
<1>1. /\ c = [x \in DOMAIN c |-> c[x]] /\ a \in Addresses /\ c[a] \in RouterStorage
  BY DEF ChainTyped, HasType
<1>2. CASE a \notin Touched(t)
  <2>1. After(c, t)[a] = c[a]
    BY <1>2, Untouched
  <2>2. t.tx = "adminSetResourceHandler" => t.to # a
    BY <1>2 DEF Touched
  <2> QED
    BY <2>1, <2>2
<1>3. CASE a \in Touched(t)
  <2>1. t.to = a /\ t.tx \in {"adminSetResourceHandler", "grantAdmin", "renounceRole"}
    BY <1>1, <1>3, TouchedBy
  <2>2. CASE t.tx = "adminSetResourceHandler"
    <3>1. After(c, t)[a] = [c[a] EXCEPT !.handlerOf[t.route] = t.feeHandler]
      BY <1>1, <2>1, <2>2 DEF After
    <3> QED
      BY <1>1, <2>1, <2>2, <3>1 DEF RouterStorage
  <2>3. CASE t.tx = "grantAdmin"
    <3>1. After(c, t)[a] = [c[a] EXCEPT !.admins = @ \cup {t.account}]
      BY <1>1, <2>1, <2>3 DEF After
    <3> QED
      BY <1>1, <2>1, <2>3, <3>1 DEF RouterStorage
  <2>4. CASE t.tx = "renounceRole"
    <3>1. After(c, t)[a] = [c[a] EXCEPT !.admins = @ \ {Deployer}]
      BY <1>1, <2>1, <2>4 DEF After
    <3> QED
      BY <1>1, <2>1, <2>4, <3>1 DEF RouterStorage
  <2> QED
    BY <2>1, <2>2, <2>3, <2>4
<1> QED
  BY <1>2, <1>3

LEMMA FeeHandlerAfter ==
    ASSUME NEW c, ChainTyped(c), NEW t \in Transactions, t # Throw,
           NEW a \in DOMAIN c, a[1] \in FeeHandlers
    PROVE  \A route \in Routes : After(c, t)[a].fee[route] =
                IF t.tx = "changeFee" /\ t.to = a /\ t.route = route
                THEN t.fee ELSE c[a].fee[route]
<1>1. /\ c = [x \in DOMAIN c |-> c[x]] /\ a \in Addresses /\ c[a] \in FeeHandlerStorage(a[1])
  BY DEF ChainTyped, HasType
<1>2. CASE a \notin Touched(t)
  <2>1. After(c, t)[a] = c[a]
    BY <1>2, Untouched
  <2>2. t.tx = "changeFee" => t.to # a
    BY <1>2 DEF Touched
  <2> QED
    BY <2>1, <2>2
<1>3. CASE a \in Touched(t)
  <2>1. t.to = a /\ t.tx \in {"changeFee", "renounceAdmin"}
    BY <1>1, <1>3, TouchedBy
  <2>2. CASE t.tx = "changeFee"
    <3>1. After(c, t)[a] = [c[a] EXCEPT !.fee[t.route] = t.fee]
      BY <1>1, <2>1, <2>2 DEF After
    <3> QED
      BY <1>1, <2>1, <2>2, <3>1 DEF FeeHandlerStorage
  <2>3. CASE t.tx = "renounceAdmin"
    <3>1. After(c, t)[a] = [c[a] EXCEPT !.admins = (@ \cup {t.account}) \ {Deployer}]
      BY <1>1, <2>1, <2>3 DEF After
    <3> QED
      BY <1>1, <2>1, <2>3, <3>1 DEF FeeHandlerStorage
  <2> QED
    BY <2>1, <2>2, <2>3
<1> QED
  BY <1>2, <1>3

\* Nobody who may mint, or have messages handled, ceases to.
LEMMA GrantsAfter ==
    ASSUME NEW c, ChainTyped(c), NEW t \in Transactions, t # Throw, NEW a \in DOMAIN c
    PROVE  /\ a[1] \in Resources => After(c, t)[a].minters =
                IF t.tx = "grantMinter" /\ t.to = a
                THEN c[a].minters \cup {t.handler} ELSE c[a].minters
           /\ a[1] = "DefaultMessageReceiver" => After(c, t)[a].handlers =
                IF t.tx = "grantSygmaHandler" /\ t.to = a
                THEN c[a].handlers \cup {t.handler} ELSE c[a].handlers
<1>1. /\ c = [x \in DOMAIN c |-> c[x]] /\ a \in Addresses
      /\ a[1] = "DefaultMessageReceiver" => c[a] \in ReceiverStorage
      /\ a[1] \in Resources => DOMAIN c[a] = {"admins", "minters"}
  BY DEF ChainTyped, HasType
<1>2. CASE a \notin Touched(t)
  <2>1. After(c, t)[a] = c[a]
    BY <1>2, Untouched
  <2>2. t.tx \in {"grantMinter", "grantSygmaHandler"} => t.to # a
    BY <1>2 DEF Touched
  <2> QED
    BY <2>1, <2>2
<1>3. CASE a \in Touched(t) /\ a[1] \in Resources
  <2>1. t.to = a /\ t.tx = "grantMinter"
    BY <1>1, <1>3, TouchedBy
  <2>2. After(c, t)[a] = [c[a] EXCEPT !.minters = @ \cup {t.handler}]
    BY <1>1, <2>1 DEF After
  <2>3. After(c, t)[a].minters = c[a].minters \cup {t.handler}
    BY <1>1, <1>3, <2>2
  <2>4. "DefaultMessageReceiver" \notin Resources
    BY KindsDiffer DEF Kinds
  <2> QED
    BY <1>3, <2>1, <2>3, <2>4
<1>4. CASE a \in Touched(t) /\ a[1] = "DefaultMessageReceiver"
  <2>1. t.to = a /\ t.tx \in {"grantSygmaHandler", "grantAdmin", "renounceRole"}
    BY <1>1, <1>4, TouchedBy
  <2>2. "DefaultMessageReceiver" \notin Resources
    BY KindsDiffer DEF Kinds
  <2>3. CASE t.tx = "grantSygmaHandler"
    <3>1. After(c, t)[a] = [c[a] EXCEPT !.handlers = @ \cup {t.handler}]
      BY <1>1, <2>1, <2>3 DEF After
    <3> QED
      BY <1>1, <1>4, <2>1, <2>2, <2>3, <3>1 DEF ReceiverStorage
  <2>4. CASE t.tx = "grantAdmin"
    <3>1. After(c, t)[a] = [c[a] EXCEPT !.admins = @ \cup {t.account}]
      BY <1>1, <2>1, <2>4 DEF After
    <3> QED
      BY <1>1, <1>4, <2>1, <2>2, <2>4, <3>1 DEF ReceiverStorage
  <2>5. CASE t.tx = "renounceRole"
    <3>1. After(c, t)[a] = [c[a] EXCEPT !.admins = @ \ {Deployer}]
      BY <1>1, <2>1, <2>5 DEF After
    <3> QED
      BY <1>1, <1>4, <2>1, <2>2, <2>5, <3>1 DEF ReceiverStorage
  <2> QED
    BY <2>1, <2>3, <2>4, <2>5
<1> QED
  BY <1>2, <1>3, <1>4

LEMMA DeployedAfter ==
    ASSUME NEW c, NEW t, t.tx = "deploy"
    PROVE  /\ \A a \in DOMAIN c : After(c, t)[a] = c[a]
           /\ t.to \notin DOMAIN c => After(c, t)[t.to] = t.contract
           /\ DOMAIN After(c, t) = DOMAIN c \cup {t.to}
BY DEF After, Deployed

-----------------------------------------------------------------------------
(* What a transaction is to have achieved, and what undoes it. *)

Amounts(route) == {fee.feeAmount : fee \in {fee \in Entries(Network.fee) : fee.route = route}}

\* The chain is as the transaction leaves it.
Effect(c, u) ==
    CASE u.tx = "adminSetResource" ->
            /\ u.to \in DOMAIN c /\ u.handler \in DOMAIN c /\ u.contract # None
            /\ c[u.to].handlerOf[u.resource] = u.handler
            /\ c[u.handler].tokenOf[u.resource] = u.contract
      [] u.tx = "adminSetBurnable" ->
            /\ u.handler \in DOMAIN c
            /\ u.token \in DOMAIN c[u.handler].burnable /\ c[u.handler].burnable[u.token]
      [] u.tx = "grantMinter" -> u.to # None => u.to \in DOMAIN c /\ u.handler \in c[u.to].minters
      [] u.tx = "grantSygmaHandler" -> u.to \in DOMAIN c /\ u.handler \in c[u.to].handlers
      [] u.tx = "adminChangeFeeHandler" -> u.to \in DOMAIN c /\ c[u.to].feeHandler # None
      [] u.tx = "changeFee" -> u.to \in DOMAIN c /\ c[u.to].fee[u.route] \in Amounts(u.route)

\* Another resource, or another handler, takes its place.
Undoes(t, u) ==
    /\ t.tx = "adminSetResource"
    /\ \/ /\ u.tx = "adminSetResource" /\ t # u /\ t.resource = u.resource
          /\ t.to = u.to \/ t.handler = u.handler
       \/ u.tx = "adminSetBurnable" /\ t.handler = u.handler /\ t.contract = u.token

\* Whatever undoes u is followed by u.
Redone(script, u) ==
    \A j \in DOMAIN script : Undoes(script[j], u) =>
        \E i \in DOMAIN script : j < i /\ script[i] = u

\* When the transactions to come are done, the chain is as u leaves it.
Owed(c, todo, u) == (Effect(c, u) \/ Sends(todo, u)) /\ Redone(todo, u)

\* What makes the Bridge serve a token: its handler, which may mint, burn and,
\* for fungible tokens, have messages handled.
Serving(b, h, x, receiver, kind, r) ==
    {AdminSetResource(b, h, r, x)}
    \cup (IF r \in Burns(kind) /\ x # None
          THEN {AdminSetBurnable(b, h, x), GrantMinter(x, h)} ELSE {})
    \cup (IF kind = "ERC20Handler" THEN {GrantSygmaHandler(receiver, h)} ELSE {})

ToServe(c, todo, b, kind, token) ==
    \E h \in AddressesOf(kind), x \in OrNone(token.resourceID),
       receiver \in AddressesOf("DefaultMessageReceiver") :
        \A u \in Serving(b, h, x, receiver, kind, token.resourceID) : Owed(c, todo, u)

Served(c, b, kind, token) == ToServe(c, <<>>, b, kind, token)

-----------------------------------------------------------------------------
(* What every chain keeps. *)

\* The contracts a transaction takes to be there.
Mentioned(t) ==
    CASE t.tx = "adminSetResource" -> {t.to, t.handler, t.contract}
      [] t.tx = "adminSetBurnable" -> {t.to, t.handler}
      [] t.tx = "adminChangeFeeHandler" -> {t.to, t.feeHandler}
      [] t.tx \in {"endKeygen", "grantMinter", "grantSygmaHandler", "adminSetResourceHandler",
                   "changeFee"} -> {t.to}
      [] OTHER -> {}

\* They are there, or are deployed before.
Grounded(D, script) ==
    \A i \in DOMAIN script : \A a \in Mentioned(script[i]) :
        \/ a \in D \cup {None}
        \/ \E j \in DOMAIN script : j < i /\ script[j].tx = "deploy" /\ script[j].to = a

\* The chain's tokens stay.
Inherits(c) == DOMAIN ExistingTokens \subseteq DOMAIN c

BridgeOf(c, router) == c[router].bridge

Wired(c) ==
    /\ \A b \in DOMAIN c : b[1] = "Bridge" =>
        /\ \A r \in Resources : LET h == c[b].handlerOf[r] IN h # None =>
            /\ h \in DOMAIN c /\ c[h].bridge = b
            /\ h[1] = "GmpHandler" => r = Network.gmp
            /\ h[1] \in TokenHandlers => r \in Handles(h[1])
        /\ LET router == c[b].feeHandler IN router # None =>
            router \in DOMAIN c /\ c[router].bridge = b
    /\ \A h \in DOMAIN c : h[1] \in TokenHandlers =>
        /\ \A r \in Resources : c[h].tokenOf[r] \in DOMAIN c \cup {None}
        /\ \A x \in DOMAIN c[h].burnable : c[h].burnable[x] /\ x # None => x[1] \in Burns(h[1])

Numbered(c) ==
    \A a \in DOMAIN c : a[1] \in {"Bridge", "FeeHandlerRouter"} => a[2] <= NumberOf(c, a[1])

-----------------------------------------------------------------------------
(* What a migration may do to them. *)

\* Whose resources a migration sets.
SetsFor(m) ==
    CASE m = 2 -> {"ERC20Handler", "ERC721Handler"}
      [] m = 3 -> IF Network.gmp # None THEN {"GmpHandler"} ELSE {}
      [] m = 5 -> {"ERC1155Handler"}
      [] m = 7 -> IF RedeployTokenHandlers THEN {"ERC20Handler"} ELSE {}
      [] OTHER -> {}

FeeHandlerFor(d, fee) ==
    IF fee.type = "basic" THEN d["BasicFeeHandler"] ELSE d["PercentageERC20FeeHandler"]

Fees == {fee \in Entries(Network.fee) : fee.type \in {"basic", "percentage"}}

\* One Bridge and one router are concerned.
Proper(m, d, b, router, t) ==
    /\ t.tx = "adminSetResource" => t.to = b /\ t.handler[1] \in SetsFor(m)
    /\ t.tx = "adminChangeFeeHandler" => m = 2 /\ t.to = b /\ t.feeHandler = router
    /\ t.tx = "endKeygen" => m = 2 /\ t.to = b
    /\ t.tx = "deploy" /\ t.to[1] = "Bridge" => m = 2 /\ t.to = b
    /\ t.tx = "deploy" /\ t.to[1] = "FeeHandlerRouter" =>
        m = 2 /\ t.to = router /\ t.contract = NewRouter(b)
    /\ t.tx = "adminSetResourceHandler" => m = 6 /\ t.to = router /\
        \E fee \in Fees : t.route = fee.route /\ t.feeHandler = FeeHandlerFor(d, fee)
    /\ t.tx = "changeFee" => t.fee \in Amounts(t.route)

\* The contracts of the Bridge that a migration is about.
Own2 == {"Bridge", "FeeHandlerRouter", "BasicFeeHandler", "PercentageERC20FeeHandler"}

IsClosed(c, b) == b \in DOMAIN c => c[b].mpc = None

RouterFor(c, router, b) == router \in DOMAIN c => c[router].bridge = b

About(m, d, b, router) ==
    /\ b \in AddressesOf("Bridge") /\ router \in AddressesOf("FeeHandlerRouter")
    /\ m > 2 => b = d["Bridge"] /\ router = d["FeeHandlerRouter"]

NextNumber(c, t) ==
    t.tx = "deploy" /\ t.to[1] \in {"Bridge", "FeeHandlerRouter"} =>
        t.to[2] = NumberOf(c, t.to[1]) + 1

\* What the script that runs has still to do.
ToDo(m, c, d, todo, b, router) ==
    /\ Grounded(DOMAIN c, todo)
    /\ OnceEach(todo)
    /\ \A i \in DOMAIN todo : Proper(m, d, b, router, todo[i]) /\ NextNumber(c, todo[i])
    /\ RouterFor(c, router, b)
    /\ m = 2 =>
        /\ todo # <<>> => IsClosed(c, b)
        /\ \A i \in DOMAIN todo : todo[i].tx = "endKeygen" => i = Len(todo)
        /\ Owed(c, todo, AdminChangeFeeHandler(b, router))
        /\ \A token \in Entries(Network.erc721) : ToServe(c, todo, b, "ERC721Handler", token)
    /\ m = 2 \/ (m = 7 /\ RedeployTokenHandlers) =>
        \A token \in Entries(Network.erc20) : ToServe(c, todo, b, "ERC20Handler", token)
    /\ m = 5 =>
        \A token \in Entries(Network.erc1155) : ToServe(c, todo, b, "ERC1155Handler", token)
    /\ m = 6 => \A fee \in Fees :
        Owed(c, todo, ChangeFee(FeeHandlerFor(d, fee), fee.route, fee.feeAmount))

\* What a transaction that is mined late may do.
Late(m, c, d, t, b, router) ==
    /\ Mentioned(t) \subseteq DOMAIN c \cup {None}
    /\ Proper(m, d, b, router, t) /\ NextNumber(c, t)
    /\ RouterFor(c, router, b)
    /\ m = 2 =>
        /\ IsClosed(c, b)
        /\ t.tx = "endKeygen" =>
            /\ Effect(c, AdminChangeFeeHandler(b, router))
            /\ \A token \in Entries(Network.erc721) : Served(c, b, "ERC721Handler", token)
            /\ \A token \in Entries(Network.erc20) : Served(c, b, "ERC20Handler", token)

Redeploying ==
    completed = 6 /\ RedeployTokenHandlers /\ (Running \/ 7 \in ToSet(stops))

\* Every open Bridge serves its tokens; the one whose handler is being replaced,
\* all but the fungible ones.
OpenIn(c, saved, redeploying) ==
    \A b \in DOMAIN c : b[1] = "Bridge" /\ IsOpen(c, b) =>
        /\ c[b].feeHandler # None
        /\ \A token \in Entries(Network.erc721) : Served(c, b, "ERC721Handler", token)
        /\ b # saved \/ ~redeploying =>
           \A token \in Entries(Network.erc20) : Served(c, b, "ERC20Handler", token)

\* What n migrations have achieved; routes are registered from the sixth on.
AchievedBy(n, c, d, registering) ==
    /\ n < 2 => d["Bridge"] = None /\ d["FeeHandlerRouter"] = None
    /\ n >= 2 /\ d["Bridge"] # None => BridgeOf(c, d["FeeHandlerRouter"]) = d["Bridge"]
    /\ n >= 5 => \A token \in Entries(Network.erc1155) :
        Served(c, d["Bridge"], "ERC1155Handler", token)
    /\ n >= 6 => \A fee \in Fees :
        Effect(c, ChangeFee(FeeHandlerFor(d, fee), fee.route, fee.feeAmount))
    /\ \A router \in DOMAIN c : router[1] = "FeeHandlerRouter" => \A route \in Routes :
        c[router].handlerOf[route] # None =>
            /\ registering /\ router = d["FeeHandlerRouter"]
            /\ \E fee \in Fees : route = fee.route
                /\ c[router].handlerOf[route] = FeeHandlerFor(d, fee)

Registering == completed >= 6 \/ Unfinished = 6

\* What the script that runs has deployed is what the others are about.
Concerns(m, d, deployed, b, router) ==
    /\ m = 2 => deployed["Bridge"] \in {None, b} /\ deployed["FeeHandlerRouter"] \in {None, router}
    /\ m # 2 => \A k \in Own2 : deployed[k] = d[k]

RunsOn(m, c, d, todo, deployed) ==
    \E b, router : /\ About(m, d, b, router)
                   /\ ToDo(m, c, d, todo, b, router)
                   /\ Concerns(m, d, deployed, b, router)

MayBeMined(m, c, d, t) ==
    \E b, router : About(m, d, b, router) /\ Late(m, c, d, t, b, router)

UnderWay ==
    /\ Running /\ ~AddressesAreLost =>
        RunsOn(completed + 1, chain, artifacts, process.todo, process.deployed)
    /\ \A t \in pending :
        completed + 1 \in ToSet(stops) /\ MayBeMined(completed + 1, chain, artifacts, t)

ChainKept(c) == Wired(c) /\ Numbered(c) /\ Inherits(c)

DIInv ==
    /\ ChainKept(chain)
    /\ OpenIn(chain, artifacts["Bridge"], Redeploying)
    /\ AchievedBy(completed, chain, artifacts, Registering)
    /\ UnderWay

-----------------------------------------------------------------------------
(* Effects last. *)

Lasting(u) ==
    /\ u \in Transactions /\ u # Throw
    /\ u.tx \in {"adminSetResource", "adminSetBurnable", "grantMinter", "grantSygmaHandler",
                 "adminChangeFeeHandler", "changeFee"}
    /\ u.tx # "grantMinter" => u.to # None

\* The transaction is mined, and finds what it takes to be there.
Mined(c, t) ==
    /\ t \in Transactions /\ t # Throw /\ Accepted(c, t)
    /\ Mentioned(t) \subseteq DOMAIN c \cup {None}
    /\ t.tx = "changeFee" => t.fee \in Amounts(t.route)

LEMMA EffectAfter ==
    ASSUME NEW c, ChainTyped(c), NEW u, Lasting(u), Mined(c, u)
    PROVE  Effect(After(c, u), u)
<1> DEFINE d == After(c, u)
<1>1. DOMAIN d = DOMAIN c /\ DOMAIN c \subseteq Addresses /\ None \notin DOMAIN c
  BY TransactionTyped, NoneIsNoAddress DEF Lasting, ChainTyped
<1>2. CASE u.tx = "adminSetResource"
  <2>1. u \in ResourceSettings /\ u.to \in AddressesOf("Bridge") /\ u.contract # None
        /\ u.handler \in HandlerAddresses /\ u.resource \in Resources
    BY <1>2, TransactionByName DEF Lasting, ResourceSettings, OrNone, Mined, Accepted
  <2>2. u.to \in DOMAIN c /\ u.handler \in DOMAIN c
    BY <1>2, <2>1, NoneIsNoAddress, KindsDiffer DEF Mined, Mentioned, Kinds
  <2>3. u.to[1] = "Bridge" /\ u.handler[1] \in TokenHandlers \cup {"GmpHandler"}
    BY <2>1 DEF AddressesOf, HandlerAddresses
  <2>4. d[u.to].handlerOf[u.resource] = u.handler
    BY <1>2, <2>1, <2>2, <2>3, BridgeAfter DEF Mined
  <2>5. d[u.handler].tokenOf[u.resource] = u.contract
    BY <1>2, <2>1, <2>2, <2>3, TokenAfter DEF Mined
  <2> QED
    BY <1>1, <1>2, <2>1, <2>2, <2>4, <2>5 DEF Effect
<1>3. CASE u.tx = "adminSetBurnable"
  <2>1. u.handler \in DOMAIN c /\ u.handler[1] \in TokenHandlers
        /\ u.token \in DOMAIN c[u.handler].burnable
    <3>1. u.handler \in TokenHandlers \X Nat /\ u.token \in DOMAIN c[u.handler].burnable
          /\ u.handler \in DOMAIN c \cup {None}
      BY <1>3, TransactionByName DEF Lasting, BurnableSettings, Mined, Accepted, Mentioned
    <3>2. u.handler \in Addresses
      BY <3>1, KindsDiffer DEF HandlerAddresses
    <3> QED
      BY <3>1, <3>2, NoneIsNoAddress
  <2>2. d[u.handler].burnable = [c[u.handler].burnable EXCEPT ![u.token] = TRUE]
    BY <1>3, <2>1, BurnableAfter DEF Mined
  <2> QED
    BY <1>1, <1>3, <2>1, <2>2 DEF Effect
<1>4. CASE u.tx = "grantMinter"
  <2>1. u.to # None => u.to \in DOMAIN c /\ u.to[1] \in Resources
    BY <1>4, TransactionByName DEF Lasting, MinterGrants, Tokens, Mined, Mentioned
  <2>2. u.to # None => u.handler \in d[u.to].minters
    BY <1>4, <2>1, GrantsAfter DEF Mined
  <2> QED
    BY <1>1, <1>4, <2>1, <2>2 DEF Effect
<1>5. CASE u.tx = "grantSygmaHandler"
  <2>1. u.to \in DOMAIN c /\ u.to[1] = "DefaultMessageReceiver"
    BY <1>5, TransactionByName
    DEF Lasting, SygmaHandlerGrants, OrNone, AddressesOf, Mined, Mentioned
  <2>2. u.handler \in d[u.to].handlers
    BY <1>5, <2>1, GrantsAfter DEF Mined
  <2> QED
    BY <1>1, <1>5, <2>1, <2>2 DEF Effect
<1>6. CASE u.tx = "adminChangeFeeHandler"
  <2>1. u.to \in DOMAIN c /\ u.to[1] = "Bridge" /\ u.feeHandler \in AddressesOf("FeeHandlerRouter")
    BY <1>6, TransactionByName
    DEF Lasting, FeeHandlerChanges, OrNone, AddressesOf, Mined, Mentioned
  <2>2. d[u.to].feeHandler = u.feeHandler
    BY <1>6, <2>1, BridgeAfter DEF Mined
  <2>3. u.feeHandler # None
    BY <2>1, NoneIsNoAddress DEF Kinds
  <2> QED
    BY <1>1, <1>6, <2>1, <2>2, <2>3 DEF Effect
<1>7. CASE u.tx = "changeFee"
  <2>1. u.to \in DOMAIN c /\ u.to[1] \in FeeHandlers /\ u.route \in Routes
    <3>1. u \in FeeChanges /\ u.to # None /\ u.to \in DOMAIN c \cup {None}
      BY <1>7, TransactionByName DEF Lasting, Mined, Mentioned
    <3> QED
      BY <3>1 DEF FeeChanges, AnyFeeHandler, OrNone, AddressesOf
  <2>2. d[u.to].fee[u.route] = u.fee
    BY <1>7, <2>1, FeeHandlerAfter DEF Mined
  <2> QED
    BY <1>1, <1>7, <2>1, <2>2 DEF Effect, Mined
<1> QED
  BY <1>2, <1>3, <1>4, <1>5, <1>6, <1>7 DEF Lasting

LEMMA EffectKept ==
    ASSUME NEW c, ChainTyped(c), NEW u, Lasting(u), Effect(c, u),
           NEW t, Mined(c, t), ~Undoes(t, u)
    PROVE  Effect(After(c, t), u)
<1> DEFINE d == After(c, t)
<1>0. t \in Transactions /\ t # Throw
  BY DEF Mined
<1>1. DOMAIN c \subseteq DOMAIN d /\ DOMAIN c \subseteq Addresses /\ None \notin DOMAIN c
  BY <1>0, TransactionTyped, NoneIsNoAddress DEF ChainTyped
<1>2. CASE u.tx = "adminSetResource"
  <2>1. u.to \in DOMAIN c /\ u.handler \in DOMAIN c /\ u.contract # None
        /\ c[u.to].handlerOf[u.resource] = u.handler
        /\ c[u.handler].tokenOf[u.resource] = u.contract
    BY <1>2 DEF Effect
  <2>2. u.to[1] = "Bridge" /\ u.handler[1] \in TokenHandlers \cup {"GmpHandler"}
        /\ u.resource \in Resources
    BY <1>2, TransactionByName
    DEF Lasting, ResourceSettings, OrNone, AddressesOf, HandlerAddresses
  <2>3. t.tx = "adminSetResource" /\ t.resource = u.resource /\ (t.to = u.to \/ t.handler = u.handler)
            => t = u
    BY <1>2 DEF Undoes
  <2>4. d[u.to].handlerOf[u.resource] = u.handler
    BY <1>0, <2>1, <2>2, <2>3, BridgeAfter
  <2>5. d[u.handler].tokenOf[u.resource] = u.contract
    BY <1>0, <2>1, <2>2, <2>3, TokenAfter
  <2> QED
    BY <1>1, <1>2, <2>1, <2>4, <2>5 DEF Effect
<1>3. CASE u.tx = "adminSetBurnable"
  <2> DEFINE m == c[u.handler].burnable
  <2>1. u.handler \in DOMAIN c /\ u.handler[1] \in TokenHandlers /\ u.token \in DOMAIN m /\ m[u.token]
    BY <1>3, TransactionByName DEF Lasting, BurnableSettings, Effect
  <2>2. ~(t.tx = "adminSetResource" /\ t.handler = u.handler /\ t.contract = u.token)
    BY <1>3 DEF Undoes
  <2>3. d[u.handler].burnable =
            IF t.tx = "adminSetResource" /\ t.handler = u.handler THEN With(m, t.contract, FALSE)
            ELSE IF t.tx = "adminSetBurnable" /\ t.handler = u.handler
            THEN [m EXCEPT ![t.token] = TRUE] ELSE m
    BY <1>0, <2>1, BurnableAfter
  <2> HIDE DEF m
  <2>4. u.token \in DOMAIN d[u.handler].burnable /\ d[u.handler].burnable[u.token]
    <3>1. CASE t.tx = "adminSetResource" /\ t.handler = u.handler
      BY <2>1, <2>2, <2>3, <3>1 DEF With
    <3>2. CASE t.tx = "adminSetBurnable" /\ t.handler = u.handler
      BY <2>1, <2>3, <3>2
    <3>3. CASE ~(t.tx = "adminSetResource" /\ t.handler = u.handler)
               /\ ~(t.tx = "adminSetBurnable" /\ t.handler = u.handler)
      BY <2>1, <2>3, <3>3
    <3> QED
      BY <3>1, <3>2, <3>3
  <2>5. u.handler \in DOMAIN d
    BY <1>1, <2>1
  <2> HIDE DEF d
  <2>6. Effect(d, u)
    BY <1>3, <2>4, <2>5 DEF Effect
  <2> QED
    BY <2>6 DEF d
<1>4. CASE u.tx = "grantMinter"
  <2>1. u.to # None => u.to \in DOMAIN c /\ u.to[1] \in Resources /\ u.handler \in c[u.to].minters
    BY <1>4, TransactionByName DEF Lasting, MinterGrants, Tokens, Effect
  <2>2. u.to # None => u.handler \in d[u.to].minters
    BY <1>0, <2>1, GrantsAfter
  <2> QED
    BY <1>1, <1>4, <2>1, <2>2 DEF Effect
<1>5. CASE u.tx = "grantSygmaHandler"
  <2>1. u.to \in DOMAIN c /\ u.to[1] = "DefaultMessageReceiver" /\ u.handler \in c[u.to].handlers
    BY <1>5, TransactionByName DEF Lasting, SygmaHandlerGrants, OrNone, AddressesOf, Effect
  <2>2. u.handler \in d[u.to].handlers
    BY <1>0, <2>1, GrantsAfter
  <2> QED
    BY <1>1, <1>5, <2>1, <2>2 DEF Effect
<1>6. CASE u.tx = "adminChangeFeeHandler"
  <2>1. u.to \in DOMAIN c /\ u.to[1] = "Bridge" /\ c[u.to].feeHandler # None
    BY <1>6, TransactionByName DEF Lasting, FeeHandlerChanges, AddressesOf, Effect
  <2>2. t.tx = "adminChangeFeeHandler" => t.feeHandler # None
    BY <1>0, TransactionByName, NoneIsNoAddress DEF FeeHandlerChanges, Kinds
  <2>3. d[u.to].feeHandler # None
    BY <1>0, <2>1, <2>2, BridgeAfter
  <2> QED
    BY <1>1, <1>6, <2>1, <2>3 DEF Effect
<1>7. CASE u.tx = "changeFee"
  <2>1. u.to \in DOMAIN c /\ c[u.to].fee[u.route] \in Amounts(u.route)
    BY <1>7 DEF Effect
  <2>2. u.to[1] \in FeeHandlers /\ u.route \in Routes
    <3>1. u \in FeeChanges /\ u.to # None
      BY <1>7, TransactionByName DEF Lasting
    <3> QED
      BY <3>1 DEF FeeChanges, AnyFeeHandler, OrNone, AddressesOf
  <2>3. d[u.to].fee[u.route] \in Amounts(u.route)
    BY <1>0, <2>1, <2>2, FeeHandlerAfter DEF Mined
  <2> QED
    BY <1>1, <1>7, <2>1, <2>3 DEF Effect
<1> QED
  BY <1>2, <1>3, <1>4, <1>5, <1>6, <1>7 DEF Lasting

\* Each transaction to come that is mined leaves less to be done.
LEMMA OwedKept ==
    ASSUME NEW c, ChainTyped(c), NEW T, NEW todo \in Seq(T), todo # <<>>,
           Mined(c, Head(todo)), NEW u, Lasting(u), Owed(c, todo, u)
    PROVE  Owed(After(c, Head(todo)), Tail(todo), u)
<1> DEFINE t == Head(todo)
           s == Tail(todo)
<1>1. /\ \A i \in DOMAIN s : i + 1 \in DOMAIN todo /\ i \in Nat /\ s[i] = todo[i + 1]
      /\ \A i \in DOMAIN todo : \/ i = 1 /\ todo[i] = t
                                \/ i - 1 \in DOMAIN s /\ s[i - 1] = todo[i]
      /\ 1 \in DOMAIN todo /\ todo[1] = t
      /\ DOMAIN todo \subseteq Nat
  <2>1. DOMAIN todo = 1 .. Len(todo) /\ Len(todo) \in Nat
    OBVIOUS
  <2> QED
    BY <2>1, TailOf
<1> HIDE DEF t, s
<1>2. ASSUME NEW j \in DOMAIN todo, Undoes(todo[j], u)
      PROVE  Sends(s, u) /\ \A k \in DOMAIN s : k + 1 = j => \E i \in DOMAIN s : k < i /\ s[i] = u
  <2>1. PICK i \in DOMAIN todo : j < i /\ todo[i] = u
    BY <1>2 DEF Owed, Redone
  <2>2. i # 1
    <3>1. j \in DOMAIN todo /\ j \in Nat /\ j # 0
      <4>1. DOMAIN todo = 1 .. Len(todo) /\ Len(todo) \in Nat
        OBVIOUS
      <4> QED
        BY <4>1
    <3> QED
      BY <2>1, <3>1
  <2>3. i - 1 \in DOMAIN s /\ s[i - 1] = u
    BY <1>1, <2>1, <2>2
  <2>4. \A k \in DOMAIN s : k + 1 = j => k < i - 1
    BY <1>1, <2>1
  <2> QED
    BY <2>3, <2>4 DEF Sends
<1>3. Redone(s, u)
  <2> SUFFICES ASSUME NEW j \in DOMAIN s, Undoes(s[j], u)
      PROVE  \E i \in DOMAIN s : j < i /\ s[i] = u
    BY DEF Redone
  <2>1. j + 1 \in DOMAIN todo /\ Undoes(todo[j + 1], u)
    BY <1>1
  <2> QED
    BY <2>1, <1>2
<1>4. Effect(After(c, t), u) \/ Sends(s, u)
  <2>1. CASE t = u
    BY <2>1, EffectAfter DEF t
  <2>2. CASE t # u /\ Sends(todo, u)
    <3>1. PICK i \in DOMAIN todo : todo[i] = u
      BY <2>2 DEF Sends
    <3> QED
      BY <1>1, <2>2, <3>1 DEF Sends
  <2>3. CASE Effect(c, u) /\ Undoes(t, u)
    BY <1>1, <1>2, <2>3
  <2>4. CASE Effect(c, u) /\ ~Undoes(t, u)
    BY <2>4, EffectKept DEF t
  <2> QED
    BY <2>1, <2>2, <2>3, <2>4 DEF Owed
<1> QED
  BY <1>3, <1>4 DEF Owed, t, s

LEMMA ServingLasts ==
    ASSUME NEW kind \in TokenHandlers, NEW token \in Listed(kind),
           NEW b \in AddressesOf("Bridge"), NEW h \in AddressesOf(kind),
           NEW x \in OrNone(token.resourceID),
           NEW receiver \in AddressesOf("DefaultMessageReceiver"),
           NEW u \in Serving(b, h, x, receiver, kind, token.resourceID)
    PROVE  Lasting(u)
<1>1. /\ h \in TokenHandlers \X Nat /\ h[1] = kind /\ b \in OrNone("Bridge") /\ b # None
      /\ receiver \in OrNone("DefaultMessageReceiver") /\ receiver # None
  BY NoneIsNoAddress DEF AddressesOf, OrNone, Kinds
<1>2. x \in Tokens \cup {None} /\ (x # None => x[1] = token.resourceID)
  BY TokenListTyped DEF OrNone, AddressesOf
<1>3. \A t \in LoopSteps : t \in Transactions
  BY LoopStepsAreTransactions
<1>4. CASE u = AdminSetResource(b, h, token.resourceID, x)
  <2>1. u \in LoopSteps
    BY <1>1, <1>4, SetResourceIsTransaction
  <2>2. u.tx = "adminSetResource" /\ u.to = b /\ u # Throw
    BY <1>4 DEF AdminSetResource, Throw
  <2> QED
    BY <1>1, <1>3, <2>1, <2>2 DEF Lasting
<1>5. CASE token.resourceID \in Burns(kind) /\ u = AdminSetBurnable(b, h, x)
  <2>1. u \in BurnableSettings
    BY <1>1, <1>2, <1>5 DEF AdminSetBurnable, BurnableSettings
  <2>2. u.tx = "adminSetBurnable" /\ u.to = b /\ u # Throw
    BY <1>5 DEF AdminSetBurnable, Throw
  <2> QED
    BY <1>1, <2>1, <2>2 DEF Lasting, Transactions, Calls, Settings
<1>6. CASE u = GrantMinter(x, h)
  <2>1. u \in MinterGrants
    BY <1>1, <1>2, <1>6 DEF GrantMinter, MinterGrants
  <2>2. u.tx = "grantMinter" /\ u # Throw
    BY <1>6 DEF GrantMinter, Throw
  <2> QED
    BY <2>1, <2>2 DEF Lasting, Transactions, Calls, Settings
<1>7. CASE kind = "ERC20Handler" /\ u = GrantSygmaHandler(receiver, h)
  <2>1. u \in SygmaHandlerGrants
    BY <1>1, <1>7 DEF GrantSygmaHandler, SygmaHandlerGrants
  <2>2. u.tx = "grantSygmaHandler" /\ u # Throw /\ u.to = receiver
    BY <1>7 DEF GrantSygmaHandler, Throw
  <2> QED
    BY <1>1, <2>1, <2>2 DEF Lasting, Transactions, Calls, Settings
<1> QED
  BY <1>4, <1>5, <1>6, <1>7 DEF Serving

LEMMA ToServeKept ==
    ASSUME NEW c, ChainTyped(c), NEW T, NEW todo \in Seq(T), todo # <<>>,
           Mined(c, Head(todo)), NEW kind \in TokenHandlers, NEW token \in Listed(kind),
           NEW b \in AddressesOf("Bridge"), ToServe(c, todo, b, kind, token)
    PROVE  ToServe(After(c, Head(todo)), Tail(todo), b, kind, token)
<1>1. PICK h \in AddressesOf(kind), x \in OrNone(token.resourceID),
           receiver \in AddressesOf("DefaultMessageReceiver") :
              \A u \in Serving(b, h, x, receiver, kind, token.resourceID) : Owed(c, todo, u)
  BY DEF ToServe
<1>2. \A u \in Serving(b, h, x, receiver, kind, token.resourceID) :
          Owed(After(c, Head(todo)), Tail(todo), u)
  BY <1>1, ServingLasts, OwedKept
<1> QED
  BY <1>2 DEF ToServe

LEMMA ServedNow ==
    ASSUME NEW c, NEW u
    PROVE  Owed(c, <<>>, u) <=> Effect(c, u)
<1>1. ~Sends(<<>>, u) /\ Redone(<<>>, u)
  BY DEF Sends, Redone
<1> QED
  BY <1>1 DEF Owed

\* A Bridge serves a token until the resource is given another handler.
LEMMA ServedKept ==
    ASSUME NEW c, ChainTyped(c), Wired(c), NEW t, Mined(c, t),
           NEW kind \in TokenHandlers, NEW token \in Listed(kind),
           NEW b \in AddressesOf("Bridge"), Served(c, b, kind, token),
           ~(t.tx = "adminSetResource" /\ t.to = b /\ t.resource = token.resourceID)
    PROVE  Served(After(c, t), b, kind, token)
<1> DEFINE r == token.resourceID
<1>1. PICK h \in AddressesOf(kind), x \in OrNone(r),
           receiver \in AddressesOf("DefaultMessageReceiver") :
              \A u \in Serving(b, h, x, receiver, kind, r) : Effect(c, u)
  BY ServedNow DEF Served, ToServe
<1>2. r \in Resources /\ h[1] = kind /\ b[1] = "Bridge"
  BY TokenListTyped DEF AddressesOf
<1>3. /\ b \in DOMAIN c /\ h \in DOMAIN c /\ x # None
      /\ c[b].handlerOf[r] = h
  <2>1. AdminSetResource(b, h, r, x) \in Serving(b, h, x, receiver, kind, r)
    BY DEF Serving
  <2>2. Effect(c, AdminSetResource(b, h, r, x))
    BY <1>1, <2>1
  <2> QED
    BY <2>2 DEF Effect, AdminSetResource
<1>4. c[h].bridge = b
  <2>1. h # None
    BY <1>3, NoneIsNoAddress DEF ChainTyped
  <2> QED
    BY <1>2, <1>3, <2>1 DEF Wired
<1>5. t.tx = "adminSetResource" /\ t.handler = h => t.resource # r /\ t.contract # x
  <2> SUFFICES ASSUME t.tx = "adminSetResource", t.handler = h
      PROVE  t.resource # r /\ t.contract # x
    OBVIOUS
  <2>1. t.to = b
    BY <1>4 DEF Mined, Accepted, FromBridge
  <2>2. t.contract \in OrNone(t.resource)
    BY <1>2, TransactionByName DEF Mined, ResourceSettings
  <2>3. t.resource # r
    BY <2>1
  <2> QED
    BY <1>3, <2>2, <2>3 DEF OrNone, AddressesOf
<1>6. ASSUME NEW u \in Serving(b, h, x, receiver, kind, r)
      PROVE  ~Undoes(t, u)
  <2>1. /\ u.tx = "adminSetResource" => u.to = b /\ u.handler = h /\ u.resource = r
        /\ u.tx = "adminSetBurnable" => u.handler = h /\ u.token = x
    BY DEF Serving, AdminSetResource, AdminSetBurnable, GrantMinter, GrantSygmaHandler
  <2> QED
    BY <1>5, <2>1 DEF Undoes
<1>7. \A u \in Serving(b, h, x, receiver, kind, r) : Effect(After(c, t), u)
  BY <1>1, <1>6, ServingLasts, EffectKept
<1> QED
  BY <1>7, ServedNow DEF Served, ToServe

-----------------------------------------------------------------------------
(* What every chain keeps is kept. *)

LEMMA NewContracts ==
    ASSUME NEW t \in Deployments
    PROVE  /\ t.to[1] = "Bridge" => \E access : t.contract = NewBridge(access)
           /\ t.to[1] \in TokenHandlers \cup {"GmpHandler"} => \E b : t.contract = NewHandler(b)
           /\ t.to[1] = "FeeHandlerRouter" => \E b : t.contract = NewRouter(b)
           /\ t.to[1] \in FeeHandlers => t.contract = NewFeeHandler
<1> USE KindsDiffer
<1>1. CASE t \in {Deploy(a, <<>>) : a \in Plain \X Nat}
  BY <1>1 DEF Deploy, Plain, TokenHandlers, FeeHandlers
<1>2. CASE t \in {Deploy(a, NewAccess(GenerateAccessControlFuncSignatures)) :
              a \in AddressesOf("AccessControlSegregator")}
  BY <1>2 DEF Deploy, Kinds, TokenHandlers, FeeHandlers
<1>3. CASE t \in {Deploy(a, NewBridge(access)) :
              a \in AddressesOf("Bridge"), access \in AddressesOf("AccessControlSegregator")}
  BY <1>3 DEF Deploy, Kinds, TokenHandlers, FeeHandlers
<1>4. CASE t \in {Deploy(a, NewHandler(b)) : a \in HandlerAddresses, b \in OrNone("Bridge")}
  BY <1>4 DEF Deploy, Kinds, TokenHandlers, FeeHandlers
<1>5. CASE t \in {Deploy(a, NewToken) : a \in Tokens}
  BY <1>5 DEF Deploy, Kinds, TokenHandlers, FeeHandlers
<1>6. CASE t \in {Deploy(a, NewReceiver) : a \in AddressesOf("DefaultMessageReceiver")}
  BY <1>6 DEF Deploy, Kinds, TokenHandlers, FeeHandlers
<1>7. CASE t \in {Deploy(a, NewRouter(b)) :
              a \in AddressesOf("FeeHandlerRouter"), b \in AddressesOf("Bridge")}
  BY <1>7 DEF Deploy, Kinds, TokenHandlers, FeeHandlers
<1>8. CASE t \in {Deploy(a, NewFeeHandler) : a \in FeeHandlers \X Nat}
  BY <1>8 DEF Deploy, Kinds, TokenHandlers, FeeHandlers
<1> QED
  BY <1>1, <1>2, <1>3, <1>4, <1>5, <1>6, <1>7, <1>8 DEF Deployments

WiredBridge(c, b) ==
    /\ \A r \in Resources : LET h == c[b].handlerOf[r] IN h # None =>
        /\ h \in DOMAIN c /\ c[h].bridge = b
        /\ h[1] = "GmpHandler" => r = Network.gmp
        /\ h[1] \in TokenHandlers => r \in Handles(h[1])
    /\ LET router == c[b].feeHandler IN router # None =>
        router \in DOMAIN c /\ c[router].bridge = b

WiredHandler(c, h) ==
    /\ \A r \in Resources : c[h].tokenOf[r] \in DOMAIN c \cup {None}
    /\ \A x \in DOMAIN c[h].burnable : c[h].burnable[x] /\ x # None => x[1] \in Burns(h[1])

LEMMA WiredParts ==
    ASSUME NEW c
    PROVE  Wired(c) <=> /\ \A b \in DOMAIN c : b[1] = "Bridge" => WiredBridge(c, b)
                        /\ \A h \in DOMAIN c : h[1] \in TokenHandlers => WiredHandler(c, h)
BY Zenon DEF Wired, WiredBridge, WiredHandler

\* A Bridge's handlers and router are there, and do not change their Bridge.
LEMMA KeepsBridge ==
    ASSUME NEW c, ChainTyped(c), NEW t \in Transactions, t # Throw, NEW a \in DOMAIN c,
           a[1] \in TokenHandlers \cup {"GmpHandler", "FeeHandlerRouter"}
    PROVE  After(c, t)[a].bridge = c[a].bridge
<1>1. CASE a[1] \in TokenHandlers \cup {"GmpHandler"}
  BY <1>1, HandlerKeepsBridge
<1>2. CASE a[1] = "FeeHandlerRouter"
  BY <1>2, RouterAfter
<1> QED
  BY <1>1, <1>2

LEMMA WiredBridgeAfter ==
    ASSUME NEW c, ChainTyped(c), Wired(c), NEW t, Mined(c, t),
           t.tx = "adminChangeFeeHandler" => c[t.feeHandler].bridge = t.to,
           NEW b \in DOMAIN c, b[1] = "Bridge"
    PROVE  WiredBridge(After(c, t), b)
<1> DEFINE d == After(c, t)
<1>0. t \in Transactions /\ t # Throw
  BY DEF Mined
<1>1. DOMAIN c \subseteq DOMAIN d /\ DOMAIN c \subseteq Addresses /\ None \notin DOMAIN c
  BY <1>0, TransactionTyped, NoneIsNoAddress DEF ChainTyped
<1>2. WiredBridge(c, b)
  BY WiredParts
<1>3. c[b] \in BridgeStorage
  BY DEF ChainTyped, HasType
<1>4. ASSUME NEW r \in Resources, NEW h, h = d[b].handlerOf[r], h # None
      PROVE  /\ h \in DOMAIN d /\ d[h].bridge = b
             /\ h[1] = "GmpHandler" => r = Network.gmp
             /\ h[1] \in TokenHandlers => r \in Handles(h[1])
  <2>1. h = IF t.tx = "adminSetResource" /\ t.to = b /\ t.resource = r
            THEN t.handler ELSE c[b].handlerOf[r]
    BY <1>0, <1>4, BridgeAfter
  <2>2. CASE t.tx = "adminSetResource" /\ t.to = b /\ t.resource = r
    <3>1. h = t.handler /\ t \in ResourceSettings
      BY <1>0, <2>1, <2>2, TransactionByName
    <3>2. h \in DOMAIN c /\ c[h].bridge = b
      BY <1>4, <2>2, <3>1 DEF Mined, Mentioned, Accepted, FromBridge
    <3>3. h[1] \in TokenHandlers \cup {"GmpHandler"}
      BY <3>1, KindsDiffer DEF ResourceSettings
    <3>4. d[h].bridge = b
      BY <1>0, <3>2, <3>3, KeepsBridge
    <3>5. (h[1] = "GmpHandler" => r = Network.gmp) /\ (h[1] \in TokenHandlers => r \in Handles(h[1]))
      BY <2>2, <3>1 DEF ResourceSettings
    <3> QED
      BY <1>1, <3>2, <3>4, <3>5
  <2>3. CASE ~(t.tx = "adminSetResource" /\ t.to = b /\ t.resource = r)
    <3>1. h = c[b].handlerOf[r]
      BY <2>1, <2>3
    <3>2. /\ h \in DOMAIN c /\ c[h].bridge = b
          /\ h[1] = "GmpHandler" => r = Network.gmp
          /\ h[1] \in TokenHandlers => r \in Handles(h[1])
      BY <1>2, <1>4, <3>1 DEF WiredBridge
    <3>3. h[1] \in TokenHandlers \cup {"GmpHandler"}
      <4>1. h \in HandlerAddresses
        BY <1>3, <1>4, <3>1 DEF BridgeStorage
      <4> QED
        BY <4>1, KindsDiffer
    <3>4. d[h].bridge = b
      BY <1>0, <3>2, <3>3, KeepsBridge
    <3> QED
      BY <1>1, <3>2, <3>4
  <2> QED
    BY <2>2, <2>3
<1>5. ASSUME NEW router, router = d[b].feeHandler, router # None
      PROVE  router \in DOMAIN d /\ d[router].bridge = b
  <2>1. router = IF t.tx = "adminChangeFeeHandler" /\ t.to = b THEN t.feeHandler
                 ELSE c[b].feeHandler
    BY <1>0, <1>5, BridgeAfter
  <2>2. router \in DOMAIN c /\ c[router].bridge = b /\ router[1] = "FeeHandlerRouter"
    <3>1. CASE t.tx = "adminChangeFeeHandler" /\ t.to = b
      <4>1. router = t.feeHandler /\ t \in FeeHandlerChanges
        BY <1>0, <2>1, <3>1, TransactionByName
      <4> QED
        BY <1>5, <3>1, <4>1 DEF Mined, Mentioned, FeeHandlerChanges, AddressesOf
    <3>2. CASE ~(t.tx = "adminChangeFeeHandler" /\ t.to = b)
      <4>1. router = c[b].feeHandler
        BY <2>1, <3>2
      <4> QED
        BY <1>2, <1>3, <1>5, <4>1 DEF WiredBridge, BridgeStorage, OrNone, AddressesOf
    <3> QED
      BY <3>1, <3>2
  <2> QED
    BY <1>0, <1>1, <2>2, KeepsBridge
<1> HIDE DEF d
<1>6. WiredBridge(d, b)
  BY <1>4, <1>5 DEF WiredBridge
<1> QED
  BY <1>6 DEF d

LEMMA WiredHandlerAfter ==
    ASSUME NEW c, ChainTyped(c), Wired(c), NEW t, Mined(c, t),
           NEW h \in DOMAIN c, h[1] \in TokenHandlers
    PROVE  WiredHandler(After(c, t), h)
<1> DEFINE d == After(c, t)
<1>0. t \in Transactions /\ t # Throw
  BY DEF Mined
<1>1. DOMAIN c \subseteq DOMAIN d
  BY <1>0, TransactionTyped
<1>2. WiredHandler(c, h)
  BY WiredParts
<1>3. ASSUME NEW r \in Resources PROVE d[h].tokenOf[r] \in DOMAIN d \cup {None}
  <2>1. d[h].tokenOf[r] = IF t.tx = "adminSetResource" /\ t.handler = h /\ t.resource = r
                          THEN t.contract ELSE c[h].tokenOf[r]
    BY <1>0, TokenAfter
  <2>2. t.tx = "adminSetResource" => t.contract \in DOMAIN c \cup {None}
    BY DEF Mined, Mentioned
  <2>3. c[h].tokenOf[r] \in DOMAIN c \cup {None}
    BY <1>2 DEF WiredHandler
  <2> HIDE DEF d
  <2> QED
    BY <1>1, <2>1, <2>2, <2>3
<1>4. ASSUME NEW x \in DOMAIN d[h].burnable, d[h].burnable[x], x # None PROVE x[1] \in Burns(h[1])
  <2> DEFINE m == c[h].burnable
  <2>1. d[h].burnable = IF t.tx = "adminSetResource" /\ t.handler = h THEN With(m, t.contract, FALSE)
            ELSE IF t.tx = "adminSetBurnable" /\ t.handler = h
            THEN [m EXCEPT ![t.token] = TRUE] ELSE m
    BY <1>0, BurnableAfter
  <2>2. \A y \in DOMAIN m : m[y] /\ y # None => y[1] \in Burns(h[1])
    BY <1>2 DEF WiredHandler
  <2> HIDE DEF m, d
  <2>3. CASE t.tx = "adminSetResource" /\ t.handler = h
    BY <1>4, <2>1, <2>2, <2>3 DEF With
  <2>4. CASE t.tx = "adminSetBurnable" /\ t.handler = h
    <3>1. t.token # None => t.token[1] \in Burns(h[1])
      BY <1>0, <2>4, TransactionByName DEF BurnableSettings
    <3>2. d[h].burnable = [m EXCEPT ![t.token] = TRUE]
      BY <2>1, <2>4
    <3>3. x \in DOMAIN m
      BY <1>4, <3>2
    <3>4. CASE x = t.token
      BY <1>4, <3>1, <3>4
    <3>5. CASE x # t.token
      <4>1. d[h].burnable[x] = m[x]
        BY <3>2, <3>3, <3>5
      <4> QED
        BY <1>4, <2>2, <3>3, <4>1
    <3> QED
      BY <3>4, <3>5
  <2>5. CASE /\ ~(t.tx = "adminSetResource" /\ t.handler = h)
             /\ ~(t.tx = "adminSetBurnable" /\ t.handler = h)
    BY <1>4, <2>1, <2>2, <2>5
  <2> QED
    BY <2>3, <2>4, <2>5
<1> HIDE DEF d
<1>5. WiredHandler(d, h)
  BY <1>3, <1>4 DEF WiredHandler
<1> QED
  BY <1>5 DEF d

LEMMA WiredAfter ==
    ASSUME NEW c, ChainTyped(c), Wired(c), NEW t, Mined(c, t),
           t.tx = "adminChangeFeeHandler" => c[t.feeHandler].bridge = t.to
    PROVE  Wired(After(c, t))
<1> DEFINE d == After(c, t)
<1>0. t \in Transactions /\ t # Throw
  BY DEF Mined
<1>1. DOMAIN d = IF t.tx = "deploy" THEN DOMAIN c \cup {t.to} ELSE DOMAIN c
  BY <1>0, TransactionTyped
<1>2. ASSUME NEW a \in DOMAIN d, a \notin DOMAIN c
      PROVE  /\ a[1] = "Bridge" => WiredBridge(d, a)
             /\ a[1] \in TokenHandlers => WiredHandler(d, a)
  <2>1. t.tx = "deploy" /\ t \in Deployments /\ a = t.to
    BY <1>0, <1>1, <1>2, TransactionByName
  <2>2. d[a] = t.contract
    BY <1>2, <2>1, DeployedAfter
  <2>3. a[1] = "Bridge" => \E access : d[a] = NewBridge(access)
    BY <2>1, <2>2, NewContracts
  <2>4. a[1] \in TokenHandlers => \E b : d[a] = NewHandler(b)
    BY <2>1, <2>2, NewContracts
  <2> HIDE DEF d
  <2>5. a[1] = "Bridge" => WiredBridge(d, a)
    BY <2>3 DEF NewBridge, WiredBridge
  <2>6. a[1] \in TokenHandlers => WiredHandler(d, a)
    BY <2>4 DEF NewHandler, WiredHandler
  <2> QED
    BY <2>5, <2>6
<1>3. \A a \in DOMAIN c : /\ a[1] = "Bridge" => WiredBridge(d, a)
                          /\ a[1] \in TokenHandlers => WiredHandler(d, a)
  BY WiredBridgeAfter, WiredHandlerAfter
<1> HIDE DEF d
<1>4. Wired(d)
  BY <1>2, <1>3, WiredParts
<1> QED
  BY <1>4 DEF d

\* The number of the address a Bridge or router is deployed at is the next.
LEMMA NumberedAfter ==
    ASSUME NEW c, ChainTyped(c), Numbered(c), NEW t \in Transactions, t # Throw, NextNumber(c, t)
    PROVE  /\ Numbered(After(c, t))
           /\ \A k \in {"Bridge", "FeeHandlerRouter"} :
                ~(t.tx = "deploy" /\ t.to[1] = k) => NumberOf(After(c, t), k) = NumberOf(c, k)
           /\ t.tx = "deploy" /\ t.to[1] \in {"Bridge", "FeeHandlerRouter"} => t.to \notin DOMAIN c
<1> DEFINE d == After(c, t)
           S(k) == {a \in DOMAIN c : a[1] = k}
<1>1. DOMAIN d = IF t.tx = "deploy" THEN DOMAIN c \cup {t.to} ELSE DOMAIN c
  BY TransactionTyped
<1>2. \A k : IsFiniteSet(S(k)) /\ NumberOf(c, k) = Cardinality(S(k)) /\ NumberOf(c, k) \in Nat
  <2> SUFFICES ASSUME NEW k
      PROVE  IsFiniteSet(S(k)) /\ NumberOf(c, k) = Cardinality(S(k)) /\ NumberOf(c, k) \in Nat
    OBVIOUS
  <2>1. IsFiniteSet(S(k))
    BY FS_Subset DEF ChainTyped
  <2> QED
    BY <2>1, FreshTyped DEF NumberOf
<1>3. CASE ~(t.tx = "deploy" /\ t.to[1] \in {"Bridge", "FeeHandlerRouter"})
  <2>1. \A k \in {"Bridge", "FeeHandlerRouter"} :
            {a \in DOMAIN d : a[1] = k} = {a \in DOMAIN c : a[1] = k}
    BY <1>1, <1>3
  <2>2. \A k \in {"Bridge", "FeeHandlerRouter"} : NumberOf(d, k) = NumberOf(c, k)
    BY <2>1 DEF NumberOf
  <2>3. \A a \in DOMAIN d : a[1] \in {"Bridge", "FeeHandlerRouter"} => a \in DOMAIN c
    BY <1>1, <1>3
  <2> HIDE DEF d
  <2>4. Numbered(d)
    BY <2>2, <2>3 DEF Numbered
  <2> QED
    BY <1>3, <2>2, <2>4 DEF d
<1>4. CASE t.tx = "deploy" /\ t.to[1] \in {"Bridge", "FeeHandlerRouter"}
  <2> DEFINE l == t.to[1]
             n == NumberOf(c, l)
  <2>1. t.to[2] = n + 1 /\ n \in Nat
    BY <1>2, <1>4 DEF NextNumber
  <2>2. t.to \notin DOMAIN c
    <3> SUFFICES ASSUME t.to \in DOMAIN c PROVE FALSE
      OBVIOUS
    <3>1. t.to[2] <= n
      BY <1>4 DEF Numbered
    <3> QED
      BY <2>1, <3>1
  <2>3. {a \in DOMAIN d : a[1] = l} = S(l) \cup {t.to} /\ t.to \notin S(l)
    BY <1>1, <1>4, <2>2
  <2>4. NumberOf(d, l) = n + 1
    <3> DEFINE s == S(l)
    <3>0. IsFiniteSet(s) /\ t.to \notin s
      BY <1>2, <2>3
    <3> HIDE DEF s
    <3>1. Cardinality(s \cup {t.to}) = Cardinality(s) + 1
      BY <3>0, FS_AddElement
    <3> QED
      BY <1>2, <2>3, <3>1 DEF NumberOf, s
  <2>5. \A k \in {"Bridge", "FeeHandlerRouter"} : k # l => NumberOf(d, k) = NumberOf(c, k)
    <3>1. \A k \in {"Bridge", "FeeHandlerRouter"} : k # l =>
            {a \in DOMAIN d : a[1] = k} = {a \in DOMAIN c : a[1] = k}
      BY <1>1, <1>4
    <3> QED
      BY <3>1 DEF NumberOf
  <2>6. \A a \in DOMAIN d : a \in DOMAIN c \/ a = t.to
    BY <1>1, <1>4
  <2>7. \A a \in DOMAIN c : a[1] \in {"Bridge", "FeeHandlerRouter"} =>
            a[2] <= NumberOf(c, a[1]) /\ a[2] \in Nat
    <3>1. DOMAIN c \subseteq Addresses
      BY DEF ChainTyped
    <3> QED
      BY <3>1 DEF Numbered, Addresses
  <2> HIDE DEF d, l, n
  <2>8. Numbered(d)
    <3> SUFFICES ASSUME NEW a \in DOMAIN d, a[1] \in {"Bridge", "FeeHandlerRouter"}
        PROVE  a[2] <= NumberOf(d, a[1])
      BY DEF Numbered
    <3>1. CASE a = t.to
      BY <2>1, <2>4, <3>1 DEF l
    <3>2. CASE a \in DOMAIN c /\ a[1] = l
      BY <2>1, <2>4, <2>7, <3>2 DEF n
    <3>3. CASE a \in DOMAIN c /\ a[1] # l
      BY <2>5, <2>7, <3>3
    <3> QED
      BY <2>6, <3>1, <3>2, <3>3
  <2> QED
    BY <1>4, <2>2, <2>5, <2>8 DEF d, l
<1> QED
  BY <1>3, <1>4

-----------------------------------------------------------------------------
(* Scripts that are joined. *)

DeployedBy(script) ==
    {script[i].to : i \in {i \in DOMAIN script : script[i].tx = "deploy"}}

\* The positions in the concatenation w of p and q.
Joins(w, p, q) ==
    /\ DOMAIN p \subseteq Nat /\ DOMAIN q \subseteq Nat /\ Len(p) \in Nat
    /\ \A i \in DOMAIN p : i \in DOMAIN w /\ w[i] = p[i] /\ i <= Len(p)
    /\ \A i \in DOMAIN q : Len(p) + i \in DOMAIN w /\ w[Len(p) + i] = q[i] /\ i >= 1
    /\ \A i \in DOMAIN w : \/ i \in DOMAIN p
                           \/ \E j \in DOMAIN q : i = Len(p) + j

LEMMA Positions ==
    ASSUME NEW T, NEW p \in Seq(T), NEW q \in Seq(T)
    PROVE  Joins(p \o q, p, q)
<1> DEFINE w == p \o q
<1>1. /\ Len(p) \in Nat /\ Len(q) \in Nat
      /\ DOMAIN p = 1 .. Len(p) /\ DOMAIN q = 1 .. Len(q)
      /\ w \in Seq(T) /\ DOMAIN w = 1 .. Len(p) + Len(q)
      /\ \A i \in 1 .. Len(p) : w[i] = p[i]
      /\ \A i \in 1 .. Len(q) : w[Len(p) + i] = q[i]
  OBVIOUS
<1> DEFINE m == Len(p)
           n == Len(q)
<1> HIDE DEF m, n, w
<1>2. /\ m \in Nat /\ n \in Nat /\ DOMAIN p = 1 .. m /\ DOMAIN q = 1 .. n
      /\ DOMAIN w = 1 .. m + n
      /\ \A i \in 1 .. m : w[i] = p[i]
      /\ \A i \in 1 .. n : w[m + i] = q[i]
  BY <1>1 DEF m, n
<1>3. \A i \in DOMAIN p : i \in DOMAIN w /\ w[i] = p[i] /\ i <= m /\ i \in Nat
  BY <1>2
<1>4. \A i \in DOMAIN q : m + i \in DOMAIN w /\ w[m + i] = q[i] /\ i >= 1 /\ i \in Nat
  BY <1>2
<1>5. ASSUME NEW i \in DOMAIN w, i \notin DOMAIN p
      PROVE  \E j \in DOMAIN q : i = m + j
  <2>1. i - m \in 1 .. n /\ i = m + (i - m)
    BY <1>2, <1>5
  <2> QED
    BY <1>2, <2>1
<1> QED
  BY <1>1, <1>3, <1>4, <1>5 DEF m, w, Joins

LEMMA SendsJoined ==
    ASSUME NEW T, NEW p \in Seq(T), NEW q \in Seq(T), NEW u
    PROVE  Sends(p \o q, u) <=> Sends(p, u) \/ Sends(q, u)
<1>p. Joins(p \o q, p, q)
  BY Positions
<1> DEFINE w == p \o q
<1>1. /\ \A i \in DOMAIN p : i \in DOMAIN w /\ w[i] = p[i]
      /\ \A i \in DOMAIN q : Len(p) + i \in DOMAIN w /\ w[Len(p) + i] = q[i]
      /\ \A i \in DOMAIN w : \/ i \in DOMAIN p
                             \/ \E j \in DOMAIN q : i = Len(p) + j
  BY <1>p DEF Joins
<1> HIDE DEF w
<1>2. Sends(p, u) => Sends(w, u)
  BY <1>1 DEF Sends
<1>3. Sends(q, u) => Sends(w, u)
  BY <1>1, Zenon DEF Sends
<1>4. ASSUME NEW i \in DOMAIN w, w[i] = u
      PROVE  Sends(p, u) \/ Sends(q, u)
  <2>1. CASE i \in DOMAIN p
    BY <1>1, <1>4, <2>1, Zenon DEF Sends
  <2>2. CASE \E j \in DOMAIN q : i = Len(p) + j
    BY <1>1, <1>4, <2>2, Zenon DEF Sends
  <2> QED
    BY <1>1, <2>1, <2>2, Zenon
<1>5. Sends(w, u) => Sends(p, u) \/ Sends(q, u)
  BY <1>4, Zenon DEF Sends
<1> QED
  BY <1>2, <1>3, <1>5 DEF w

LEMMA RedoneJoined ==
    ASSUME NEW T, NEW p \in Seq(T), NEW q \in Seq(T), NEW u,
           Redone(q, u), Redone(p, u) \/ Sends(q, u)
    PROVE  Redone(p \o q, u)
<1>p. Joins(p \o q, p, q)
  BY Positions
<1> DEFINE w == p \o q
           m == Len(p)
<1>1. /\ DOMAIN p \subseteq Nat /\ DOMAIN q \subseteq Nat /\ m \in Nat
      /\ \A i \in DOMAIN p : i \in DOMAIN w /\ w[i] = p[i] /\ i <= m
      /\ \A i \in DOMAIN q : m + i \in DOMAIN w /\ w[m + i] = q[i] /\ i >= 1
      /\ \A i \in DOMAIN w : \/ i \in DOMAIN p
                             \/ \E j \in DOMAIN q : i = m + j
  BY <1>p DEF Joins
<1> HIDE DEF w, m
<1>2. ASSUME NEW j \in DOMAIN w, Undoes(w[j], u)
      PROVE  \E i \in DOMAIN w : j < i /\ w[i] = u
  <2>1. CASE j \in DOMAIN p /\ Redone(p, u)
    <3>1. Undoes(p[j], u)
      BY <1>1, <1>2, <2>1, Zenon
    <3>2. PICK i \in DOMAIN p : j < i /\ p[i] = u
      BY <2>1, <3>1 DEF Redone
    <3> QED
      BY <1>1, <3>2
  <2>2. CASE j \in DOMAIN p /\ Sends(q, u)
    <3>1. PICK i \in DOMAIN q : q[i] = u
      BY <2>2 DEF Sends
    <3>2. m + i \in DOMAIN w /\ w[m + i] = u
      BY <1>1, <3>1, Zenon
    <3>3. j < m + i
      BY <1>1, <2>2, <3>1
    <3> QED
      BY <3>2, <3>3
  <2>3. CASE \E k \in DOMAIN q : j = m + k
    <3>1. PICK k \in DOMAIN q : j = m + k
      BY <2>3
    <3>2. Undoes(q[k], u)
      BY <1>1, <1>2, <3>1, Zenon
    <3>3. PICK i \in DOMAIN q : k < i /\ q[i] = u
      BY <3>2 DEF Redone
    <3>4. m + i \in DOMAIN w /\ w[m + i] = u
      BY <1>1, <3>3, Zenon
    <3>5. j < m + i
      BY <1>1, <3>1, <3>3
    <3> QED
      BY <3>4, <3>5
  <2> QED
    BY <1>1, <2>1, <2>2, <2>3
<1> QED
  BY <1>2 DEF Redone, w

LEMMA GroundedJoined ==
    ASSUME NEW T, NEW p \in Seq(T), NEW q \in Seq(T), NEW D,
           Grounded(D, p), Grounded(D \cup DeployedBy(p), q)
    PROVE  Grounded(D, p \o q)
<1>p. Joins(p \o q, p, q)
  BY Positions
<1> DEFINE w == p \o q
           m == Len(p)
<1>1. /\ DOMAIN p \subseteq Nat /\ DOMAIN q \subseteq Nat /\ m \in Nat
      /\ \A i \in DOMAIN p : i \in DOMAIN w /\ w[i] = p[i] /\ i <= m
      /\ \A i \in DOMAIN q : m + i \in DOMAIN w /\ w[m + i] = q[i] /\ i >= 1
      /\ \A i \in DOMAIN w : \/ i \in DOMAIN p
                             \/ \E j \in DOMAIN q : i = m + j
  BY <1>p DEF Joins
<1> HIDE DEF w, m
<1>2. ASSUME NEW i \in DOMAIN w, NEW a \in Mentioned(w[i]), a \notin D \cup {None}
      PROVE  \E j \in DOMAIN w : j < i /\ w[j].tx = "deploy" /\ w[j].to = a
  <2>1. CASE i \in DOMAIN p
    <3>1. a \in Mentioned(p[i])
      BY <1>1, <1>2, <2>1, Zenon
    <3>2. PICK j \in DOMAIN p : j < i /\ p[j].tx = "deploy" /\ p[j].to = a
      BY <1>2, <2>1, <3>1 DEF Grounded
    <3>3. j \in DOMAIN w /\ w[j] = p[j]
      BY <1>1, <3>2
    <3> QED
      BY <3>2, <3>3, Zenon
  <2>2. CASE \E k \in DOMAIN q : i = m + k
    <3>1. PICK k \in DOMAIN q : i = m + k
      BY <2>2
    <3>2. a \in Mentioned(q[k])
      BY <1>1, <1>2, <3>1, Zenon
    <3>3. CASE a \in DeployedBy(p)
      <4>1. PICK j \in DOMAIN p : p[j].tx = "deploy" /\ p[j].to = a
        BY <3>3 DEF DeployedBy
      <4>2. j \in DOMAIN w /\ w[j] = p[j]
        BY <1>1, <4>1
      <4>3. j < i
        BY <1>1, <3>1, <4>1
      <4> QED
        BY <4>1, <4>2, <4>3, Zenon
    <3>4. CASE a \notin DeployedBy(p)
      <4>1. PICK j \in DOMAIN q : j < k /\ q[j].tx = "deploy" /\ q[j].to = a
        BY <1>2, <3>2, <3>4 DEF Grounded
      <4>2. m + j \in DOMAIN w /\ w[m + j] = q[j]
        BY <1>1, <4>1, Zenon
      <4>3. m + j < i
        BY <1>1, <3>1, <4>1
      <4> QED
        BY <4>1, <4>2, <4>3, Zenon
    <3> QED
      BY <3>3, <3>4
  <2> QED
    BY <1>1, <2>1, <2>2
<1> QED
  BY <1>2 DEF Grounded, w

LEMMA GroundedMore ==
    ASSUME NEW D, NEW E, D \subseteq E, NEW script, Grounded(D, script)
    PROVE  Grounded(E, script)
BY DEF Grounded

LEMMA DeployedByJoined ==
    ASSUME NEW T, NEW p \in Seq(T), NEW q \in Seq(T)
    PROVE  DeployedBy(p) \cup DeployedBy(q) \subseteq DeployedBy(p \o q)
<1>p. Joins(p \o q, p, q)
  BY Positions
<1> DEFINE w == p \o q
<1>1. /\ \A i \in DOMAIN p : i \in DOMAIN w /\ w[i] = p[i]
      /\ \A i \in DOMAIN q : Len(p) + i \in DOMAIN w /\ w[Len(p) + i] = q[i]
  BY <1>p DEF Joins
<1> HIDE DEF w
<1>2. DeployedBy(p) \subseteq DeployedBy(w)
  BY <1>1 DEF DeployedBy
<1>3. ASSUME NEW i \in DOMAIN q, q[i].tx = "deploy"
      PROVE  q[i].to \in DeployedBy(w)
  <2>1. PICK k \in DOMAIN w : w[k] = q[i]
    BY <1>1, <1>3, Zenon
  <2>2. w[k].tx = "deploy"
    BY <1>3, <2>1, Zenon
  <2>3. w[k].to \in DeployedBy(w)
    BY <2>2 DEF DeployedBy
  <2> QED
    BY <2>1, <2>3, Zenon
<1>4. DeployedBy(q) \subseteq DeployedBy(w)
  BY <1>3 DEF DeployedBy
<1> QED
  BY <1>2, <1>4 DEF w

\* The same of the loops.
LEMMA LoopSends ==
    ASSUME NEW T, NEW ss \in Seq(Seq(T)), NEW k \in DOMAIN ss, NEW u, Sends(ss[k], u)
    PROVE  Sends(Concat(ss), u)
<1>1. PICK p : Within(ss[k], Concat(ss), p)
  BY Flattened, Zenon DEF Concat
<1>2. PICK x \in DOMAIN ss[k] : ss[k][x] = u
  BY DEF Sends
<1>3. p + x \in DOMAIN Concat(ss) /\ Concat(ss)[p + x] = u
  BY <1>1, <1>2, Zenon DEF Within
<1> QED
  BY <1>3 DEF Sends

LEMMA LoopRedone ==
    ASSUME NEW T, NEW ss \in Seq(Seq(T)), NEW u, \A k \in DOMAIN ss : Redone(ss[k], u)
    PROVE  Redone(Concat(ss), u)
<1> DEFINE w == Concat(ss)
<1>0. DOMAIN w \subseteq Nat /\ \A k \in DOMAIN ss : DOMAIN ss[k] \subseteq Nat
  <2>1. w \in Seq(T)
    BY Flattened, Zenon DEF Concat
  <2>2. \A k \in DOMAIN ss : ss[k] \in Seq(T)
    OBVIOUS
  <2> HIDE DEF w
  <2> QED
    BY <2>1, <2>2
<1>1. ASSUME NEW j \in DOMAIN w, Undoes(w[j], u)
      PROVE  \E i \in DOMAIN w : j < i /\ w[i] = u
  <2>1. PICK k \in DOMAIN ss : \E p : Within(ss[k], w, p) /\ j - p \in DOMAIN ss[k]
    BY Flattened, Zenon DEF Concat
  <2>2. PICK p : Within(ss[k], w, p) /\ j - p \in DOMAIN ss[k]
    BY <2>1
  <2> DEFINE x == j - p
  <2> HIDE DEF w
  <2>3. p \in Nat /\ x \in DOMAIN ss[k] /\ x \in Nat /\ p + x = j
    BY <1>0, <2>2 DEF Within
  <2> HIDE DEF x
  <2>4. Undoes(ss[k][x], u)
    <3>1. w[p + x] = ss[k][x]
      BY <2>2, <2>3, Zenon DEF Within
    <3> QED
      BY <1>1, <2>3, <3>1, Zenon
  <2>5. PICK y \in DOMAIN ss[k] : x < y /\ ss[k][y] = u
    BY <2>3, <2>4 DEF Redone
  <2>6. p + y \in DOMAIN w /\ w[p + y] = u
    BY <2>2, <2>5, Zenon DEF Within
  <2>7. j < p + y
    BY <1>0, <2>3, <2>5
  <2> QED
    BY <2>6, <2>7
<1> QED
  BY <1>1 DEF Redone

LEMMA LoopGrounded ==
    ASSUME NEW T, NEW ss \in Seq(Seq(T)), NEW D, \A k \in DOMAIN ss : Grounded(D, ss[k])
    PROVE  Grounded(D, Concat(ss))
<1> DEFINE w == Concat(ss)
<1>0. DOMAIN w \subseteq Nat /\ \A k \in DOMAIN ss : DOMAIN ss[k] \subseteq Nat
  <2>1. w \in Seq(T)
    BY Flattened, Zenon DEF Concat
  <2>2. \A k \in DOMAIN ss : ss[k] \in Seq(T)
    OBVIOUS
  <2> HIDE DEF w
  <2> QED
    BY <2>1, <2>2
<1>1. ASSUME NEW i \in DOMAIN w, NEW a \in Mentioned(w[i]), a \notin D \cup {None}
      PROVE  \E j \in DOMAIN w : j < i /\ w[j].tx = "deploy" /\ w[j].to = a
  <2>1. PICK k \in DOMAIN ss : \E p : Within(ss[k], w, p) /\ i - p \in DOMAIN ss[k]
    BY Flattened, Zenon DEF Concat
  <2>2. PICK p : Within(ss[k], w, p) /\ i - p \in DOMAIN ss[k]
    BY <2>1
  <2> DEFINE x == i - p
  <2> HIDE DEF w
  <2>3. p \in Nat /\ x \in DOMAIN ss[k] /\ x \in Nat /\ p + x = i
    BY <1>0, <2>2 DEF Within
  <2> HIDE DEF x
  <2>4. a \in Mentioned(ss[k][x])
    <3>1. w[p + x] = ss[k][x]
      BY <2>2, <2>3, Zenon DEF Within
    <3> QED
      BY <1>1, <2>3, <3>1, Zenon
  <2>5. PICK y \in DOMAIN ss[k] : y < x /\ ss[k][y].tx = "deploy" /\ ss[k][y].to = a
    BY <1>1, <2>3, <2>4 DEF Grounded
  <2>6. p + y \in DOMAIN w /\ w[p + y] = ss[k][y]
    BY <2>2, <2>5, Zenon DEF Within
  <2>7. p + y < i
    BY <1>0, <2>3, <2>5
  <2> QED
    BY <2>5, <2>6, <2>7, Zenon
<1> QED
  BY <1>1 DEF Grounded

-----------------------------------------------------------------------------
(* What the scripts send for a token. *)

LEMMA OneToken ==
    ASSUME NEW kind \in TokenHandlers, NEW token \in Listed(kind), NEW other \in Listed(kind),
           token.resourceID = other.resourceID
    PROVE  token = other
<1>1. PICK list \in {Network.erc20, Network.erc721, Network.erc1155} : Listed(kind) = Entries(list)
  BY DEF Listed, TokenHandlers
<1>2. IsTokenList(list)
  BY <1>1, NetworkAssumption
<1>3. list # None /\ Entries(list) = {list[i] : i \in DOMAIN list}
  BY <1>1 DEF Entries, ToSet
<1>4. \A i, j \in DOMAIN list : list[i].resourceID = list[j].resourceID => i = j
  <2>1. IsInjective([i \in DOMAIN list |-> list[i].resourceID])
    BY <1>2, <1>3, Zenon DEF IsTokenList
  <2> QED
    BY <2>1 DEF IsInjective
<1>5. PICK i \in DOMAIN list : token = list[i]
  BY <1>1, <1>3
<1>6. PICK j \in DOMAIN list : other = list[j]
  BY <1>1, <1>3
<1>7. i = j
  BY <1>4, <1>5, <1>6, Zenon
<1> QED
  BY <1>5, <1>6, <1>7, Zenon

LEMMA BurnsExactly ==
    ASSUME NEW kind \in TokenHandlers, NEW token \in Listed(kind)
    PROVE  token.resourceID \in Burns(kind) <=> (kind = "ERC20Handler" => token.strategy = "mb")
<1>1. ASSUME token.resourceID \in Burns(kind)
      PROVE  kind = "ERC20Handler" => token.strategy = "mb"
  <2>1. PICK other \in Listed(kind) : /\ kind = "ERC20Handler" => other.strategy = "mb"
                                      /\ token.resourceID = other.resourceID
    BY <1>1 DEF Burns
  <2>2. token = other
    BY <2>1, OneToken
  <2> QED
    BY <2>1, <2>2
<1> QED
  BY <1>1, Minting

LEMMA ResourcesDiffer ==
    /\ Handles("ERC20Handler") \cap Handles("ERC721Handler") = {}
    /\ Handles("ERC1155Handler") \cap Handles("ERC20Handler") = {}
    /\ Handles("ERC1155Handler") \cap Handles("ERC721Handler") = {}
    /\ Network.gmp # None => \A kind \in TokenHandlers : Network.gmp \notin Handles(kind)
<1>1. /\ Handles("ERC20Handler") = ResourceIDs(Network.erc20)
      /\ Handles("ERC721Handler") = ResourceIDs(Network.erc721)
      /\ Handles("ERC1155Handler") = ResourceIDs(Network.erc1155)
  BY DEF Handles, Listed, ResourceIDs
<1> QED
  BY <1>1, NetworkAssumption DEF TokenHandlers

Calm == {"throw", "deploy", "mint", "adminSetBurnable", "grantMinter", "grantSygmaHandler"}

\* The resource of a token alone is set, once or more.
PartOf(b, h, r, x) == {t \in LoopSteps :
    t.tx \in Calm \cup {"adminSetResource"}
        /\ (t.tx = "adminSetResource" => t = AdminSetResource(b, h, r, x))}

LEMMA CalmScript ==
    ASSUME NEW script, \A i \in DOMAIN script : script[i].tx # "adminSetResource", NEW u
    PROVE  Redone(script, u)
BY DEF Redone, Undoes

LEMMA OthersDoNotUndo ==
    ASSUME NEW b, NEW g, NEW r, NEW y \in OrNone(r), NEW t \in PartOf(b, g, r, y),
           NEW h, NEW kind, NEW s, s # r, NEW x \in OrNone(s), NEW receiver,
           NEW u \in Serving(b, h, x, receiver, kind, s)
    PROVE  ~Undoes(t, u)
<1> SUFFICES ASSUME Undoes(t, u)
    PROVE  FALSE
  OBVIOUS
<1>1. t.tx = "adminSetResource" /\ t.resource = r /\ t.contract = y
  BY DEF Undoes, PartOf, AdminSetResource
<1>2. \/ u.tx = "adminSetResource" /\ u.resource = s
      \/ u.tx = "adminSetBurnable" /\ u.token = x /\ x # None
      \/ u.tx \in {"grantMinter", "grantSygmaHandler"}
  BY DEF Serving, AdminSetResource, AdminSetBurnable, GrantMinter, GrantSygmaHandler
<1>3. CASE u.tx = "adminSetResource"
  BY <1>1, <1>2, <1>3 DEF Undoes
<1>4. CASE u.tx = "adminSetBurnable"
  <2>1. x = y /\ x # None
    BY <1>1, <1>2, <1>4 DEF Undoes
  <2> QED
    BY <2>1 DEF OrNone, AddressesOf
<1> QED
  BY <1>2, <1>3, <1>4 DEF Undoes

LEMMA PairMembers ==
    ASSUME NEW S, NEW x, NEW y, <<x, y>> \in Seq(S)
    PROVE  x \in S /\ y \in S
<1>1. PICK s \in Seq(S) : s = <<x, y>>
  OBVIOUS
<1>2. Len(s) = 2 /\ s[1] = x /\ s[2] = y
  BY <1>1
<1>3. DOMAIN s = 1 .. Len(s) /\ \A i \in 1 .. Len(s) : s[i] \in S
  OBVIOUS
<1> QED
  BY <1>2, <1>3

\* A part of a script has a token served.
ServesBy(part, D, b, h, kind, r, x, receiver, also) ==
    /\ x \in OrNone(r)
    /\ part \in Seq(PartOf(b, h, r, x))
    /\ Grounded(D, part)
    /\ \A u \in Serving(b, h, x, receiver, kind, r) :
        Redone(part, u) /\ (u \in also \/ Sends(part, u))

LEMMA PartServes ==
    ASSUME NEW kind \in TokenHandlers, NEW token \in Listed(kind),
           NEW b \in AddressesOf("Bridge"), NEW h \in AddressesOf(kind),
           NEW x \in OrNone(token.resourceID), NEW receiver,
           NEW p \in Seq({t \in LoopSteps : t.tx \in {"deploy", "mint", "grantSygmaHandler"}}),
           NEW q \in Seq({t \in LoopSteps : t.tx \in {"deploy", "mint", "grantSygmaHandler"}}),
           NEW D, b \in D, h \in D, x \in D \cup DeployedBy(p) \cup {None},
           Grounded(D, p), Grounded(D, q), NEW also,
           kind = "ERC20Handler" =>
               \/ GrantSygmaHandler(receiver, h) \in also
               \/ Sends(q, GrantSygmaHandler(receiver, h))
    PROVE  LET make == When(kind = "ERC20Handler" => token.strategy = "mb", MakeBurnable(b, h, x))
           IN ServesBy(p \o <<AdminSetResource(b, h, token.resourceID, x)>> \o make \o q,
                       D, b, h, kind, token.resourceID, x, receiver, also)
<1> DEFINE r == token.resourceID
           T == PartOf(b, h, r, x)
           make == When(kind = "ERC20Handler" => token.strategy = "mb", MakeBurnable(b, h, x))
           set == AdminSetResource(b, h, r, x)
           E == D \cup DeployedBy(p)
           grant == GrantMinter(x, h)
           burn == AdminSetBurnable(b, h, x)
<1>1. b \in OrNone("Bridge")
  BY DEF OrNone
<1>2. set.tx = "adminSetResource" /\ set \in T
  <2>1. set \in LoopSteps
    BY <1>1, SetResourceIsTransaction
  <2>2. set.tx = "adminSetResource"
    BY DEF AdminSetResource
  <2> QED
    BY <2>1, <2>2 DEF PartOf
<1>3. p \in Seq(T) /\ q \in Seq(T)
  <2>1. {t \in LoopSteps : t.tx \in {"deploy", "mint", "grantSygmaHandler"}} \subseteq T
    BY DEF PartOf, Calm
  <2> HIDE DEF T
  <2> QED
    BY <2>1
<1>4. /\ make = <<grant, burn>> \/ make = <<>>
      /\ r \in Burns(kind) => make = <<grant, burn>>
      /\ make \in Seq(T)
  <2>1. make = IF r \in Burns(kind) THEN <<grant, burn>> ELSE <<>>
    BY BurnsExactly DEF When, MakeBurnable
  <2>2. ASSUME r \in Burns(kind)
        PROVE  <<grant, burn>> \in Seq(T)
    <3>1. <<grant, burn>> \in Seq(LoopSteps)
      BY <1>1, <2>2, BurnsExactly, MakeBurnableTyped DEF MakeBurnable
    <3>2. grant \in LoopSteps /\ burn \in LoopSteps
      BY <3>1, PairMembers, Zenon
    <3>3. grant.tx = "grantMinter" /\ burn.tx = "adminSetBurnable"
      BY DEF GrantMinter, AdminSetBurnable
    <3>4. grant \in T /\ burn \in T
      BY <3>2, <3>3 DEF PartOf, Calm
    <3> HIDE DEF T, grant, burn, make
    <3> QED
      BY <3>4
  <2> HIDE DEF T, grant, burn, make
  <2> QED
    BY <2>1, <2>2
<1>5. Grounded(E, <<set>>) /\ Grounded(E, make) /\ Grounded(E, q)
  <2>1. Mentioned(set) \subseteq E \cup {None}
    BY DEF Mentioned, AdminSetResource
  <2>2. Mentioned(grant) \subseteq E \cup {None} /\ Mentioned(burn) \subseteq E \cup {None}
    BY DEF Mentioned, GrantMinter, AdminSetBurnable
  <2> HIDE DEF set, grant, burn, make, E
  <2>3. Grounded(E, <<set>>)
    BY <2>1 DEF Grounded
  <2>4. Grounded(E, make)
    BY <1>4, <2>2 DEF Grounded
  <2>5. Grounded(E, q)
    BY GroundedMore DEF E
  <2> QED
    BY <2>3, <2>4, <2>5
<1> DEFINE s1 == p \o <<set>>
           s2 == s1 \o make
           s3 == s2 \o q
<1>6. <<set>> \in Seq(T)
  BY <1>2
<1> HIDE DEF T, make, set, grant, burn
<1>7. s1 \in Seq(T) /\ s2 \in Seq(T) /\ s3 \in Seq(T)
  BY <1>3, <1>4, <1>6
<1>8. Grounded(D, s3)
  <2>1. Grounded(D, s1)
    BY <1>3, <1>5, <1>6, GroundedJoined DEF E
  <2>2. E \subseteq D \cup DeployedBy(s1)
    BY <1>3, <1>6, DeployedByJoined DEF E
  <2>3. Grounded(D \cup DeployedBy(s1), make)
    BY <1>5, <2>2, GroundedMore
  <2>4. Grounded(D, s2)
    BY <1>4, <1>7, <2>1, <2>3, GroundedJoined
  <2>5. D \subseteq D \cup DeployedBy(s2)
    OBVIOUS
  <2>6. Grounded(D \cup DeployedBy(s2), q)
    BY <2>5, GroundedMore
  <2> QED
    BY <1>3, <1>7, <2>4, <2>6, GroundedJoined
<1>9. ASSUME NEW u
      PROVE  Sends(s3, u) <=> Sends(p, u) \/ u = set \/ Sends(make, u) \/ Sends(q, u)
  <2>1. Sends(s3, u) <=> Sends(s2, u) \/ Sends(q, u)
    <3> HIDE DEF s2
    <3> QED
      BY <1>3, <1>7, SendsJoined
  <2>2. Sends(s2, u) <=> Sends(s1, u) \/ Sends(make, u)
    BY <1>4, <1>7, SendsJoined
  <2>3. Sends(s1, u) <=> Sends(p, u) \/ Sends(<<set>>, u)
    BY <1>3, <1>6, SendsJoined
  <2>4. Sends(<<set>>, u) <=> u = set
    BY DEF Sends
  <2> HIDE DEF s1, s2, s3
  <2> QED
    BY <2>1, <2>2, <2>3, <2>4
<1>10. ASSUME NEW u \in Serving(b, h, x, receiver, kind, r)
       PROVE  Redone(s3, u) /\ (u \in also \/ Sends(s3, u))
  <2>1. \/ u = set
        \/ r \in Burns(kind) /\ x # None /\ (u = grant \/ u = burn)
        \/ kind = "ERC20Handler" /\ u = GrantSygmaHandler(receiver, h)
    BY DEF Serving, set, grant, burn
  <2>2. r \in Burns(kind) => Sends(make, grant) /\ Sends(make, burn)
    <3>1. Sends(<<grant, burn>>, grant) /\ Sends(<<grant, burn>>, burn)
      <4>1. DOMAIN <<grant, burn>> = {1, 2}
        OBVIOUS
      <4> QED
        BY <4>1 DEF Sends
    <3> QED
      BY <1>4, <3>1
  <2>3. u \in also \/ Sends(s3, u)
    <3> HIDE DEF s3
    <3> QED
      BY <1>9, <2>1, <2>2
  <2>4. Redone(p, u) /\ Redone(q, u) /\ Redone(make, u)
    <3>1. \A i \in DOMAIN p : p[i].tx # "adminSetResource"
      OBVIOUS
    <3>2. \A i \in DOMAIN q : q[i].tx # "adminSetResource"
      OBVIOUS
    <3>3. \A i \in DOMAIN make : make[i].tx # "adminSetResource"
      <4>1. grant.tx # "adminSetResource" /\ burn.tx # "adminSetResource"
        BY DEF grant, burn, GrantMinter, AdminSetBurnable
      <4> QED
        BY <1>4, <4>1
    <3> QED
      BY <3>1, <3>2, <3>3, CalmScript
  <2>5. u # burn => ~Undoes(set, u)
    BY <2>1 DEF Undoes, set, AdminSetResource, grant, GrantMinter, GrantSygmaHandler
  <2>6. CASE u # burn
    <3>1. Redone(<<set>>, u)
      BY <2>5, <2>6 DEF Redone
    <3>2. Redone(s1, u)
      BY <1>3, <1>6, <2>4, <3>1, RedoneJoined
    <3>3. Redone(s2, u)
      BY <1>4, <1>7, <2>4, <3>2, RedoneJoined
    <3>4. Redone(s3, u)
      BY <1>3, <1>7, <2>4, <3>3, RedoneJoined
    <3> QED
      BY <2>3, <3>4
  <2>7. CASE u = burn
    <3>1. r \in Burns(kind)
      BY <2>1, <2>7 DEF set, grant, burn, AdminSetResource, GrantMinter, AdminSetBurnable,
        GrantSygmaHandler
    <3>2. Redone(s2, u)
      BY <1>4, <1>7, <2>2, <2>4, <2>7, <3>1, RedoneJoined
    <3>3. Redone(s3, u)
      BY <1>3, <1>7, <2>4, <3>2, RedoneJoined
    <3> QED
      BY <2>3, <3>3
  <2> QED
    BY <2>6, <2>7
<1> HIDE DEF s3
<1>11. ServesBy(s3, D, b, h, kind, r, x, receiver, also)
  BY <1>7, <1>8, <1>10 DEF ServesBy, T
<1> QED
  BY <1>11 DEF s3, s2, s1, make, set

-----------------------------------------------------------------------------
(* What the loops over the tokens send. *)

\* The resources of a handler's tokens are set.
LoopOf(b, h, kind) == {t \in LoopSteps :
    t.tx \in Calm \cup {"adminSetResource"}
        /\ (t.tx = "adminSetResource" =>
                \E r \in Handles(kind) : \E y \in OrNone(r) : t = AdminSetResource(b, h, r, y))}

LoopServed(script, D, b, h, kind, receiver, also) ==
    /\ script \in Seq(LoopOf(b, h, kind))
    /\ Grounded(D, script)
    /\ \A token \in Listed(kind) : \E x \in OrNone(token.resourceID) :
        \A u \in Serving(b, h, x, receiver, kind, token.resourceID) :
            Redone(script, u) /\ (u \in also \/ Sends(script, u))

LEMMA LoopServes ==
    ASSUME NEW kind \in TokenHandlers, NEW list, IsTokenList(list), list # None,
           Listed(kind) = Entries(list), NEW D, NEW b, NEW h, NEW receiver, NEW also,
           NEW f, f = [i \in DOMAIN list |-> f[i]],
           \A i \in DOMAIN list : list[i] \in Entries(list) => \E x :
                ServesBy(f[i], D, b, h, kind, list[i].resourceID, x, receiver, also)
    PROVE  LoopServed(Concat(f), D, b, h, kind, receiver, also)
<1> DEFINE T == LoopOf(b, h, kind)
<1>0. DOMAIN f = DOMAIN list
  OBVIOUS
<1>1. \A i \in DOMAIN list : list[i] \in Entries(list)
  BY DEF Entries, ToSet
<1>2. ASSUME NEW i \in DOMAIN list
      PROVE  \E x : ServesBy(f[i], D, b, h, kind, list[i].resourceID, x, receiver, also)
  BY <1>1
<1>3. ASSUME NEW i \in DOMAIN list
      PROVE  f[i] \in Seq(T) /\ Grounded(D, f[i])
  <2> DEFINE r == list[i].resourceID
  <2>1. PICK x : ServesBy(f[i], D, b, h, kind, r, x, receiver, also)
    BY <1>2
  <2>2. r \in Handles(kind)
    BY <1>1 DEF Handles
  <2>3. PartOf(b, h, r, x) \subseteq T
    <3>1. x \in OrNone(r)
      BY <2>1 DEF ServesBy
    <3> HIDE DEF r
    <3> QED
      BY <2>2, <3>1 DEF PartOf, LoopOf
  <2>4. f[i] \in Seq(PartOf(b, h, r, x)) /\ Grounded(D, f[i])
    BY <2>1 DEF ServesBy
  <2> HIDE DEF T, r
  <2> QED
    BY <2>3, <2>4
<1> HIDE DEF T
<1>4. f \in Seq(Seq(T)) /\ Concat(f) \in Seq(T)
  <2>1. IsList(list)
    BY DEF IsTokenList
  <2> QED
    BY <1>3, <2>1, ConcatTyped, Zenon
<1>5. Grounded(D, Concat(f))
  BY <1>0, <1>3, <1>4, LoopGrounded, Zenon
<1>6. ASSUME NEW token \in Listed(kind)
      PROVE  \E x \in OrNone(token.resourceID) :
                \A u \in Serving(b, h, x, receiver, kind, token.resourceID) :
                    Redone(Concat(f), u) /\ (u \in also \/ Sends(Concat(f), u))
  <2>1. PICK k \in DOMAIN list : list[k] = token
    BY DEF Entries, ToSet
  <2> DEFINE r == token.resourceID
  <2>2. PICK x : ServesBy(f[k], D, b, h, kind, r, x, receiver, also)
    BY <1>2, <2>1
  <2>3. x \in OrNone(r)
    BY <2>2 DEF ServesBy
  <2>4. ASSUME NEW u \in Serving(b, h, x, receiver, kind, r)
        PROVE  Redone(Concat(f), u) /\ (u \in also \/ Sends(Concat(f), u))
    <3>1. Redone(f[k], u) /\ (u \in also \/ Sends(f[k], u))
      BY <2>2 DEF ServesBy
    <3>2. u \in also \/ Sends(Concat(f), u)
      BY <1>0, <1>4, <3>1, LoopSends, Zenon
    <3>3. ASSUME NEW i \in DOMAIN list
          PROVE  Redone(f[i], u)
      <4> DEFINE s == list[i].resourceID
      <4>1. CASE s = r
        <5>1. IsInjective([l \in DOMAIN list |-> list[l].resourceID])
          BY Zenon DEF IsTokenList
        <5>2. i = k
          BY <2>1, <4>1, <5>1 DEF IsInjective
        <5> QED
          BY <3>1, <5>2
      <4>2. CASE s # r
        <5>1. PICK y : ServesBy(f[i], D, b, h, kind, s, y, receiver, also)
          BY <1>2
        <5>2. f[i] \in Seq(PartOf(b, h, s, y)) /\ y \in OrNone(s)
          BY <5>1 DEF ServesBy
        <5>3. \A j \in DOMAIN f[i] : f[i][j] \in PartOf(b, h, s, y)
          BY <5>2
        <5>4. \A t \in PartOf(b, h, s, y) : ~Undoes(t, u)
          BY <2>3, <4>2, <5>2, OthersDoNotUndo
        <5> QED
          BY <5>3, <5>4 DEF Redone
      <4> QED
        BY <4>1, <4>2
    <3>4. Redone(Concat(f), u)
      BY <1>0, <1>4, <3>3, LoopRedone, Zenon
    <3> QED
      BY <3>2, <3>4
  <2> QED
    BY <2>3, <2>4
<1> QED
  BY <1>4, <1>5, <1>6 DEF LoopServed, T

\* The loop over another list has no effect on a token.
LEMMA LoopAlone ==
    ASSUME NEW b, NEW g, NEW other, NEW script \in Seq(LoopOf(b, g, other)),
           NEW h, NEW kind, NEW s, s \notin Handles(other), NEW x \in OrNone(s), NEW receiver,
           NEW u \in Serving(b, h, x, receiver, kind, s)
    PROVE  Redone(script, u)
<1>1. ASSUME NEW t \in LoopOf(b, g, other)
      PROVE  ~Undoes(t, u)
  <2>1. CASE t.tx = "adminSetResource"
    <3>1. PICK r \in Handles(other) : \E y \in OrNone(r) : t = AdminSetResource(b, g, r, y)
      BY <2>1 DEF LoopOf
    <3>2. PICK y \in OrNone(r) : t = AdminSetResource(b, g, r, y)
      BY <3>1
    <3>3. t \in PartOf(b, g, r, y)
      BY <2>1, <3>2 DEF LoopOf, PartOf
    <3> QED
      BY <3>3, OthersDoNotUndo
  <2>2. CASE t.tx # "adminSetResource"
    BY <2>2 DEF Undoes
  <2> QED
    BY <2>1, <2>2
<1>2. \A j \in DOMAIN script : script[j] \in LoopOf(b, g, other)
  OBVIOUS
<1> QED
  BY <1>1, <1>2 DEF Redone

LEMMA NoList ==
    ASSUME NEW kind \in TokenHandlers, Listed(kind) = {}, NEW D, NEW b, NEW h, NEW receiver, NEW also
    PROVE  LoopServed(<<Throw>>, D, b, h, kind, receiver, also)
<1>1. Throw \in LoopOf(b, h, kind)
  BY DEF LoopOf, LoopSteps, Calm, Throw
<1>2. <<Throw>> \in Seq(LoopOf(b, h, kind))
  BY <1>1
<1>3. Grounded(D, <<Throw>>)
  BY DEF Grounded, Mentioned, Throw
<1> QED
  BY <1>2, <1>3 DEF LoopServed

LEMMA TokenThere ==
    ASSUME NEW kind \in TokenHandlers, NEW token \in Listed(kind), NEW c, ChainTyped(c), Inherits(c)
    PROVE  LET p == DeployToken(c, token)
           IN /\ p \in Seq({t \in LoopSteps : t.tx \in {"deploy", "mint", "grantSygmaHandler"}})
              /\ TokenAddress(c, token) \in DOMAIN c \cup DeployedBy(p)
              /\ \A D : Grounded(D, p)
<1> DEFINE p == DeployToken(c, token)
           x == TokenAddress(c, token)
           t == Deploy(x, NewToken)
           Q == {s \in LoopSteps : s.tx \in {"deploy", "mint", "grantSygmaHandler"}}
<1>1. CASE token.address = None
  <2>1. p = <<t>>
    BY <1>1 DEF DeployToken, When
  <2>2. x \in Tokens
    BY TokenListTyped
  <2>3. t \in Q /\ t.tx = "deploy" /\ t.to = x /\ Mentioned(t) = {}
    <3>1. t \in LoopSteps
      BY <2>2 DEF LoopSteps
    <3>2. t.tx = "deploy" /\ t.to = x
      BY DEF Deploy
    <3> QED
      BY <3>1, <3>2 DEF Mentioned
  <2> HIDE DEF p, x, t, Q
  <2>4. p \in Seq(Q)
    BY <2>1, <2>3
  <2>5. x \in DeployedBy(p)
    <3>1. 1 \in DOMAIN p /\ p[1] = t
      BY <2>1
    <3> QED
      BY <2>3, <3>1 DEF DeployedBy
  <2>6. \A D : Grounded(D, p)
    <3>1. \A i \in DOMAIN p : p[i] = t
      BY <2>1
    <3> QED
      BY <2>3, <3>1 DEF Grounded
  <2> QED
    BY <2>4, <2>5, <2>6 DEF p, x, Q
<1>2. CASE token.address # None
  <2>1. p = <<>> /\ x = token.address
    BY <1>2 DEF DeployToken, When, TokenAddress
  <2>2. x \in DOMAIN ExistingTokens
    BY <1>2, <2>1, NetworkAssumption DEF IsTokenList, Listed, TokenHandlers
  <2> HIDE DEF p, x, Q
  <2>3. p \in Seq(Q) /\ \A D : Grounded(D, p)
    BY <2>1 DEF Grounded
  <2> QED
    BY <2>2, <2>3 DEF Inherits, p, x, Q
<1> QED
  BY <1>1, <1>2

LEMMA SetupServes ==
    ASSUME NEW kind \in TokenHandlers, NEW token \in Listed(kind), NEW c, ChainTyped(c), Inherits(c),
           NEW b \in AddressesOf("Bridge"), NEW h \in AddressesOf(kind), NEW receiver,
           NEW D, DOMAIN c \cup {b, h} \subseteq D
    PROVE  /\ kind = "ERC20Handler" =>
                ServesBy(SetupErc20(c, token, b, h), D, b, h, kind, token.resourceID,
                         TokenAddress(c, token), receiver, {GrantSygmaHandler(receiver, h)})
           /\ kind # "ERC20Handler" =>
                ServesBy(SetupNft(c, token, b, h), D, b, h, kind, token.resourceID,
                         TokenAddress(c, token), receiver, {})
<1> DEFINE x == TokenAddress(c, token)
           p == DeployToken(c, token)
           Q == {t \in LoopSteps : t.tx \in {"deploy", "mint", "grantSygmaHandler"}}
           mints == <<Mint(x, Deployer), Mint(x, h)>>
           set == AdminSetResource(b, h, token.resourceID, x)
           cond == kind = "ERC20Handler" => token.strategy = "mb"
           make == When(cond, MakeBurnable(b, h, x))
<1>1. x \in OrNone(token.resourceID) /\ x \in Tokens
  BY TokenListTyped DEF OrNone
<1>2. p \in Seq(Q) /\ x \in DOMAIN c \cup DeployedBy(p) /\ Grounded(D, p)
  BY TokenThere
<1>3. mints \in Seq(Q) /\ Grounded(D, mints)
  <2> DEFINE m1 == Mint(x, Deployer)
             m2 == Mint(x, h)
  <2>1. h \in HandlerAddresses
    BY DEF AddressesOf, HandlerAddresses
  <2>2. m1 \in Mints /\ m2 \in Mints
    BY <1>1, <2>1 DEF Mint, Mints
  <2>3. m1.tx = "mint" /\ m2.tx = "mint"
    BY DEF Mint
  <2>4. m1 \in Q /\ m2 \in Q /\ Mentioned(m1) = {} /\ Mentioned(m2) = {}
    BY <2>2, <2>3 DEF LoopSteps, Settings, Mentioned
  <2> HIDE DEF m1, m2, Q
  <2>5. <<m1, m2>> \in Seq(Q)
    BY <2>4
  <2>6. \A i \in DOMAIN <<m1, m2>> : <<m1, m2>>[i] \in {m1, m2}
    OBVIOUS
  <2>7. Grounded(D, <<m1, m2>>)
    BY <2>4, <2>6 DEF Grounded
  <2> QED
    BY <2>5, <2>7 DEF m1, m2
<1>4. b \in D /\ h \in D /\ x \in D \cup DeployedBy(p) \cup {None}
  BY <1>2
<1>5. ASSUME kind = "ERC20Handler"
      PROVE  ServesBy(SetupErc20(c, token, b, h), D, b, h, kind, token.resourceID, x, receiver,
                      {GrantSygmaHandler(receiver, h)})
  <2>1. SetupErc20(c, token, b, h) = p \o <<set>> \o make \o mints
    BY <1>5 DEF SetupErc20
  <2> DEFINE also == {GrantSygmaHandler(receiver, h)}
  <2>2. GrantSygmaHandler(receiver, h) \in also
    OBVIOUS
  <2> HIDE DEF x, p, Q, mints, also
  <2>3. ServesBy(p \o <<set>> \o make \o mints, D, b, h, kind, token.resourceID, x, receiver, also)
    BY <1>1, <1>2, <1>3, <1>4, <2>2, PartServes DEF Q
  <2> QED
    BY <2>1, <2>3 DEF also
<1>6. ASSUME kind # "ERC20Handler"
      PROVE  ServesBy(SetupNft(c, token, b, h), D, b, h, kind, token.resourceID, x, receiver, {})
  <2>1. SetupNft(c, token, b, h) = p \o <<set>> \o make
    BY <1>6 DEF SetupNft, When
  <2>2. <<>> \in Seq(Q) /\ Grounded(D, <<>>)
    BY DEF Grounded
  <2>3. p \o <<set>> \o make \o <<>> = p \o <<set>> \o make
    <3>1. make \in Seq(LoopSteps)
      <4>1. b \in OrNone("Bridge")
        BY DEF OrNone
      <4> QED
        BY <1>1, <1>6, <4>1, MakeBurnableTyped DEF When
    <3>2. p \in Seq(LoopSteps)
      <4>1. Q \subseteq LoopSteps
        OBVIOUS
      <4> HIDE DEF Q, p
      <4> QED
        BY <1>2, <4>1
    <3>3. set \in LoopSteps
      BY <1>1, SetResourceIsTransaction DEF OrNone
    <3> HIDE DEF p, set, make
    <3>4. p \o <<set>> \o make \in Seq(LoopSteps)
      BY <3>1, <3>2, <3>3
    <3> QED
      BY <3>4
  <2> HIDE DEF x, p, Q
  <2>4. ServesBy(p \o <<set>> \o make \o <<>>, D, b, h, kind, token.resourceID, x, receiver, {})
    BY <1>1, <1>2, <1>4, <1>6, <2>2, PartServes DEF Q
  <2> QED
    BY <2>1, <2>3, <2>4
<1> QED
  BY <1>5, <1>6

LEMMA MigrateServes ==
    ASSUME NEW kind, kind = "ERC20Handler", NEW token \in Listed(kind), NEW c, ChainTyped(c), Wired(c),
           NEW b \in AddressesOf("Bridge"), NEW old \in AddressesOf(kind), old \in DOMAIN c,
           NEW h \in AddressesOf(kind), NEW receiver \in AddressesOf("DefaultMessageReceiver"),
           NEW D, DOMAIN c \cup {b, h, receiver} \subseteq D
    PROVE  ServesBy(MigrateToNewTokenHandler(c, token, b, old, h, receiver), D, b, h, kind,
                    token.resourceID, c[old].tokenOf[token.resourceID], receiver, {})
<1> DEFINE r == token.resourceID
           x == c[old].tokenOf[r]
           Q == {t \in LoopSteps : t.tx \in {"deploy", "mint", "grantSygmaHandler"}}
           g == GrantSygmaHandler(receiver, h)
           set == AdminSetResource(b, h, r, x)
           cond == kind = "ERC20Handler" => token.strategy = "mb"
           make == When(cond, MakeBurnable(b, h, x))
<1>1. kind \in TokenHandlers /\ old[1] \in TokenHandlers
  BY DEF TokenHandlers, AddressesOf
<1>2. x \in OrNone(r) /\ x \in DOMAIN c \cup {None}
  BY <1>1, TokenListTyped DEF ChainTyped, HasType, Wired
<1>3. <<g>> \in Seq(Q) /\ Grounded(D, <<g>>) /\ Sends(<<g>>, g)
  <2>1. g \in SygmaHandlerGrants
    BY DEF GrantSygmaHandler, SygmaHandlerGrants, OrNone
  <2>2. g.tx = "grantSygmaHandler" /\ Mentioned(g) \subseteq D
    BY DEF GrantSygmaHandler, Mentioned
  <2>3. g \in Q
    BY <2>1, <2>2 DEF LoopSteps, Settings
  <2> HIDE DEF g, Q
  <2> QED
    BY <2>2, <2>3 DEF Grounded, Sends
<1>4. <<>> \in Seq(Q) /\ Grounded(D, <<>>)
  BY DEF Grounded
<1>5. MigrateToNewTokenHandler(c, token, b, old, h, receiver) = <<set>> \o make \o <<g>>
  <2>1. receiver # None
    BY NoneIsNoAddress DEF Kinds
  <2> QED
    BY <2>1 DEF MigrateToNewTokenHandler, When
<1>6. <<>> \o <<set>> = <<set>>
  OBVIOUS
<1>7. b \in D /\ h \in D /\ x \in D \cup DeployedBy(<<>>) \cup {None}
  BY <1>2
<1> DEFINE p == <<>>
           q == <<g>>
<1>8. /\ p \in Seq(Q) /\ q \in Seq(Q) /\ Grounded(D, p) /\ Grounded(D, q)
      /\ x \in D \cup DeployedBy(p) \cup {None} /\ Sends(q, GrantSygmaHandler(receiver, h))
  BY <1>3, <1>4, <1>7
<1> HIDE DEF Q, x, p, q
<1>9. ServesBy(p \o <<set>> \o make \o q, D, b, h, kind, r, x, receiver, {})
  BY <1>1, <1>2, <1>7, <1>8, PartServes DEF Q
<1> QED
  BY <1>5, <1>6, <1>9 DEF x, p, q

-----------------------------------------------------------------------------
(* What a whole script sends. *)

\* What migration m may send, as c, d, the Bridge b and its router are.
Fit(m, c, d, b, router) ==
    {t \in Transactions : Proper(m, d, b, router, t) /\ NextNumber(c, t)}

LEMMA LoopFits ==
    ASSUME NEW m, NEW c, NEW d, NEW b, NEW router, NEW kind \in SetsFor(m),
           NEW h \in AddressesOf(kind), NEW script \in Seq(LoopOf(b, h, kind))
    PROVE  /\ script \in Seq(Fit(m, c, d, b, router))
           /\ \A i \in DOMAIN script : script[i].tx # "endKeygen"
<1>1. h[1] = kind
  BY DEF AddressesOf
<1>2. ASSUME NEW t \in LoopOf(b, h, kind)
      PROVE  t \in Fit(m, c, d, b, router) /\ t.tx # "endKeygen"
  <2>1. t \in Transactions /\ t \in LoopSteps
    BY LoopStepsAreTransactions DEF LoopOf
  <2>2. t.tx = "deploy" => t.to[1] \in Resources
    BY <2>1, LoopStepsDeployTokens
  <2>3. t.tx = "deploy" => t.to[1] \notin {"Bridge", "FeeHandlerRouter"}
    BY <2>2, NetworkAssumption DEF Kinds
  <2>4. t.tx \in Calm \cup {"adminSetResource"}
    BY DEF LoopOf
  <2>5. t.tx = "adminSetResource" => t.to = b /\ t.handler = h
    BY DEF LoopOf, AdminSetResource
  <2> QED
    BY <1>1, <2>1, <2>3, <2>4, <2>5 DEF Fit, Proper, NextNumber, Calm
<1>3. LoopOf(b, h, kind) \subseteq Fit(m, c, d, b, router)
  BY <1>2
<1>4. \A i \in DOMAIN script : script[i] \in LoopOf(b, h, kind)
  OBVIOUS
<1> QED
  BY <1>2, <1>3, <1>4

LEMMA DeploymentFits ==
    ASSUME NEW m, NEW c, NEW d, NEW b, NEW router, NEW t \in Deployments,
           t.to[1] \notin {"Bridge", "FeeHandlerRouter"}
    PROVE  /\ t \in Fit(m, c, d, b, router) /\ Mentioned(t) = {}
           /\ t.tx # "endKeygen" /\ t.tx # "adminSetResource"
           /\ <<t>> \in Seq(Fit(m, c, d, b, router))
           /\ \A D : Grounded(D, <<t>>)
           /\ t.to \in DeployedBy(<<t>>)
<1>1. t.tx = "deploy" /\ t \in Transactions
  BY DeployedTyped DEF Transactions
<1>2. t \in Fit(m, c, d, b, router)
  BY <1>1 DEF Fit, Proper, NextNumber
<1>3. Mentioned(t) = {}
  BY <1>1 DEF Mentioned
<1>4. DOMAIN <<t>> = {1} /\ <<t>>[1] = t
  OBVIOUS
<1>5. <<t>> \in Seq(Fit(m, c, d, b, router))
  BY <1>2
<1>6. \A D : Grounded(D, <<t>>)
  BY <1>3, <1>4 DEF Grounded
<1>7. t.to \in DeployedBy(<<t>>)
  BY <1>1, <1>4 DEF DeployedBy
<1> QED
  BY <1>1, <1>2, <1>3, <1>5, <1>6, <1>7

\* A loop has its tokens served, whatever calm part of the script comes first.
LEMMA LoopAfter ==
    ASSUME NEW T, NEW p \in Seq(T), NEW q \in Seq(T), NEW c, NEW D, NEW kind,
           NEW b, NEW h \in AddressesOf(kind), NEW receiver \in AddressesOf("DefaultMessageReceiver"),
           NEW also, LoopServed(q, D, b, h, kind, receiver, also),
           \A u \in also : Sends(p, u) /\ u.tx = "grantSygmaHandler",
           NEW token \in Listed(kind)
    PROVE  ToServe(c, p \o q, b, kind, token)
<1>1. PICK x \in OrNone(token.resourceID) :
        \A u \in Serving(b, h, x, receiver, kind, token.resourceID) :
            Redone(q, u) /\ (u \in also \/ Sends(q, u))
  BY DEF LoopServed
<1>2. ASSUME NEW u \in Serving(b, h, x, receiver, kind, token.resourceID)
      PROVE  Owed(c, p \o q, u)
  <2>1. CASE u \in also
    <3>1. Sends(p \o q, u)
      BY <2>1, SendsJoined
    <3>2. \A t : ~Undoes(t, u)
      BY <2>1 DEF Undoes
    <3>3. Redone(p \o q, u)
      BY <3>2 DEF Redone
    <3> QED
      BY <3>1, <3>3 DEF Owed
  <2>2. CASE Sends(q, u)
    <3>1. Sends(p \o q, u)
      BY <2>2, SendsJoined
    <3>2. Redone(p \o q, u)
      BY <1>1, <2>2, RedoneJoined
    <3> QED
      BY <3>1, <3>2 DEF Owed
  <2> QED
    BY <1>1, <2>1, <2>2
<1> QED
  BY <1>1, <1>2 DEF ToServe

\* It stays so if what comes then undoes nothing.
LEMMA ThenServed ==
    ASSUME NEW T, NEW p \in Seq(T), NEW q \in Seq(T), NEW c, NEW kind, NEW b, NEW token,
           ToServe(c, p, b, kind, token),
           \A h, x, receiver : x \in OrNone(token.resourceID) =>
               \A u \in Serving(b, h, x, receiver, kind, token.resourceID) : Redone(q, u)
    PROVE  ToServe(c, p \o q, b, kind, token)
<1>1. PICK h \in AddressesOf(kind), x \in OrNone(token.resourceID),
           receiver \in AddressesOf("DefaultMessageReceiver") :
        \A u \in Serving(b, h, x, receiver, kind, token.resourceID) : Owed(c, p, u)
  BY DEF ToServe
<1>2. ASSUME NEW u \in Serving(b, h, x, receiver, kind, token.resourceID)
      PROVE  Owed(c, p \o q, u)
  <2>1. Redone(p, u) /\ (Effect(c, u) \/ Sends(p, u)) /\ Redone(q, u)
    BY <1>1, <1>2 DEF Owed
  <2>2. Redone(p \o q, u)
    BY <2>1, RedoneJoined
  <2>3. Effect(c, u) \/ Sends(p \o q, u)
    BY <2>1, SendsJoined
  <2> QED
    BY <2>2, <2>3 DEF Owed
<1> QED
  BY <1>1, <1>2 DEF ToServe

\* The loops over the lists of tokens.
LEMMA Erc20Loop ==
    ASSUME NEW c, ChainTyped(c), Inherits(c), NEW b \in AddressesOf("Bridge"),
           NEW h \in AddressesOf("ERC20Handler"), NEW receiver, NEW D, DOMAIN c \cup {b, h} \subseteq D
    PROVE  LoopServed(IF Network.erc20 = None THEN <<Throw>> ELSE
                        Concat([i \in DOMAIN Network.erc20 |-> SetupErc20(c, Network.erc20[i], b, h)]),
                      D, b, h, "ERC20Handler", receiver, {GrantSygmaHandler(receiver, h)})
<1> DEFINE list == Network.erc20
           kind == "ERC20Handler"
           f == [i \in DOMAIN list |-> SetupErc20(c, list[i], b, h)]
           also == {GrantSygmaHandler(receiver, h)}
<1>1. kind \in TokenHandlers /\ Listed(kind) = Entries(list) /\ IsTokenList(list)
  BY NetworkAssumption DEF TokenHandlers, Listed
<1>2. CASE list = None
  <2>1. Listed(kind) = {}
    BY <1>1, <1>2 DEF Entries
  <2> QED
    BY <1>1, <1>2, <2>1, NoList
<1>3. CASE list # None
  <2>1. f = [i \in DOMAIN list |-> f[i]]
    OBVIOUS
  <2>2. ASSUME NEW i \in DOMAIN list, list[i] \in Entries(list)
        PROVE  \E x : ServesBy(f[i], D, b, h, kind, list[i].resourceID, x, receiver, also)
    <3>1. list[i] \in Listed(kind) /\ f[i] = SetupErc20(c, list[i], b, h)
      BY <1>1, <2>2
    <3> HIDE DEF f, list
    <3>2. ServesBy(SetupErc20(c, list[i], b, h), D, b, h, kind, list[i].resourceID,
                   TokenAddress(c, list[i]), receiver, {GrantSygmaHandler(receiver, h)})
      BY <1>1, <3>1, SetupServes
    <3> QED
      BY <3>1, <3>2
  <2> HIDE DEF f, list, kind, also
  <2>3. LoopServed(Concat(f), D, b, h, kind, receiver, also)
    BY <1>1, <1>3, <2>1, <2>2, LoopServes
  <2> QED
    BY <1>3, <2>3 DEF f, list, kind, also
<1> QED
  BY <1>2, <1>3

LEMMA Erc721Loop ==
    ASSUME NEW c, ChainTyped(c), Inherits(c), NEW b \in AddressesOf("Bridge"),
           NEW h \in AddressesOf("ERC721Handler"), NEW receiver, NEW D, DOMAIN c \cup {b, h} \subseteq D
    PROVE  LoopServed(IF Network.erc721 = None THEN <<Throw>> ELSE
                        Concat([i \in DOMAIN Network.erc721 |-> SetupErc721(c, Network.erc721[i], b, h)]),
                      D, b, h, "ERC721Handler", receiver, {})
<1> DEFINE list == Network.erc721
           kind == "ERC721Handler"
           f == [i \in DOMAIN list |-> SetupErc721(c, list[i], b, h)]
<1>1. kind \in TokenHandlers /\ Listed(kind) = Entries(list) /\ IsTokenList(list)
  BY NetworkAssumption DEF TokenHandlers, Listed
<1>2. CASE list = None
  <2>1. Listed(kind) = {}
    BY <1>1, <1>2 DEF Entries
  <2> QED
    BY <1>1, <1>2, <2>1, NoList
<1>3. CASE list # None
  <2>1. f = [i \in DOMAIN list |-> f[i]]
    OBVIOUS
  <2>2. ASSUME NEW i \in DOMAIN list, list[i] \in Entries(list)
        PROVE  \E x : ServesBy(f[i], D, b, h, kind, list[i].resourceID, x, receiver, {})
    <3>1. list[i] \in Listed(kind) /\ f[i] = SetupNft(c, list[i], b, h)
      BY <1>1, <2>2 DEF SetupErc721
    <3> HIDE DEF f, list
    <3> QED
      BY <1>1, <3>1, SetupServes
  <2> HIDE DEF f, list, kind
  <2>3. LoopServed(Concat(f), D, b, h, kind, receiver, {})
    BY <1>1, <1>3, <2>1, <2>2, LoopServes
  <2> QED
    BY <1>3, <2>3 DEF f, list, kind
<1> QED
  BY <1>2, <1>3

LEMMA Erc1155Loop ==
    ASSUME NEW c, ChainTyped(c), Inherits(c), NEW b \in AddressesOf("Bridge"),
           NEW h \in AddressesOf("ERC1155Handler"), NEW receiver, NEW D, DOMAIN c \cup {b, h} \subseteq D
    PROVE  LoopServed(IF Network.erc1155 = None THEN <<Throw>> ELSE
                        Concat([i \in DOMAIN Network.erc1155 |-> SetupErc1155(c, Network.erc1155[i], b, h)]),
                      D, b, h, "ERC1155Handler", receiver, {})
<1> DEFINE list == Network.erc1155
           kind == "ERC1155Handler"
           f == [i \in DOMAIN list |-> SetupErc1155(c, list[i], b, h)]
<1>1. kind \in TokenHandlers /\ Listed(kind) = Entries(list) /\ IsTokenList(list)
  BY NetworkAssumption DEF TokenHandlers, Listed
<1>2. CASE list = None
  <2>1. Listed(kind) = {}
    BY <1>1, <1>2 DEF Entries
  <2> QED
    BY <1>1, <1>2, <2>1, NoList
<1>3. CASE list # None
  <2>1. f = [i \in DOMAIN list |-> f[i]]
    OBVIOUS
  <2>2. ASSUME NEW i \in DOMAIN list, list[i] \in Entries(list)
        PROVE  \E x : ServesBy(f[i], D, b, h, kind, list[i].resourceID, x, receiver, {})
    <3>1. list[i] \in Listed(kind) /\ f[i] = SetupNft(c, list[i], b, h)
      BY <1>1, <2>2 DEF SetupErc1155
    <3> HIDE DEF f, list
    <3> QED
      BY <1>1, <3>1, SetupServes
  <2> HIDE DEF f, list, kind
  <2>3. LoopServed(Concat(f), D, b, h, kind, receiver, {})
    BY <1>1, <1>3, <2>1, <2>2, LoopServes
  <2> QED
    BY <1>3, <2>3 DEF f, list, kind
<1> QED
  BY <1>2, <1>3

LEMMA RedeployLoop ==
    ASSUME NEW c, ChainTyped(c), Wired(c), NEW b \in AddressesOf("Bridge"),
           NEW old \in AddressesOf("ERC20Handler"), old \in DOMAIN c,
           NEW h \in AddressesOf("ERC20Handler"),
           NEW receiver \in AddressesOf("DefaultMessageReceiver"),
           NEW D, Network.erc20 # <<>> => DOMAIN c \cup {b, h, receiver} \subseteq D
    PROVE  LoopServed(IF Network.erc20 = None THEN <<Throw>> ELSE
                        Concat([i \in DOMAIN Network.erc20 |->
                            MigrateToNewTokenHandler(c, Network.erc20[i], b, old, h, receiver)]),
                      D, b, h, "ERC20Handler", receiver, {})
<1> DEFINE list == Network.erc20
           kind == "ERC20Handler"
           f == [i \in DOMAIN list |-> MigrateToNewTokenHandler(c, list[i], b, old, h, receiver)]
<1>1. kind \in TokenHandlers /\ Listed(kind) = Entries(list) /\ IsTokenList(list)
  BY NetworkAssumption DEF TokenHandlers, Listed
<1>2. CASE list = None
  <2>1. Listed(kind) = {}
    BY <1>1, <1>2 DEF Entries
  <2> QED
    BY <1>1, <1>2, <2>1, NoList
<1>3. CASE list # None
  <2>1. f = [i \in DOMAIN list |-> f[i]]
    OBVIOUS
  <2>2. ASSUME NEW i \in DOMAIN list, list[i] \in Entries(list)
        PROVE  \E x : ServesBy(f[i], D, b, h, kind, list[i].resourceID, x, receiver, {})
    <3>1. list[i] \in Listed(kind)
          /\ f[i] = MigrateToNewTokenHandler(c, list[i], b, old, h, receiver)
      BY <1>1, <2>2
    <3>2. list # <<>>
      BY <2>2
    <3> HIDE DEF f, list
    <3> QED
      BY <1>1, <3>1, <3>2, MigrateServes DEF list
  <2> HIDE DEF f, list, kind
  <2>3. LoopServed(Concat(f), D, b, h, kind, receiver, {})
    BY <1>1, <1>3, <2>1, <2>2, LoopServes
  <2> QED
    BY <1>3, <2>3 DEF f, list, kind
<1> QED
  BY <1>2, <1>3

\* The contracts of migration 2.
LEMMA CoreScriptFits ==
    ASSUME NEW c, ChainTyped(c), NEW d
    PROVE  LET b == Fresh(c, "Bridge")
               router == Fresh(c, "FeeHandlerRouter")
               receiver == Fresh(c, "DefaultMessageReceiver")
               h == Fresh(c, "ERC20Handler")
           IN /\ CoreScript(c) \in Seq(Fit(2, c, d, b, router))
              /\ Grounded(DOMAIN c, CoreScript(c))
              /\ \A i \in DOMAIN CoreScript(c) :
                    CoreScript(c)[i].tx \notin {"adminSetResource", "endKeygen"}
              /\ Sends(CoreScript(c), AdminChangeFeeHandler(b, router))
              /\ Sends(CoreScript(c), GrantSygmaHandler(receiver, h))
              /\ {b, h, Fresh(c, "ERC721Handler")} \subseteq DeployedBy(CoreScript(c))
<1> DEFINE access == Fresh(c, "AccessControlSegregator")
           bridge == Fresh(c, "Bridge")
           receiver == Fresh(c, "DefaultMessageReceiver")
           erc20Handler == Fresh(c, "ERC20Handler")
           erc721Handler == Fresh(c, "ERC721Handler")
           router == Fresh(c, "FeeHandlerRouter")
           d1 == Deploy(access, NewAccess(GenerateAccessControlFuncSignatures))
           d2 == Deploy(Fresh(c, "Pausable"), <<>>)
           d3 == Deploy(bridge, NewBridge(access))
           d4 == Deploy(receiver, NewReceiver)
           d5 == Deploy(erc20Handler, NewHandler(bridge))
           d6 == Deploy(erc721Handler, NewHandler(bridge))
           d7 == Deploy(router, NewRouter(bridge))
           d8 == Deploy(Fresh(c, "BasicFeeHandler"), NewFeeHandler)
           d9 == Deploy(Fresh(c, "PercentageERC20FeeHandler"), NewFeeHandler)
           t10 == AdminChangeFeeHandler(bridge, router)
           t11 == GrantSygmaHandler(receiver, erc20Handler)
           F == Fit(2, c, d, bridge, router)
           s == CoreScript(c)
<1>1. \A kind : Fresh(c, kind) \in AddressesOf(kind) /\ Fresh(c, kind)[1] = kind
                /\ Fresh(c, kind)[2] = NumberOf(c, kind) + 1
  BY FreshTyped DEF AddressesOf, Fresh, Address
<1>2. /\ d1 \in Deployments /\ d2 \in Deployments /\ d3 \in Deployments
      /\ d4 \in Deployments /\ d5 \in Deployments /\ d6 \in Deployments
      /\ d7 \in Deployments /\ d8 \in Deployments /\ d9 \in Deployments
  <2>1. /\ Fresh(c, "Pausable") \in Plain \X Nat
        /\ erc20Handler \in HandlerAddresses /\ erc721Handler \in HandlerAddresses
        /\ Fresh(c, "BasicFeeHandler") \in FeeHandlers \X Nat
        /\ Fresh(c, "PercentageERC20FeeHandler") \in FeeHandlers \X Nat
        /\ bridge \in OrNone("Bridge")
    BY <1>1 DEF AddressesOf, Plain, HandlerAddresses, TokenHandlers, FeeHandlers, OrNone
  <2>2. /\ access \in AddressesOf("AccessControlSegregator") /\ bridge \in AddressesOf("Bridge")
        /\ receiver \in AddressesOf("DefaultMessageReceiver")
        /\ router \in AddressesOf("FeeHandlerRouter")
    BY <1>1
  <2> HIDE DEF access, bridge, receiver, erc20Handler, erc721Handler, router
  <2> QED
    BY <2>1, <2>2 DEF Deployments
<1>3. t10 \in Transactions /\ t11 \in Transactions
  <2>1. t10 \in LoopSteps /\ t11 \in LoopSteps
    BY <1>1 DEF LoopSteps, Settings, FeeHandlerChanges, SygmaHandlerGrants, AdminChangeFeeHandler,
      GrantSygmaHandler, OrNone
  <2> QED
    BY <2>1, LoopStepsAreTransactions
<1>4. /\ d1.to[1] = "AccessControlSegregator" /\ d2.to[1] = "Pausable"
      /\ d4.to[1] = "DefaultMessageReceiver" /\ d5.to[1] = "ERC20Handler"
      /\ d6.to[1] = "ERC721Handler"
      /\ d8.to[1] = "BasicFeeHandler" /\ d9.to[1] = "PercentageERC20FeeHandler"
  BY <1>1 DEF Deploy
<1>5. /\ d3.to = bridge /\ d4.to = receiver /\ d5.to = erc20Handler /\ d6.to = erc721Handler
      /\ d7.to = router
      /\ d3.tx = "deploy" /\ d4.tx = "deploy" /\ d5.tx = "deploy" /\ d6.tx = "deploy"
      /\ d7.tx = "deploy" /\ d7.contract = NewRouter(bridge)
      /\ d1.tx = "deploy" /\ d2.tx = "deploy" /\ d8.tx = "deploy" /\ d9.tx = "deploy"
  BY DEF Deploy
<1>6. /\ t10.tx = "adminChangeFeeHandler" /\ t10.to = bridge /\ t10.feeHandler = router
      /\ t11.tx = "grantSygmaHandler" /\ t11.to = receiver
  BY DEF AdminChangeFeeHandler, GrantSygmaHandler
<1>7. s = <<d1, d2, d3, d4, d5, d6, d7, d8, d9, t10, t11>>
  BY DEF CoreScript
<1>8. /\ d1 \in F /\ d2 \in F /\ d4 \in F /\ d5 \in F /\ d6 \in F /\ d8 \in F /\ d9 \in F
  <2> HIDE DEF d1, d2, d3, d4, d5, d6, d7, d8, d9, bridge, router
  <2> QED
    BY <1>2, <1>4, DeploymentFits
<1>9. d3 \in F
  <2>1. d3.to[1] = "Bridge" /\ d3.to[2] = NumberOf(c, "Bridge") + 1 /\ d3 \in Transactions
    BY <1>1, <1>2, <1>5 DEF Transactions
  <2> HIDE DEF d3, bridge, router
  <2> QED
    BY <2>1, <1>5 DEF Fit, Proper, NextNumber
<1>10. d7 \in F
  <2>1. d7.to[1] = "FeeHandlerRouter" /\ d7.to[2] = NumberOf(c, "FeeHandlerRouter") + 1
        /\ d7 \in Transactions
    BY <1>1, <1>2, <1>5 DEF Transactions
  <2> HIDE DEF d7, bridge, router
  <2> QED
    BY <2>1, <1>5 DEF Fit, Proper, NextNumber
<1>11. t10 \in F /\ t11 \in F
  <2> HIDE DEF t10, t11, bridge, router, receiver
  <2> QED
    BY <1>3, <1>6 DEF Fit, Proper, NextNumber
<1> HIDE DEF d1, d2, d3, d4, d5, d6, d7, d8, d9, t10, t11, F
<1>12. s \in Seq(F)
  BY <1>7, <1>8, <1>9, <1>10, <1>11
<1>13. /\ DOMAIN s = 1 .. 11
       /\ s[1] = d1 /\ s[2] = d2 /\ s[3] = d3 /\ s[4] = d4 /\ s[5] = d5 /\ s[6] = d6
       /\ s[7] = d7 /\ s[8] = d8 /\ s[9] = d9 /\ s[10] = t10 /\ s[11] = t11
  BY <1>7
<1> HIDE DEF s
<1>14. \A i \in DOMAIN s : (i \in 1 .. 9 /\ s[i].tx = "deploy") \/ i = 10 \/ i = 11
  BY <1>5, <1>13
<1>15. Grounded(DOMAIN c, s)
  <2>1. ASSUME NEW i \in DOMAIN s, NEW a \in Mentioned(s[i])
        PROVE  \E j \in DOMAIN s : j < i /\ s[j].tx = "deploy" /\ s[j].to = a
    <3>1. CASE i \in 1 .. 9 /\ s[i].tx = "deploy"
      BY <2>1, <3>1 DEF Mentioned
    <3>2. CASE i = 10
      <4>1. a = bridge \/ a = router
        BY <1>6, <1>13, <2>1, <3>2 DEF Mentioned
      <4>2. CASE a = bridge
        <5>1. 3 \in DOMAIN s /\ 3 < i /\ s[3].tx = "deploy" /\ s[3].to = a
          BY <1>5, <1>13, <3>2, <4>2
        <5> QED
          BY <5>1
      <4>3. CASE a = router
        <5>1. 7 \in DOMAIN s /\ 7 < i /\ s[7].tx = "deploy" /\ s[7].to = a
          BY <1>5, <1>13, <3>2, <4>3
        <5> QED
          BY <5>1
      <4> QED
        BY <4>1, <4>2, <4>3
    <3>3. CASE i = 11
      <4>1. a = receiver
        BY <1>6, <1>13, <2>1, <3>3 DEF Mentioned
      <4>2. 4 \in DOMAIN s /\ 4 < i /\ s[4].tx = "deploy" /\ s[4].to = a
        BY <1>5, <1>13, <3>3, <4>1
      <4> QED
        BY <4>2
    <3> QED
      BY <1>14, <3>1, <3>2, <3>3
  <2> QED
    BY <2>1 DEF Grounded
<1>16. \A i \in DOMAIN s : s[i].tx \notin {"adminSetResource", "endKeygen"}
  BY <1>6, <1>13, <1>14
<1>17. Sends(s, t10) /\ Sends(s, t11)
  BY <1>13 DEF Sends
<1>18. {bridge, erc20Handler, erc721Handler} \subseteq DeployedBy(s)
  <2>1. /\ 3 \in DOMAIN s /\ s[3].tx = "deploy" /\ s[3].to = bridge
        /\ 5 \in DOMAIN s /\ s[5].tx = "deploy" /\ s[5].to = erc20Handler
        /\ 6 \in DOMAIN s /\ s[6].tx = "deploy" /\ s[6].to = erc721Handler
    BY <1>5, <1>13
  <2> HIDE DEF bridge, erc20Handler, erc721Handler
  <2> QED
    BY <2>1 DEF DeployedBy
<1> QED
  BY <1>12, <1>15, <1>16, <1>17, <1>18 DEF s, F, t10, t11

\* The transactions of a script that do not end the key generation.
Early(F) == {t \in F : t.tx # "endKeygen"}

LEMMA EarlyScript ==
    ASSUME NEW F, NEW s \in Seq(F), \A i \in DOMAIN s : s[i].tx # "endKeygen"
    PROVE  s \in Seq(Early(F))
<1>1. \A i \in DOMAIN s : s[i] \in Early(F)
  BY DEF Early
<1> QED
  BY <1>1

LEMMA KeygenIsLast ==
    ASSUME NEW F, NEW p \in Seq(Early(F)), NEW q \in Seq(F), Len(q) <= 1,
           NEW i \in DOMAIN (p \o q), (p \o q)[i].tx = "endKeygen"
    PROVE  i = Len(p \o q)
<1>1. Early(F) \subseteq F
  BY DEF Early
<1>2. p \in Seq(F) /\ DOMAIN p = 1 .. Len(p) /\ Len(p) \in Nat
  BY <1>1
<1>3. Len(p \o q) = Len(p) + Len(q) /\ DOMAIN q = 1 .. Len(q) /\ Len(q) \in Nat
      /\ DOMAIN (p \o q) = 1 .. Len(p) + Len(q)
  BY <1>2
<1>4. Joins(p \o q, p, q)
  BY <1>2, Positions
<1>5. i \notin DOMAIN p
  <2>1. \A j \in DOMAIN p : p[j].tx # "endKeygen"
    BY DEF Early
  <2>2. \A j \in DOMAIN p : (p \o q)[j] = p[j]
    BY <1>4 DEF Joins
  <2> QED
    BY <2>1, <2>2, Zenon
<1> DEFINE m == Len(p)
           n == Len(q)
           w == p \o q
<1>6. m \in Nat /\ n \in Nat /\ n <= 1 /\ i \in 1 .. m + n /\ i \notin 1 .. m
  BY <1>2, <1>3, <1>5
<1> HIDE DEF m, n
<1>7. i = m + n
  BY <1>6
<1> QED
  BY <1>3, <1>7 DEF m, n

\* Migration 2 connects the router, and sets every token up before the end of the
\* key generation.
LEMMA DeployContractsToDo ==
    ASSUME NEW c, ChainTyped(c), Inherits(c), NEW d, NEW b, NEW router,
           b = Fresh(c, "Bridge"), router = Fresh(c, "FeeHandlerRouter"),
           IsClosed(c, b), RouterFor(c, router, b)
    PROVE  ToDo(2, c, d, DeployContracts(c, d), b, router)
<1> DEFINE receiver == Fresh(c, "DefaultMessageReceiver")
           h == Fresh(c, "ERC20Handler")
           g == Fresh(c, "ERC721Handler")
           core == CoreScript(c)
           e20 == IF Network.erc20 = None THEN <<Throw>> ELSE
                Concat([i \in DOMAIN Network.erc20 |-> SetupErc20(c, Network.erc20[i], b, h)])
           e721 == IF Network.erc721 = None THEN <<Throw>> ELSE
                Concat([i \in DOMAIN Network.erc721 |-> SetupErc721(c, Network.erc721[i], b, g)])
           u0 == EndKeygen(b, Network.MPCAddress)
           keygen == When(Network.MPCAddress # None, <<u0>>)
           F == Fit(2, c, d, b, router)
           E == Early(F)
           D == DOMAIN c
           change == AdminChangeFeeHandler(b, router)
           also == {GrantSygmaHandler(receiver, h)}
<1>1. DeployContracts(c, d) = core \o e20 \o e721 \o keygen
  BY DEF DeployContracts, CoreScript, ForEach
<1>2. /\ b \in AddressesOf("Bridge") /\ router \in AddressesOf("FeeHandlerRouter")
      /\ receiver \in AddressesOf("DefaultMessageReceiver")
      /\ h \in AddressesOf("ERC20Handler") /\ g \in AddressesOf("ERC721Handler")
  BY FreshTyped
<1>3. /\ core \in Seq(F) /\ Grounded(D, core)
      /\ \A i \in DOMAIN core : core[i].tx \notin {"adminSetResource", "endKeygen"}
      /\ Sends(core, change) /\ Sends(core, GrantSygmaHandler(receiver, h))
      /\ {b, h, g} \subseteq DeployedBy(core)
  BY CoreScriptFits
<1>4. /\ LoopServed(e20, D \cup DeployedBy(core), b, h, "ERC20Handler", receiver, also)
      /\ LoopServed(e721, D \cup DeployedBy(core), b, g, "ERC721Handler", receiver, {})
  <2> HIDE DEF receiver, h, g, core
  <2>1. D \cup {b, h} \subseteq D \cup DeployedBy(core) /\ D \cup {b, g} \subseteq D \cup DeployedBy(core)
    BY <1>3
  <2>2. LoopServed(e20, D \cup DeployedBy(core), b, h, "ERC20Handler", receiver, also)
    BY <1>2, <2>1, Erc20Loop
  <2>3. LoopServed(e721, D \cup DeployedBy(core), b, g, "ERC721Handler", receiver, {})
    BY <1>2, <2>1, Erc721Loop
  <2> QED
    BY <2>2, <2>3
<1>5. keygen \in Seq(F) /\ Len(keygen) <= 1 /\ (\A i \in DOMAIN keygen : keygen[i] = u0)
      /\ u0.tx = "endKeygen" /\ u0.to = b
  <2>1. u0 \in KeygenEnds /\ u0.tx = "endKeygen" /\ u0.to = b
    BY <1>2 DEF EndKeygen, KeygenEnds
  <2>2. u0 \in F
    <3> HIDE DEF u0
    <3>1. u0 \in Transactions
      BY <2>1, LoopStepsAreTransactions DEF LoopSteps, Settings
    <3> QED
      BY <2>1, <3>1 DEF Fit, Proper, NextNumber
  <2> HIDE DEF F, u0
  <2> QED
    BY <2>1, <2>2 DEF When
<1> HIDE DEF receiver, h, g, core, e20, e721, keygen, u0, F, D, change, also
<1>6. core \in Seq(E) /\ e20 \in Seq(E) /\ e721 \in Seq(E)
  <2>1. core \in Seq(E)
    BY <1>3, EarlyScript
  <2>2. "ERC20Handler" \in SetsFor(2) /\ "ERC721Handler" \in SetsFor(2)
    BY DEF SetsFor
  <2>3. e20 \in Seq(LoopOf(b, h, "ERC20Handler")) /\ e721 \in Seq(LoopOf(b, g, "ERC721Handler"))
    BY <1>4 DEF LoopServed
  <2>4. e20 \in Seq(F) /\ \A i \in DOMAIN e20 : e20[i].tx # "endKeygen"
    BY <1>2, <2>2, <2>3, LoopFits DEF F
  <2>5. e721 \in Seq(F) /\ \A i \in DOMAIN e721 : e721[i].tx # "endKeygen"
    BY <1>2, <2>2, <2>3, LoopFits DEF F
  <2> QED
    BY <2>1, <2>4, <2>5, EarlyScript
<1> DEFINE p2 == core \o e20
           p3 == p2 \o e721
           p4 == p3 \o keygen
<1>7. p2 \in Seq(E) /\ p3 \in Seq(E)
  <2> HIDE DEF E
  <2> QED
    BY <1>6
<1>8. core \in Seq(F) /\ e20 \in Seq(F) /\ e721 \in Seq(F) /\ p2 \in Seq(F) /\ p3 \in Seq(F)
      /\ keygen \in Seq(F)
  <2>1. E \subseteq F
    BY DEF Early
  <2>2. Seq(E) \subseteq Seq(F)
    BY <2>1
  <2> HIDE DEF E, p2, p3
  <2> QED
    BY <1>5, <1>6, <1>7, <2>2
<1> HIDE DEF E, p2, p3, p4
<1>9. p4 \in Seq(F) /\ DeployContracts(c, d) = p4
  <2>1. p4 = p3 \o keygen /\ p3 = p2 \o e721 /\ p2 = core \o e20
    BY DEF p4, p3, p2
  <2> QED
    BY <1>1, <1>8, <2>1
<1>10. Grounded(D, p4)
  <2>1. Grounded(D, p2)
    <3>1. Grounded(D \cup DeployedBy(core), e20)
      BY <1>4 DEF LoopServed
    <3> QED
      BY <1>3, <1>8, <3>1, GroundedJoined DEF p2
  <2>2. DeployedBy(core) \subseteq DeployedBy(p2)
    BY <1>8, DeployedByJoined DEF p2
  <2>3. Grounded(D, p3)
    <3>1. Grounded(D \cup DeployedBy(core), e721)
      BY <1>4 DEF LoopServed
    <3>2. D \cup DeployedBy(core) \subseteq D \cup DeployedBy(p2)
      BY <2>2
    <3>3. Grounded(D \cup DeployedBy(p2), e721)
      BY <3>1, <3>2, GroundedMore
    <3> QED
      BY <1>8, <2>1, <3>3, GroundedJoined DEF p3
  <2>4. DeployedBy(p2) \subseteq DeployedBy(p3)
    BY <1>8, DeployedByJoined DEF p3
  <2>5. Grounded(D \cup DeployedBy(p3), keygen)
    <3>1. Mentioned(u0) = {b}
      BY <1>5 DEF Mentioned
    <3>2. b \in DeployedBy(p3)
      BY <1>3, <2>2, <2>4
    <3> QED
      BY <1>5, <3>1, <3>2 DEF Grounded
  <2> QED
    BY <1>8, <2>3, <2>5, GroundedJoined DEF p4
<1>11. \A i \in DOMAIN p4 : Proper(2, d, b, router, p4[i]) /\ NextNumber(c, p4[i])
  <2>1. \A i \in DOMAIN p4 : p4[i] \in F
    BY <1>9
  <2> QED
    BY <2>1 DEF F, Fit
<1>12. \A i \in DOMAIN p4 : p4[i].tx = "endKeygen" => i = Len(p4)
  BY <1>5, <1>7, <1>8, KeygenIsLast DEF p4, E
<1>13. Owed(c, p4, change)
  <2>1. Sends(p4, change)
    BY <1>3, <1>8, SendsJoined DEF p2, p3, p4
  <2>2. change.tx = "adminChangeFeeHandler"
    BY DEF change, AdminChangeFeeHandler
  <2>3. \A t : ~Undoes(t, change)
    BY <2>2 DEF Undoes
  <2> QED
    BY <2>1, <2>3 DEF Owed, Redone
<1>14. \A u : Redone(keygen, u)
  <2>1. \A i \in DOMAIN keygen : keygen[i].tx # "adminSetResource"
    BY <1>5
  <2> QED
    BY <2>1, CalmScript
<1>15. ASSUME NEW token \in Entries(Network.erc721)
       PROVE  ToServe(c, p4, b, "ERC721Handler", token)
  <2>1. token \in Listed("ERC721Handler")
    BY DEF Listed
  <2>2. ToServe(c, p3, b, "ERC721Handler", token)
    BY <1>2, <1>4, <1>8, <2>1, LoopAfter DEF p3
  <2> QED
    BY <1>8, <1>14, <2>2, ThenServed DEF p4
<1>16. ASSUME NEW token \in Entries(Network.erc20)
       PROVE  ToServe(c, p4, b, "ERC20Handler", token)
  <2>1. token \in Listed("ERC20Handler") /\ token.resourceID \in Handles("ERC20Handler")
    BY DEF Listed, Handles
  <2>2. ToServe(c, p2, b, "ERC20Handler", token)
    <3>1. \A u \in also : Sends(core, u) /\ u.tx = "grantSygmaHandler"
      BY <1>3 DEF also, GrantSygmaHandler
    <3> QED
      BY <1>2, <1>4, <1>8, <2>1, <3>1, LoopAfter DEF p2
  <2>3. ToServe(c, p3, b, "ERC20Handler", token)
    <3>1. token.resourceID \notin Handles("ERC721Handler")
      BY <2>1, ResourcesDiffer
    <3>2. e721 \in Seq(LoopOf(b, g, "ERC721Handler"))
      BY <1>4 DEF LoopServed
    <3>3. ASSUME NEW hh, NEW x, NEW rr, x \in OrNone(token.resourceID),
                 NEW u \in Serving(b, hh, x, rr, "ERC20Handler", token.resourceID)
          PROVE  Redone(e721, u)
      BY <3>1, <3>2, <3>3, LoopAlone
    <3> QED
      BY <1>8, <2>2, <3>3, ThenServed DEF p3
  <2> QED
    BY <1>8, <1>14, <2>3, ThenServed DEF p4
<1>17. OnceEach(p4)
  BY <1>9, DeployContractsTyped
<1>18. ToDo(2, c, d, p4, b, router)
  BY <1>10, <1>11, <1>12, <1>13, <1>15, <1>16, <1>17 DEF ToDo, D, change
<1> QED
  BY <1>9, <1>18

\* The scripts that set no token up.
Bare == {1, 3, 4, 8, 9, 10}

BareToDo(m, c, d, script, b, router) ==
    /\ script \in Seq(Fit(m, c, d, b, router))
    /\ Grounded(DOMAIN c, script)

LEMMA NothingToDo ==
    ASSUME NEW m, NEW c, NEW d, NEW b, NEW router
    PROVE  BareToDo(m, c, d, <<>>, b, router)
BY DEF BareToDo, Grounded

LEMMA PlainToDo ==
    ASSUME NEW m, NEW c, ChainTyped(c), NEW d, NEW b, NEW router, NEW kind \in Plain
    PROVE  BareToDo(m, c, d, <<Deploy(Fresh(c, kind), <<>>)>>, b, router)
<1> DEFINE t == Deploy(Fresh(c, kind), <<>>)
<1>1. Fresh(c, kind) \in Plain \X Nat /\ Fresh(c, kind)[1] = kind
  BY FreshTyped DEF AddressesOf
<1>2. t \in Deployments /\ t.to[1] = kind
  BY <1>1 DEF Deployments, Deploy
<1>3. t.to[1] \notin {"Bridge", "FeeHandlerRouter"}
  BY <1>2 DEF Plain
<1> HIDE DEF t
<1>4. BareToDo(m, c, d, <<t>>, b, router)
  BY <1>2, <1>3, DeploymentFits DEF BareToDo
<1> QED
  BY <1>4 DEF t

LEMMA GmpToDo ==
    ASSUME NEW c, ChainTyped(c), NEW d, Saved(c, d), CoreSaved(d), NEW router
    PROVE  BareToDo(3, c, d, DeployGmpHandler(c, d), d["Bridge"], router)
<1> DEFINE b == d["Bridge"]
           handler == Fresh(c, "GmpHandler")
           t1 == Deploy(handler, NewHandler(b))
           t2 == AdminSetResource(b, handler, Network.gmp, b)
           F == Fit(3, c, d, b, router)
<1>1. CASE Network.gmp = None
  <2>1. DeployGmpHandler(c, d) = <<>>
    BY <1>1 DEF DeployGmpHandler, When
  <2> QED
    BY <2>1, NothingToDo
<1>2. CASE Network.gmp # None
  <2>1. b \in OrNone("Bridge") /\ b \in Addresses \cup {None} /\ b \in DOMAIN c
    BY SavedTyped, KindsDiffer, CoreAddresses DEF Kinds, OrNone, Core
  <2>2. handler \in HandlerAddresses /\ handler[1] = "GmpHandler"
    BY FreshTyped DEF AddressesOf, HandlerAddresses
  <2>3. t1 \in Deployments /\ t1.to = handler /\ t1.tx = "deploy"
    <3>1. t1 \in Deployments
      BY <2>1, <2>2 DEF Deployments
    <3> QED
      BY <3>1 DEF Deploy
  <2>4. t1 \in F /\ Mentioned(t1) = {}
    <3> HIDE DEF t1, handler, b
    <3> QED
      BY <2>2, <2>3, DeploymentFits
  <2>5. /\ t2 \in ResourceSettings
        /\ t2.tx = "adminSetResource" /\ t2.to = b /\ t2.handler = handler /\ t2.contract = b
    BY <1>2, <2>1, <2>2, NetworkAssumption DEF AdminSetResource, ResourceSettings, TokenHandlers
  <2>6. t2 \in F /\ Mentioned(t2) = {b, handler}
    <3>1. t2 \in Transactions
      BY <2>5 DEF Transactions, Calls, Settings
    <3> HIDE DEF t2, handler, b
    <3> QED
      BY <1>2, <2>2, <2>5, <3>1 DEF Fit, Proper, NextNumber, SetsFor, Mentioned
  <2>7. DeployGmpHandler(c, d) = <<t1, t2>>
    <3>1. d["Bridge"] # None
      BY DEF CoreSaved, Core
    <3> QED
      BY <1>2, <3>1 DEF DeployGmpHandler, When, WithDeployed
  <2> DEFINE s == <<t1, t2>>
  <2> HIDE DEF t1, t2, handler, F
  <2>8. s \in Seq(F) /\ DOMAIN s = {1, 2} /\ s[1] = t1 /\ s[2] = t2
    BY <2>4, <2>6
  <2> HIDE DEF s, b
  <2>9. ASSUME NEW i \in DOMAIN s, NEW a \in Mentioned(s[i])
        PROVE  \/ a \in DOMAIN c \cup {None}
               \/ \E j \in DOMAIN s : j < i /\ s[j].tx = "deploy" /\ s[j].to = a
    <3>1. i = 2 /\ (a = b \/ a = handler)
      BY <2>4, <2>6, <2>8, <2>9
    <3>2. 1 \in DOMAIN s /\ 1 < i /\ s[1].tx = "deploy" /\ s[1].to = handler
      BY <2>3, <2>8, <3>1
    <3> QED
      BY <2>1, <3>1, <3>2
  <2>10. Grounded(DOMAIN c, s)
    BY <2>9, Zenon DEF Grounded
  <2> QED
    BY <2>7, <2>8, <2>10 DEF BareToDo, s, F, b
<1> QED
  BY <1>1, <1>2

LEMMA HandoverToDo ==
    ASSUME NEW c, NEW d, Saved(c, d), CoreSaved(d), NEW b, NEW router
    PROVE  BareToDo(8, c, d, RenounceAdmins(c, d), b, router)
<1> DEFINE s == RenounceAdmins(c, d)
<1>1. s \in Seq(Steps(8))
  BY RenounceAdminsTyped
<1>2. ASSUME NEW t \in Steps(8)
      PROVE  t \in Fit(8, c, d, b, router) /\ Mentioned(t) = {}
  <2>1. t \in Transactions
    BY StepsTyped DEF Migrations
  <2>2. t = Throw \/ t \in Handovers
    BY DEF Steps
  <2>3. t.tx \in {"throw", "renounceAdmin", "grantAdmin", "renounceRole", "grantAccess"}
    BY <2>2 DEF Throw, Handovers, AdminRenunciations, AdminGrants, RoleRenunciations, AccessGrants,
      GrantAccess
  <2> QED
    BY <2>1, <2>3 DEF Fit, Proper, NextNumber, Mentioned
<1>3. Steps(8) \subseteq Fit(8, c, d, b, router)
  BY <1>2
<1>4. \A i \in DOMAIN s : s[i] \in Steps(8)
  BY <1>1
<1> HIDE DEF s
<1>5. s \in Seq(Fit(8, c, d, b, router))
  BY <1>1, <1>3
<1>6. Grounded(DOMAIN c, s)
  BY <1>2, <1>4 DEF Grounded
<1> QED
  BY <1>5, <1>6 DEF BareToDo, s

LEMMA BareScripts ==
    ASSUME NEW c, ChainTyped(c), NEW d, Saved(c, d), NEW m \in Bare, m > 2 => CoreSaved(d),
           NEW b, NEW router, m > 2 => b = d["Bridge"]
    PROVE  BareToDo(m, c, d, Script(m, c, d), b, router)
<1>1. CASE m = 1
  <2>1. Script(m, c, d) = <<Deploy(Fresh(c, "Migrations"), <<>>)>>
    BY <1>1 DEF Script, InitialMigration
  <2> QED
    BY <2>1, PlainToDo DEF Plain
<1>2. CASE m = 3
  <2>1. Script(m, c, d) = DeployGmpHandler(c, d)
    BY <1>2 DEF Script
  <2> QED
    BY <1>2, <2>1, GmpToDo
<1>3. CASE m = 4
  <2>1. Script(m, c, d) = <<>>
    BY <1>3 DEF Script, DeployXC20Contracts
  <2> QED
    BY <2>1, NothingToDo
<1>4. CASE m = 8
  <2>1. Script(m, c, d) = RenounceAdmins(c, d)
    BY <1>4 DEF Script
  <2> QED
    BY <1>4, <2>1, HandoverToDo
<1>5. CASE m = 9
  <2>1. Script(m, c, d) \in {<<Deploy(Fresh(c, "FROSTKeygen"), <<>>)>>, <<>>}
    BY <1>5 DEF Script, DeployFROSTKeygen, When
  <2>2. BareToDo(m, c, d, <<Deploy(Fresh(c, "FROSTKeygen"), <<>>)>>, b, router)
    BY PlainToDo DEF Plain
  <2> QED
    BY <2>1, <2>2, NothingToDo
<1>6. CASE m = 10
  <2>1. Script(m, c, d) = <<Deploy(Fresh(c, "Retry"), <<>>)>>
    BY <1>6 DEF Script, DeployRetry
  <2> QED
    BY <2>1, PlainToDo DEF Plain
<1> QED
  BY <1>1, <1>2, <1>3, <1>4, <1>5, <1>6 DEF Bare

\* Migration 5 sets up the tokens of a new handler.
LEMMA Erc1155ToDo ==
    ASSUME NEW c, ChainTyped(c), Inherits(c), NEW d, Saved(c, d), CoreSaved(d), NEW router
    PROVE  LET script == DeployErc1155(c, d)
           IN /\ BareToDo(5, c, d, script, d["Bridge"], router)
              /\ \A token \in Entries(Network.erc1155) :
                    ToServe(c, script, d["Bridge"], "ERC1155Handler", token)
<1> DEFINE b == d["Bridge"]
           receiver == d["DefaultMessageReceiver"]
           h == Fresh(c, "ERC1155Handler")
           t == Deploy(h, NewHandler(b))
           loop == IF Network.erc1155 = None THEN <<Throw>> ELSE
                Concat([i \in DOMAIN Network.erc1155 |-> SetupErc1155(c, Network.erc1155[i], b, h)])
           first == <<t>>
           D == DOMAIN c
           F == Fit(5, c, d, b, router)
<1>1. DeployErc1155(c, d) = first \o loop
  BY DEF DeployErc1155, ForEach, WithDeployed, CoreSaved, Core
<1>2. /\ b \in AddressesOf("Bridge") /\ b \in D /\ b \in OrNone("Bridge")
      /\ receiver \in AddressesOf("DefaultMessageReceiver")
      /\ h \in AddressesOf("ERC1155Handler")
  BY CoreAddresses, FreshTyped DEF Core, OrNone
<1>3. first \in Seq(F) /\ Grounded(D, first) /\ h \in DeployedBy(first)
  <2>1. h \in HandlerAddresses /\ h[1] = "ERC1155Handler"
    BY <1>2 DEF AddressesOf, HandlerAddresses, TokenHandlers
  <2>2. t \in Deployments /\ t.to = h
    <3>1. t \in Deployments
      BY <1>2, <2>1 DEF Deployments
    <3> QED
      BY <3>1 DEF Deploy
  <2> HIDE DEF t, h, b
  <2> QED
    BY <2>1, <2>2, DeploymentFits
<1>4. LoopServed(loop, D \cup DeployedBy(first), b, h, "ERC1155Handler", receiver, {})
  <2> HIDE DEF first, h, b, receiver
  <2>1. D \cup {b, h} \subseteq D \cup DeployedBy(first)
    BY <1>2, <1>3
  <2> QED
    BY <1>2, <2>1, Erc1155Loop
<1> HIDE DEF b, receiver, h, t, loop, first, F, D
<1>5. loop \in Seq(F)
  <2>1. "ERC1155Handler" \in SetsFor(5)
    BY DEF SetsFor
  <2>2. loop \in Seq(LoopOf(b, h, "ERC1155Handler"))
    BY <1>4 DEF LoopServed
  <2> QED
    BY <1>2, <2>1, <2>2, LoopFits DEF F
<1>6. Grounded(D, first \o loop)
  BY <1>3, <1>4, <1>5, GroundedJoined DEF LoopServed
<1>7. first \o loop \in Seq(F)
  BY <1>3, <1>5
<1>8. ASSUME NEW token \in Entries(Network.erc1155)
      PROVE  ToServe(c, first \o loop, b, "ERC1155Handler", token)
  <2>1. token \in Listed("ERC1155Handler")
    BY DEF Listed
  <2> QED
    BY <1>2, <1>3, <1>4, <1>5, <2>1, LoopAfter
<1> QED
  BY <1>1, <1>6, <1>7, <1>8 DEF BareToDo, b, D, F

\* Migration 7 sets the tokens of the handler that it replaces up again.
LEMMA RedeployToDo ==
    ASSUME NEW c, ChainTyped(c), Wired(c), NEW d, Saved(c, d), CoreSaved(d), NEW router
    PROVE  LET script == RedeployHandlers(c, d)
           IN /\ BareToDo(7, c, d, script, d["Bridge"], router)
              /\ RedeployTokenHandlers => \A token \in Entries(Network.erc20) :
                    ToServe(c, script, d["Bridge"], "ERC20Handler", token)
<1> DEFINE b == d["Bridge"]
           receiver == d["DefaultMessageReceiver"]
           old == d["ERC20Handler"]
           h == Fresh(c, "ERC20Handler")
           t == Deploy(h, NewHandler(b))
           first == When(Network.erc20 # <<>>, <<t>>)
           loop == IF Network.erc20 = None THEN <<Throw>> ELSE
                Concat([i \in DOMAIN Network.erc20 |->
                    MigrateToNewTokenHandler(c, Network.erc20[i], b, old, h, receiver)])
           D == DOMAIN c
           F == Fit(7, c, d, b, router)
<1>1. CASE ~RedeployTokenHandlers
  <2>1. RedeployHandlers(c, d) = <<>>
    BY <1>1 DEF RedeployHandlers, When
  <2> QED
    BY <1>1, <2>1, NothingToDo
<1>2. CASE RedeployTokenHandlers
  <2>1. RedeployHandlers(c, d) = first \o loop \o <<>>
    <3>1. d["XC20Handler"] = None
      BY DEF Saved
    <3> QED
      BY <1>2, <3>1 DEF RedeployHandlers, RedeployHandler, When, ForEach
  <2>2. /\ b \in AddressesOf("Bridge") /\ b \in D /\ b \in OrNone("Bridge")
        /\ receiver \in AddressesOf("DefaultMessageReceiver") /\ receiver \in D
        /\ old \in AddressesOf("ERC20Handler") /\ old \in D
        /\ h \in AddressesOf("ERC20Handler")
    BY CoreAddresses, FreshTyped DEF Core, OrNone
  <2>3. /\ first \in Seq(F) /\ Grounded(D, first)
        /\ Network.erc20 # <<>> => h \in DeployedBy(first)
    <3>1. h \in HandlerAddresses /\ h[1] = "ERC20Handler"
      BY <2>2 DEF AddressesOf, HandlerAddresses, TokenHandlers
    <3>2. t \in Deployments /\ t.to = h
      <4>1. t \in Deployments
        BY <2>2, <3>1 DEF Deployments
      <4> QED
        BY <4>1 DEF Deploy
    <3> HIDE DEF t, h, b
    <3>3. <<t>> \in Seq(F) /\ Grounded(D, <<t>>) /\ h \in DeployedBy(<<t>>)
      BY <3>1, <3>2, DeploymentFits
    <3>4. <<>> \in Seq(F) /\ Grounded(D, <<>>)
      BY DEF Grounded
    <3> HIDE DEF F
    <3> QED
      BY <3>3, <3>4 DEF When
  <2>4. LoopServed(loop, D \cup DeployedBy(first), b, h, "ERC20Handler", receiver, {})
    <3> HIDE DEF first, h, b, receiver, old
    <3>1. Network.erc20 # <<>> => D \cup {b, h, receiver} \subseteq D \cup DeployedBy(first)
      BY <2>2, <2>3
    <3> QED
      BY <2>2, <3>1, RedeployLoop
  <2> HIDE DEF b, receiver, old, h, t, loop, first, F, D
  <2>5. loop \in Seq(F)
    <3>1. "ERC20Handler" \in SetsFor(7)
      BY <1>2 DEF SetsFor
    <3>2. loop \in Seq(LoopOf(b, h, "ERC20Handler"))
      BY <2>4 DEF LoopServed
    <3> QED
      BY <2>2, <3>1, <3>2, LoopFits DEF F
  <2>6. Grounded(D, first \o loop)
    BY <2>3, <2>4, <2>5, GroundedJoined DEF LoopServed
  <2>7. first \o loop \in Seq(F)
    BY <2>3, <2>5
  <2>8. first \o loop \o <<>> = first \o loop
    BY <2>7
  <2>9. ASSUME NEW token \in Entries(Network.erc20)
        PROVE  ToServe(c, first \o loop, b, "ERC20Handler", token)
    <3>1. token \in Listed("ERC20Handler")
      BY DEF Listed
    <3> QED
      BY <2>2, <2>3, <2>4, <2>5, <3>1, LoopAfter
  <2> QED
    BY <2>1, <2>6, <2>7, <2>8, <2>9 DEF BareToDo, b, D, F
<1> QED
  BY <1>1, <1>2

\* Migration 6 sets a route's fee after its handler.
LEMMA RoutesToDo ==
    ASSUME NEW c, NEW d, Saved(c, d), CoreSaved(d), NEW b
    PROVE  LET script == RegisterRoutes(c, d)
           IN /\ BareToDo(6, c, d, script, b, d["FeeHandlerRouter"])
              /\ \A fee \in Fees :
                    Owed(c, script, ChangeFee(FeeHandlerFor(d, fee), fee.route, fee.feeAmount))
<1> DEFINE router == d["FeeHandlerRouter"]
           D == DOMAIN c
           F == Fit(6, c, d, b, router)
           list == Network.fee
           f == [i \in DOMAIN list |-> RegisterFee(d, list[i])]
           s == RegisterRoutes(c, d)
           Calls6 == {"throw", "adminSetResourceHandler", "changeFee"}
<1>1. s = IF list = None THEN <<Throw>> ELSE Concat(f)
  BY DEF RegisterRoutes, ForEach, RegisterFee
<1>2. /\ router \in OrNone("FeeHandlerRouter") /\ router \in D
      /\ \A kind \in FeeHandlers : d[kind] \in OrNone(kind) /\ d[kind] \in D
  BY CoreAddresses DEF Core, OrNone, FeeHandlers
<1> DEFINE T == {t \in F : t.tx \in Calls6 /\ Mentioned(t) \subseteq D}
           t1(fee) == AdminSetResourceHandler(router, fee.route, FeeHandlerFor(d, fee))
           t2(fee) == ChangeFee(FeeHandlerFor(d, fee), fee.route, fee.feeAmount)
<1>3. ASSUME NEW fee \in Fees
      PROVE  t1(fee) \in T /\ t2(fee) \in T /\ RegisterFee(d, fee) = <<t1(fee), t2(fee)>>
  <2>1. fee \in Entries(Network.fee) /\ fee.route \in Routes /\ fee.feeAmount \in FeeAmounts
        /\ fee.feeAmount \in Amounts(fee.route)
    BY NetworkAssumption DEF Fees, FeeAmounts, Amounts
  <2>2. FeeHandlerFor(d, fee) \in AnyFeeHandler /\ FeeHandlerFor(d, fee) \in D
    BY <1>2 DEF FeeHandlerFor, AnyFeeHandler, FeeHandlers
  <2>3. /\ t1(fee) \in RouteSettings /\ t1(fee).tx = "adminSetResourceHandler"
        /\ t1(fee).to = router /\ t1(fee).route = fee.route
        /\ t1(fee).feeHandler = FeeHandlerFor(d, fee)
    BY <1>2, <2>1, <2>2 DEF AdminSetResourceHandler, RouteSettings
  <2>4. /\ t2(fee) \in FeeChanges /\ t2(fee).tx = "changeFee" /\ t2(fee).route = fee.route
        /\ t2(fee).to = FeeHandlerFor(d, fee) /\ t2(fee).fee = fee.feeAmount
    BY <2>1, <2>2 DEF ChangeFee, FeeChanges
  <2>5. RegisterFee(d, fee) = <<t1(fee), t2(fee)>>
    <3>1. \A p, q : <<p, q>> \o <<>> = <<p, q>> /\ <<>> \o <<p, q>> = <<p, q>>
      OBVIOUS
    <3>2. CASE fee.type = "basic"
      <4>1. FeeHandlerFor(d, fee) = d["BasicFeeHandler"]
        BY <3>2 DEF FeeHandlerFor
      <4>2. RegisterFee(d, fee) = <<t1(fee), t2(fee)>> \o <<>>
        BY <3>2, <4>1 DEF RegisterFee, When
      <4> QED
        BY <3>1, <4>2
    <3>3. CASE fee.type = "percentage"
      <4>1. FeeHandlerFor(d, fee) = d["PercentageERC20FeeHandler"]
        BY <3>3 DEF FeeHandlerFor
      <4>2. RegisterFee(d, fee) = <<>> \o <<t1(fee), t2(fee)>>
        BY <3>3, <4>1 DEF RegisterFee, When
      <4> QED
        BY <3>1, <4>2
    <3> QED
      BY <3>2, <3>3 DEF Fees
  <2> DEFINE x == t1(fee)
             y == t2(fee)
  <2>6. x \in Transactions /\ y \in Transactions
    BY <2>3, <2>4, LoopStepsAreTransactions DEF LoopSteps, Settings
  <2>7. /\ x \in RouteSettings /\ x.tx = "adminSetResourceHandler"
        /\ x.to = router /\ x.route = fee.route
        /\ x.feeHandler = FeeHandlerFor(d, fee)
        /\ y \in FeeChanges /\ y.tx = "changeFee" /\ y.route = fee.route
        /\ y.to = FeeHandlerFor(d, fee) /\ y.fee = fee.feeAmount
    BY <2>3, <2>4
  <2> HIDE DEF x, y, router
  <2>8. x \in T
    BY <1>2, <2>6, <2>7 DEF Fit, Proper, NextNumber, Mentioned
  <2>9. y \in T
    BY <2>1, <2>2, <2>6, <2>7 DEF Fit, Proper, NextNumber, Mentioned
  <2> QED
    BY <2>5, <2>8, <2>9 DEF x, y
<1> HIDE DEF T, t1, t2
<1>4. ASSUME NEW fee \in Entries(Network.fee)
      PROVE  RegisterFee(d, fee) \in Seq(T)
  <2>1. CASE fee \in Fees
    <3>1. t1(fee) \in T /\ t2(fee) \in T /\ RegisterFee(d, fee) = <<t1(fee), t2(fee)>>
      BY <1>3, <2>1
    <3>2. <<t1(fee), t2(fee)>> \in Seq(T)
      BY <3>1
    <3> QED
      BY <3>1, <3>2
  <2>2. CASE fee \notin Fees
    <3>1. fee.type # "basic" /\ fee.type # "percentage"
      BY <2>2 DEF Fees
    <3>2. RegisterFee(d, fee) = <<>> \o <<>>
      BY <3>1 DEF RegisterFee, When
    <3> QED
      BY <3>2
  <2> QED
    BY <2>1, <2>2
<1>5. f = [i \in DOMAIN list |-> f[i]] /\ DOMAIN f = DOMAIN list
  OBVIOUS
<1>6. \A i \in DOMAIN list : list[i] \in Entries(list) => f[i] \in Seq(T)
  BY <1>4
<1>7. \A i \in DOMAIN list : f[i] = RegisterFee(d, list[i])
  OBVIOUS
<1> HIDE DEF f, list, s
<1>8. list # None => f \in Seq(Seq(T)) /\ Concat(f) \in Seq(T)
  BY <1>5, <1>6, ConcatTyped, ListsAreLists DEF list
<1>9. <<Throw>> \in Seq(T)
  <2>1. Throw \in Transactions /\ Throw.tx = "throw"
    BY DEF Throw, Transactions
  <2>2. Throw \in F /\ Mentioned(Throw) = {}
    BY <2>1 DEF Fit, Proper, NextNumber, Mentioned
  <2>3. Throw \in T
    BY <2>1, <2>2 DEF T
  <2> QED
    BY <2>3
<1>10. s \in Seq(T)
  BY <1>1, <1>8, <1>9
<1>11. \A i \in DOMAIN s : s[i] \in T
  BY <1>10
<1>12. BareToDo(6, c, d, s, b, router)
  <2>1. T \subseteq F
    BY DEF T
  <2>2. Grounded(D, s)
    BY <1>11 DEF Grounded, T
  <2> HIDE DEF F
  <2> QED
    BY <1>10, <2>1, <2>2 DEF BareToDo, F
<1>13. ASSUME NEW fee \in Fees
       PROVE  Owed(c, s, t2(fee))
  <2>1. fee \in Entries(list)
    BY DEF Fees, list
  <2>2. PICK i \in DOMAIN list : list[i] = fee
    BY <2>1 DEF Entries, ToSet
  <2>3. list # None /\ f[i] = <<t1(fee), t2(fee)>>
    BY <1>3, <1>7, <2>1, <2>2 DEF Entries
  <2>4. Sends(f[i], t2(fee))
    <3> DEFINE w == <<t1(fee), t2(fee)>>
    <3>1. 2 \in DOMAIN w /\ w[2] = t2(fee)
      OBVIOUS
    <3> HIDE DEF w
    <3>2. Sends(w, t2(fee))
      BY <3>1 DEF Sends
    <3> QED
      BY <2>3, <3>2 DEF w
  <2>5. Sends(s, t2(fee))
    BY <1>1, <1>5, <1>8, <2>2, <2>3, <2>4, LoopSends
  <2>6. Redone(s, t2(fee))
    <3>1. \A j \in DOMAIN s : s[j].tx # "adminSetResource"
      BY <1>11 DEF T
    <3> QED
      BY <3>1, CalmScript
  <2> QED
    BY <2>5, <2>6 DEF Owed
<1> QED
  BY <1>12, <1>13 DEF s, t2

\* The addresses a migration has for the Bridge and its router.
Mine(m, c, d, kind) == IF m <= 2 THEN Fresh(c, kind) ELSE d[kind]

\* A script that begins has all that its migration is to achieve still to do.
LEMMA ScriptToDo ==
    ASSUME NEW c, ChainTyped(c), Wired(c), Inherits(c), NEW d, Saved(c, d), NEW m \in Migrations,
           m > 2 => CoreSaved(d), NEW b, b = Mine(m, c, d, "Bridge"),
           NEW router, router = Mine(m, c, d, "FeeHandlerRouter"),
           RouterFor(c, router, b), m = 2 => IsClosed(c, b)
    PROVE  About(m, d, b, router) /\ ToDo(m, c, d, Script(m, c, d), b, router)
<1> DEFINE s == Script(m, c, d)
<1>1. About(m, d, b, router)
  <2>1. m \in Nat
    BY DEF Migrations
  <2>2. CASE m <= 2
    BY <2>1, <2>2, FreshTyped DEF About, Mine
  <2>3. CASE m > 2
    BY <2>1, <2>3, CoreAddresses DEF About, Mine, Core
  <2> QED
    BY <2>1, <2>2, <2>3
<1>2. m > 2 => b = d["Bridge"] /\ router = d["FeeHandlerRouter"]
  BY <1>1 DEF About
<1>3. OnceEach(s)
  <2>1. m > 5 => CoreSaved(d)
    BY DEF Migrations
  <2>2. WellScripted(m, Script(m, c, d))
    BY <2>1, ScriptTyped
  <2> QED
    BY <2>2 DEF WellScripted
<1>4. ASSUME BareToDo(m, c, d, s, b, router)
      PROVE  /\ Grounded(DOMAIN c, s)
             /\ \A i \in DOMAIN s : Proper(m, d, b, router, s[i]) /\ NextNumber(c, s[i])
  <2>1. Grounded(DOMAIN c, s) /\ s \in Seq(Fit(m, c, d, b, router))
    BY <1>4 DEF BareToDo
  <2>2. \A i \in DOMAIN s : s[i] \in Fit(m, c, d, b, router)
    BY <2>1
  <2> QED
    BY <2>1, <2>2 DEF Fit
<1>5. CASE m \in Bare
  <2>1. BareToDo(m, c, d, s, b, router)
    BY <1>2, <1>5, BareScripts
  <2>2. m # 2 /\ m # 5 /\ m # 6 /\ m # 7
    BY <1>5 DEF Bare
  <2> HIDE DEF s
  <2>3. ToDo(m, c, d, s, b, router)
    BY <1>3, <1>4, <2>1, <2>2 DEF ToDo
  <2> QED
    BY <1>1, <2>3 DEF s
<1>6. CASE m = 2
  <2>1. b = Fresh(c, "Bridge") /\ router = Fresh(c, "FeeHandlerRouter")
    BY <1>6 DEF Mine
  <2>2. s = DeployContracts(c, d)
    BY <1>6 DEF Script
  <2>3. ToDo(2, c, d, DeployContracts(c, d), b, router)
    BY <1>6, <2>1, DeployContractsToDo
  <2> QED
    BY <1>1, <1>6, <2>2, <2>3
<1>7. CASE m = 5
  <2>1. s = DeployErc1155(c, d)
    BY <1>7 DEF Script
  <2>2. /\ BareToDo(m, c, d, s, b, router)
        /\ \A token \in Entries(Network.erc1155) : ToServe(c, s, b, "ERC1155Handler", token)
    BY <1>2, <1>7, <2>1, Erc1155ToDo
  <2> HIDE DEF s
  <2>3. ToDo(m, c, d, s, b, router)
    BY <1>3, <1>4, <1>7, <2>2 DEF ToDo
  <2> QED
    BY <1>1, <2>3 DEF s
<1>8. CASE m = 6
  <2>1. s = RegisterRoutes(c, d)
    BY <1>8 DEF Script
  <2>2. /\ BareToDo(m, c, d, s, b, router)
        /\ \A fee \in Fees :
              Owed(c, s, ChangeFee(FeeHandlerFor(d, fee), fee.route, fee.feeAmount))
    BY <1>2, <1>8, <2>1, RoutesToDo
  <2> HIDE DEF s
  <2>3. ToDo(m, c, d, s, b, router)
    BY <1>3, <1>4, <1>8, <2>2 DEF ToDo
  <2> QED
    BY <1>1, <2>3 DEF s
<1>9. CASE m = 7
  <2>1. s = RedeployHandlers(c, d)
    BY <1>9 DEF Script
  <2>2. /\ BareToDo(m, c, d, s, b, router)
        /\ RedeployTokenHandlers => \A token \in Entries(Network.erc20) :
              ToServe(c, s, b, "ERC20Handler", token)
    BY <1>2, <1>9, <2>1, RedeployToDo
  <2> HIDE DEF s
  <2>3. ToDo(m, c, d, s, b, router)
    BY <1>3, <1>4, <1>9, <2>2 DEF ToDo
  <2> QED
    BY <1>1, <2>3 DEF s
<1> QED
  BY <1>5, <1>6, <1>7, <1>8, <1>9 DEF Migrations, Bare

-----------------------------------------------------------------------------
(* A transaction is mined. *)

LEMMA ServingNames ==
    ASSUME NEW b, NEW h, NEW x, NEW receiver, NEW kind, NEW r,
           NEW u \in Serving(b, h, x, receiver, kind, r)
    PROVE  u.tx \in {"adminSetResource", "adminSetBurnable", "grantMinter", "grantSygmaHandler"}
BY DEF Serving, AdminSetResource, AdminSetBurnable, GrantMinter, GrantSygmaHandler

\* What is owed when only the end of the key generation is to come has been done.
LEMMA DoneBefore ==
    ASSUME NEW c, NEW todo, \A i \in DOMAIN todo : todo[i].tx = "endKeygen", NEW u,
           u.tx # "endKeygen", Owed(c, todo, u)
    PROVE  Effect(c, u)
BY DEF Owed, Sends

LEMMA ServedBefore ==
    ASSUME NEW c, NEW todo, \A i \in DOMAIN todo : todo[i].tx = "endKeygen",
           NEW b, NEW kind, NEW token, ToServe(c, todo, b, kind, token)
    PROVE  Served(c, b, kind, token)
<1>1. PICK h \in AddressesOf(kind), x \in OrNone(token.resourceID),
           receiver \in AddressesOf("DefaultMessageReceiver") :
        \A u \in Serving(b, h, x, receiver, kind, token.resourceID) : Owed(c, todo, u)
  BY DEF ToServe
<1>2. ASSUME NEW u \in Serving(b, h, x, receiver, kind, token.resourceID)
      PROVE  Owed(c, <<>>, u)
  <2>1. u.tx # "endKeygen"
    BY ServingNames
  <2> QED
    BY <1>1, <2>1, DoneBefore, ServedNow
<1> QED
  BY <1>1, <1>2 DEF Served, ToServe

\* The next transaction of a script may be mined late.
LEMMA HeadIsLate ==
    ASSUME NEW T, NEW todo \in Seq(T), todo # <<>>, NEW m, NEW c, NEW d, NEW b, NEW router,
           ToDo(m, c, d, todo, b, router)
    PROVE  Late(m, c, d, Head(todo), b, router)
<1> DEFINE t == Head(todo)
<1>1. 1 \in DOMAIN todo /\ todo[1] = t /\ DOMAIN todo = 1 .. Len(todo) /\ Len(todo) \in Nat
  OBVIOUS
<1> HIDE DEF t
<1>2. Mentioned(t) \subseteq DOMAIN c \cup {None}
  <2>1. \A a \in Mentioned(t) : \/ a \in DOMAIN c \cup {None}
                                \/ \E j \in DOMAIN todo : j < 1
    BY <1>1 DEF ToDo, Grounded
  <2>2. \A j \in DOMAIN todo : ~(j < 1)
    BY <1>1
  <2> QED
    BY <2>1, <2>2
<1>3. Proper(m, d, b, router, t) /\ NextNumber(c, t) /\ RouterFor(c, router, b)
  BY <1>1 DEF ToDo
<1>4. m = 2 => IsClosed(c, b)
  BY DEF ToDo
<1>5. ASSUME m = 2, t.tx = "endKeygen"
      PROVE  /\ Effect(c, AdminChangeFeeHandler(b, router))
             /\ \A token \in Entries(Network.erc721) : Served(c, b, "ERC721Handler", token)
             /\ \A token \in Entries(Network.erc20) : Served(c, b, "ERC20Handler", token)
  <2>1. Len(todo) = 1
    BY <1>1, <1>5 DEF ToDo
  <2>2. \A i \in DOMAIN todo : todo[i].tx = "endKeygen"
    BY <1>1, <1>5, <2>1
  <2>3. AdminChangeFeeHandler(b, router).tx # "endKeygen"
    BY DEF AdminChangeFeeHandler
  <2>4. Effect(c, AdminChangeFeeHandler(b, router))
    BY <1>5, <2>2, <2>3, DoneBefore DEF ToDo
  <2>5. \A token \in Entries(Network.erc721) : Served(c, b, "ERC721Handler", token)
    BY <1>5, <2>2, ServedBefore DEF ToDo
  <2>6. \A token \in Entries(Network.erc20) : Served(c, b, "ERC20Handler", token)
    BY <1>5, <2>2, ServedBefore DEF ToDo
  <2> QED
    BY <2>4, <2>5, <2>6
<1> QED
  BY <1>2, <1>3, <1>4, <1>5 DEF Late, t

\* A transaction of migration m that succeeds, on a chain as it is kept.
LateMined(m, c, d, t, b, router) ==
    /\ ChainTyped(c) /\ ChainKept(c) /\ Saved(c, d) /\ m \in Migrations
    /\ t \in Steps(m) /\ t # Throw /\ Accepted(c, t)
    /\ About(m, d, b, router) /\ Late(m, c, d, t, b, router)

LEMMA LateIsMined ==
    ASSUME NEW m, NEW c, NEW d, NEW t, NEW b, NEW router, LateMined(m, c, d, t, b, router)
    PROVE  /\ Mined(c, t)
           /\ t.tx = "adminChangeFeeHandler" => c[t.feeHandler].bridge = t.to
<1>1. t \in Transactions
  BY StepsTyped DEF LateMined
<1>2. Mined(c, t)
  BY <1>1 DEF LateMined, Late, Mined, Proper
<1>3. ASSUME t.tx = "adminChangeFeeHandler"
      PROVE  c[t.feeHandler].bridge = t.to
  <2>1. t.feeHandler = router /\ t.to = b /\ router \in AddressesOf("FeeHandlerRouter")
    BY <1>3 DEF LateMined, Late, Proper, About
  <2>2. router # None
    BY <2>1, NoneIsNoAddress DEF Kinds
  <2>3. router \in DOMAIN c
    BY <1>3, <2>1, <2>2 DEF LateMined, Late, Mentioned
  <2> QED
    BY <2>1, <2>3 DEF LateMined, Late, RouterFor
<1> QED
  BY <1>2, <1>3

LEMMA ChainKeptAfter ==
    ASSUME NEW m, NEW c, NEW d, NEW t, NEW b, NEW router, LateMined(m, c, d, t, b, router)
    PROVE  ChainKept(After(c, t))
<1>1. /\ Mined(c, t) /\ ChainTyped(c) /\ t \in Transactions /\ t # Throw
      /\ t.tx = "adminChangeFeeHandler" => c[t.feeHandler].bridge = t.to
  BY LateIsMined DEF Mined, LateMined
<1>2. Wired(After(c, t))
  BY <1>1, WiredAfter DEF LateMined, ChainKept
<1>3. Numbered(After(c, t))
  BY <1>1, NumberedAfter DEF LateMined, ChainKept, Late
<1>4. DOMAIN c \subseteq DOMAIN After(c, t)
  BY <1>1, TransactionTyped
<1> QED
  BY <1>2, <1>3, <1>4 DEF LateMined, ChainKept, Inherits

\* A resource of an open Bridge is given another handler by migration 7 only.
LEMMA OpenAfter ==
    ASSUME NEW m, NEW c, NEW d, NEW t, NEW b, NEW router, LateMined(m, c, d, t, b, router),
           NEW redeploying, OpenIn(c, d["Bridge"], redeploying),
           m = 7 /\ RedeployTokenHandlers => redeploying
    PROVE  OpenIn(After(c, t), d["Bridge"], redeploying)
<1> DEFINE n == After(c, t)
<1>1. /\ Mined(c, t) /\ ChainTyped(c) /\ Wired(c) /\ Numbered(c)
      /\ t \in Transactions /\ t # Throw /\ NextNumber(c, t)
      /\ Proper(m, d, b, router, t) /\ About(m, d, b, router) /\ m \in Migrations
  BY LateIsMined DEF Mined, LateMined, ChainKept, Late
<1>2. DOMAIN n = IF t.tx = "deploy" THEN DOMAIN c \cup {t.to} ELSE DOMAIN c
  BY <1>1, TransactionTyped
<1>3. \A a \in DOMAIN c : a[1] = "Bridge" => a \in AddressesOf("Bridge")
  BY <1>1 DEF ChainTyped, Addresses, AddressesOf
<1> HIDE DEF n
<1> SUFFICES ASSUME NEW e \in DOMAIN n, e[1] = "Bridge", IsOpen(n, e)
    PROVE  /\ n[e].feeHandler # None
           /\ \A token \in Entries(Network.erc721) : Served(n, e, "ERC721Handler", token)
           /\ e # d["Bridge"] \/ ~redeploying =>
              \A token \in Entries(Network.erc20) : Served(n, e, "ERC20Handler", token)
  BY DEF OpenIn, n
<1>4. e \in DOMAIN c
  <2> SUFFICES ASSUME e \notin DOMAIN c
      PROVE  FALSE
    OBVIOUS
  <2>1. t.tx = "deploy" /\ t.to = e
    BY <1>2
  <2>2. t \in Deployments
    BY <1>1, <2>1, TransactionByName
  <2>3. PICK access : t.contract = NewBridge(access)
    BY <2>1, <2>2, NewContracts
  <2>4. n[e] = t.contract
    BY <2>1, DeployedAfter DEF n
  <2> QED
    BY <2>3, <2>4 DEF NewBridge, IsOpen
<1>5. e \in AddressesOf("Bridge")
  BY <1>3, <1>4
<1>6. /\ n[e].feeHandler =
            IF t.tx = "adminChangeFeeHandler" /\ t.to = e THEN t.feeHandler ELSE c[e].feeHandler
      /\ n[e].mpc = IF t.tx = "endKeygen" /\ t.to = e THEN t.mpc ELSE c[e].mpc
  BY <1>1, <1>4, BridgeAfter DEF n
<1>7. /\ c[e].feeHandler # None
      /\ \A token \in Entries(Network.erc721) : Served(c, e, "ERC721Handler", token)
      /\ e # d["Bridge"] \/ ~redeploying =>
            \A token \in Entries(Network.erc20) : Served(c, e, "ERC20Handler", token)
  <2>1. CASE IsOpen(c, e)
    BY <1>4, <2>1 DEF OpenIn
  <2>2. CASE ~IsOpen(c, e)
    <3>1. t.tx = "endKeygen" /\ t.to = e
      BY <1>6, <2>2 DEF IsOpen
    <3>2. m = 2 /\ b = e
      BY <1>1, <3>1 DEF Proper
    <3>3. /\ Effect(c, AdminChangeFeeHandler(b, router))
          /\ \A token \in Entries(Network.erc721) : Served(c, b, "ERC721Handler", token)
          /\ \A token \in Entries(Network.erc20) : Served(c, b, "ERC20Handler", token)
      BY <3>1, <3>2 DEF LateMined, Late
    <3>4. c[b].feeHandler # None
      BY <3>3 DEF Effect, AdminChangeFeeHandler
    <3> QED
      BY <3>2, <3>3, <3>4
  <2> QED
    BY <2>1, <2>2
<1>8. n[e].feeHandler # None
  <2>1. t.tx = "adminChangeFeeHandler" => t.feeHandler \in AddressesOf("FeeHandlerRouter")
    BY <1>1 DEF Proper, About
  <2>2. None \notin AddressesOf("FeeHandlerRouter")
    BY NoneIsNoAddress DEF Kinds
  <2> QED
    BY <1>6, <1>7, <2>1, <2>2
<1>9. ASSUME t.tx = "adminSetResource", t.to = e, NEW kind \in {"ERC20Handler", "ERC721Handler"},
             NEW token \in Listed(kind), t.resource = token.resourceID
      PROVE  m = 7 /\ RedeployTokenHandlers /\ kind = "ERC20Handler" /\ e = d["Bridge"]
  <2>1. /\ t \in ResourceSettings /\ t.handler[1] \in SetsFor(m) /\ b = e
    BY <1>1, <1>9, TransactionByName DEF Proper
  <2>2. m # 2
    <3>1. m = 2 => c[e].mpc = None
      BY <1>4, <2>1 DEF LateMined, Late, IsClosed
    <3>2. c[e].mpc # None
      BY <1>6, <1>9 DEF IsOpen
    <3> QED
      BY <3>1, <3>2
  <2>3. t.resource \in Handles(kind)
    BY <1>9 DEF Handles
  <2>4. /\ t.handler[1] = "GmpHandler" => t.resource = Network.gmp
        /\ t.handler[1] \in TokenHandlers => t.resource \in Handles(t.handler[1])
    BY <2>1 DEF ResourceSettings
  <2>5. t.handler[1] # "GmpHandler"
    <3>1. t.handler[1] = "GmpHandler" => Network.gmp # None
      BY <2>1, <2>2 DEF SetsFor
    <3>2. kind \in TokenHandlers
      BY DEF TokenHandlers
    <3> QED
      BY <2>3, <2>4, <3>1, <3>2, ResourcesDiffer
  <2>6. t.handler[1] # "ERC1155Handler"
    BY <2>3, <2>4, ResourcesDiffer DEF TokenHandlers
  <2>7. m = 7 /\ RedeployTokenHandlers /\ t.handler[1] = "ERC20Handler"
    BY <2>1, <2>2, <2>5, <2>6 DEF SetsFor
  <2>8. kind = "ERC20Handler"
    BY <2>3, <2>4, <2>7, ResourcesDiffer DEF TokenHandlers
  <2>9. b = d["Bridge"]
    BY <1>1, <2>7 DEF About
  <2> QED
    BY <2>1, <2>7, <2>8, <2>9
<1>10. ASSUME NEW token \in Entries(Network.erc721)
       PROVE  Served(n, e, "ERC721Handler", token)
  <2>1. token \in Listed("ERC721Handler") /\ "ERC721Handler" \in TokenHandlers
    BY DEF Listed, TokenHandlers
  <2>2. ~(t.tx = "adminSetResource" /\ t.to = e /\ t.resource = token.resourceID)
    BY <1>9, <2>1
  <2>3. Served(c, e, "ERC721Handler", token)
    BY <1>7
  <2> QED
    BY <1>1, <1>5, <2>1, <2>2, <2>3, ServedKept DEF n
<1>11. ASSUME e # d["Bridge"] \/ ~redeploying, NEW token \in Entries(Network.erc20)
       PROVE  Served(n, e, "ERC20Handler", token)
  <2>1. token \in Listed("ERC20Handler") /\ "ERC20Handler" \in TokenHandlers
    BY DEF Listed, TokenHandlers
  <2>2. ~(t.tx = "adminSetResource" /\ t.to = e /\ t.resource = token.resourceID)
    BY <1>9, <1>11, <2>1
  <2>3. Served(c, e, "ERC20Handler", token)
    BY <1>7, <1>11
  <2> QED
    BY <1>1, <1>5, <2>1, <2>2, <2>3, ServedKept DEF n
<1> QED
  BY <1>8, <1>10, <1>11

LEMMA AchievedAfter ==
    ASSUME NEW n \in Nat, NEW c, NEW d, NEW t, NEW b, NEW router, LateMined(n + 1, c, d, t, b, router),
           n >= 2 => CoreSaved(d), NEW registering, AchievedBy(n, c, d, registering),
           n + 1 = 6 => registering
    PROVE  AchievedBy(n, After(c, t), d, registering)
<1> DEFINE m == n + 1
           k == After(c, t)
<1>1. /\ Mined(c, t) /\ ChainTyped(c) /\ Wired(c) /\ Numbered(c) /\ Saved(c, d)
      /\ t \in Transactions /\ t # Throw /\ NextNumber(c, t)
      /\ Proper(m, d, b, router, t) /\ About(m, d, b, router) /\ m \in Migrations
  BY LateIsMined DEF Mined, LateMined, ChainKept, Late
<1>2. DOMAIN k = IF t.tx = "deploy" THEN DOMAIN c \cup {t.to} ELSE DOMAIN c
  BY <1>1, TransactionTyped
<1> HIDE DEF k
<1>3. n < 2 => d["Bridge"] = None /\ d["FeeHandlerRouter"] = None
  BY DEF AchievedBy
<1>4. ASSUME n >= 2
      PROVE  BridgeOf(k, d["FeeHandlerRouter"]) = d["Bridge"]
  <2> DEFINE a == d["FeeHandlerRouter"]
  <2>1. a \in DOMAIN c /\ a \in AddressesOf("FeeHandlerRouter")
    BY <1>1, <1>4, CoreAddresses DEF Core
  <2>2. a[1] = "FeeHandlerRouter"
    BY <2>1 DEF AddressesOf
  <2>3. c[a].bridge = d["Bridge"]
    BY <1>4 DEF AchievedBy, BridgeOf, CoreSaved, Core
  <2> HIDE DEF a
  <2>4. k[a].bridge = c[a].bridge
    BY <1>1, <2>1, <2>2, RouterAfter DEF k
  <2> QED
    BY <2>3, <2>4 DEF BridgeOf, a
<1>5. ASSUME n >= 5, NEW token \in Entries(Network.erc1155)
      PROVE  Served(k, d["Bridge"], "ERC1155Handler", token)
  <2>1. token \in Listed("ERC1155Handler") /\ "ERC1155Handler" \in TokenHandlers
        /\ token.resourceID \in Handles("ERC1155Handler")
    BY DEF Listed, Handles, TokenHandlers
  <2>2. d["Bridge"] \in AddressesOf("Bridge")
    BY <1>1, <1>5, CoreAddresses DEF Core
  <2>3. ASSUME t.tx = "adminSetResource"
        PROVE  t.resource # token.resourceID
    <3>1. t \in ResourceSettings /\ t.handler[1] \in SetsFor(m)
      BY <1>1, <2>3, TransactionByName DEF Proper
    <3>2. m # 2 /\ m # 3 /\ m # 5
      BY <1>5
    <3>3. t.handler[1] = "ERC20Handler"
      BY <3>1, <3>2 DEF SetsFor
    <3>4. t.resource \in Handles("ERC20Handler")
      BY <3>1, <3>3 DEF ResourceSettings, TokenHandlers
    <3> QED
      BY <2>1, <3>4, ResourcesDiffer
  <2>4. Served(c, d["Bridge"], "ERC1155Handler", token)
    BY <1>5 DEF AchievedBy
  <2> QED
    BY <1>1, <2>1, <2>2, <2>3, <2>4, ServedKept DEF k
<1>6. ASSUME n >= 6, NEW fee \in Fees
      PROVE  Effect(k, ChangeFee(FeeHandlerFor(d, fee), fee.route, fee.feeAmount))
  <2> DEFINE h == FeeHandlerFor(d, fee)
             u == ChangeFee(h, fee.route, fee.feeAmount)
  <2>1. h \in AnyFeeHandler /\ h # None
    <3>1. \A kind \in FeeHandlers : d[kind] \in AddressesOf(kind) /\ kind \in Kinds
      BY <1>1, <1>6, CoreAddresses DEF Core, FeeHandlers
    <3>2. \A kind \in FeeHandlers : d[kind] \in OrNone(kind) /\ d[kind] # None
      BY <3>1, NoneIsNoAddress DEF OrNone
    <3> QED
      BY <3>2 DEF FeeHandlerFor, AnyFeeHandler, FeeHandlers
  <2>2. fee.route \in Routes /\ fee.feeAmount \in FeeAmounts
    BY NetworkAssumption DEF Fees, FeeAmounts
  <2>3. u \in FeeChanges /\ u.tx = "changeFee" /\ u.to # None
    BY <2>1, <2>2 DEF ChangeFee, FeeChanges
  <2>4. Effect(c, u)
    BY <1>6 DEF AchievedBy
  <2> HIDE DEF u
  <2>5. Lasting(u)
    <3>1. u \in Transactions
      BY <2>3, LoopStepsAreTransactions DEF LoopSteps, Settings
    <3>2. u # Throw
      BY <2>3 DEF Throw
    <3> QED
      BY <2>3, <3>1, <3>2 DEF Lasting
  <2>6. ~Undoes(t, u)
    BY <2>3 DEF Undoes
  <2> QED
    BY <1>1, <2>4, <2>5, <2>6, EffectKept DEF k, u
<1>7. ASSUME NEW a \in DOMAIN k, a[1] = "FeeHandlerRouter", NEW route \in Routes,
             k[a].handlerOf[route] # None
      PROVE  /\ registering /\ a = d["FeeHandlerRouter"]
             /\ \E fee \in Fees : route = fee.route
                 /\ k[a].handlerOf[route] = FeeHandlerFor(d, fee)
  <2>1. CASE a \notin DOMAIN c
    <3>1. t.tx = "deploy" /\ t.to = a
      BY <1>2, <2>1
    <3>2. t \in Deployments
      BY <1>1, <3>1, TransactionByName
    <3>3. PICK e : t.contract = NewRouter(e)
      BY <1>7, <3>1, <3>2, NewContracts
    <3>4. k[a] = t.contract
      BY <2>1, <3>1, DeployedAfter DEF k
    <3> QED
      BY <1>7, <3>3, <3>4 DEF NewRouter
  <2>2. CASE a \in DOMAIN c
    <3>1. k[a].handlerOf[route] =
            IF t.tx = "adminSetResourceHandler" /\ t.to = a /\ t.route = route
            THEN t.feeHandler ELSE c[a].handlerOf[route]
      BY <1>1, <1>7, <2>2, RouterAfter DEF k
    <3>2. CASE t.tx = "adminSetResourceHandler" /\ t.to = a /\ t.route = route
      <4>1. /\ m = 6 /\ t.to = router
            /\ \E fee \in Fees : t.route = fee.route /\ t.feeHandler = FeeHandlerFor(d, fee)
        BY <1>1, <3>2 DEF Proper
      <4>2. router = d["FeeHandlerRouter"] /\ registering
        BY <1>1, <4>1 DEF About
      <4> QED
        BY <3>1, <3>2, <4>1, <4>2
    <3>3. CASE ~(t.tx = "adminSetResourceHandler" /\ t.to = a /\ t.route = route)
      BY <1>7, <2>2, <3>1, <3>3 DEF AchievedBy
    <3> QED
      BY <3>2, <3>3
  <2> QED
    BY <2>1, <2>2
<1>8. AchievedBy(n, k, d, registering)
  BY <1>3, <1>4, <1>5, <1>6, <1>7 DEF AchievedBy
<1> QED
  BY <1>8 DEF k

LEMMA GroundedTail ==
    ASSUME NEW T, NEW todo \in Seq(T), todo # <<>>, NEW D, Grounded(D, todo), NEW E, D \subseteq E,
           Head(todo).tx = "deploy" => Head(todo).to \in E
    PROVE  Grounded(E, Tail(todo))
<1> DEFINE rest == Tail(todo)
<1>1. /\ \A i \in DOMAIN rest : i + 1 \in DOMAIN todo /\ i \in Nat /\ rest[i] = todo[i + 1]
      /\ \A i \in DOMAIN todo : \/ i = 1 /\ todo[i] = Head(todo)
                                \/ i - 1 \in DOMAIN rest /\ rest[i - 1] = todo[i]
  BY TailOf
<1>2. DOMAIN todo \subseteq Nat
  OBVIOUS
<1> HIDE DEF rest
<1>3. ASSUME NEW i \in DOMAIN rest, NEW a \in Mentioned(rest[i])
      PROVE  \/ a \in E \cup {None}
             \/ \E j \in DOMAIN rest : j < i /\ rest[j].tx = "deploy" /\ rest[j].to = a
  <2>1. a \in Mentioned(todo[i + 1]) /\ i + 1 \in DOMAIN todo /\ i \in Nat
    BY <1>1
  <2>2. CASE a \in D \cup {None}
    BY <2>2
  <2>3. CASE \E j \in DOMAIN todo : j < i + 1 /\ todo[j].tx = "deploy" /\ todo[j].to = a
    <3>1. PICK j \in DOMAIN todo : j < i + 1 /\ todo[j].tx = "deploy" /\ todo[j].to = a
      BY <2>3
    <3>2. CASE todo[j] = Head(todo)
      BY <3>1, <3>2
    <3>3. CASE j - 1 \in DOMAIN rest /\ rest[j - 1] = todo[j]
      <4>1. j - 1 < i
        BY <1>2, <2>1, <3>1
      <4> QED
        BY <3>1, <3>3, <4>1
    <3> QED
      BY <1>1, <3>2, <3>3
  <2> QED
    BY <2>1, <2>2, <2>3 DEF Grounded
<1> QED
  BY <1>3 DEF Grounded, rest

\* The rest of the script achieves the rest.
LEMMA ToDoAfter ==
    ASSUME NEW m, NEW c, NEW d, NEW T, NEW todo \in Seq(T), todo # <<>>, NEW b, NEW router,
           ToDo(m, c, d, todo, b, router), LateMined(m, c, d, Head(todo), b, router),
           m > 2 => CoreSaved(d)
    PROVE  ToDo(m, After(c, Head(todo)), d, Tail(todo), b, router)
<1> DEFINE t == Head(todo)
           k == After(c, t)
           rest == Tail(todo)
<1>1. /\ Mined(c, t) /\ ChainTyped(c) /\ Wired(c) /\ Numbered(c) /\ Saved(c, d)
      /\ t \in Transactions /\ t # Throw /\ NextNumber(c, t)
      /\ Proper(m, d, b, router, t) /\ About(m, d, b, router) /\ m \in Migrations
  BY LateIsMined DEF Mined, LateMined, ChainKept, Late
<1>2. DOMAIN k = IF t.tx = "deploy" THEN DOMAIN c \cup {t.to} ELSE DOMAIN c
  BY <1>1, TransactionTyped
<1>3. /\ \A i \in DOMAIN rest : i + 1 \in DOMAIN todo /\ i \in Nat /\ rest[i] = todo[i + 1]
      /\ 1 \in DOMAIN todo /\ todo[1] = t
      /\ OnceEach(rest)
      /\ \A i \in DOMAIN rest : IsNew(rest[i]) /\ IsNew(t) => rest[i].to[1] # t.to[1]
  BY TailOf, TailOnceEach DEF ToDo
<1>4. Len(todo) \in Nat /\ Len(rest) = Len(todo) - 1 /\ DOMAIN todo = 1 .. Len(todo)
      /\ DOMAIN rest = 1 .. Len(rest) /\ (Len(todo) = 1 => rest = <<>>)
  <2>1. rest \in Seq(T) /\ Len(rest) = Len(todo) - 1
    BY HeadTailProperties
  <2>2. Len(todo) \in Nat /\ DOMAIN todo = 1 .. Len(todo)
    OBVIOUS
  <2> HIDE DEF rest
  <2>3. DOMAIN rest = 1 .. Len(rest) /\ (Len(rest) = 0 => rest = <<>>)
    BY <2>1
  <2> QED
    BY <2>1, <2>2, <2>3
<1>5. Grounded(DOMAIN k, rest)
  <2> HIDE DEF t, k
  <2>1. DOMAIN c \subseteq DOMAIN k /\ (t.tx = "deploy" => t.to \in DOMAIN k)
    BY <1>2
  <2>2. Grounded(DOMAIN c, todo)
    BY DEF ToDo
  <2> QED
    BY <2>1, <2>2, GroundedTail DEF t
<1>6. \A u : Lasting(u) /\ Owed(c, todo, u) => Owed(k, rest, u)
  BY <1>1, OwedKept
<1>7. ASSUME NEW kind \in TokenHandlers, NEW token \in Listed(kind), ToServe(c, todo, b, kind, token)
      PROVE  ToServe(k, rest, b, kind, token)
  <2>1. b \in AddressesOf("Bridge")
    BY <1>1 DEF About
  <2> QED
    BY <1>1, <1>7, <2>1, ToServeKept
<1> HIDE DEF t, k, rest
<1>8. \A i \in DOMAIN rest : Proper(m, d, b, router, rest[i]) /\ NextNumber(k, rest[i])
  <2> SUFFICES ASSUME NEW i \in DOMAIN rest
      PROVE  Proper(m, d, b, router, rest[i]) /\ NextNumber(k, rest[i])
    OBVIOUS
  <2>1. Proper(m, d, b, router, rest[i]) /\ NextNumber(c, rest[i])
    BY <1>3 DEF ToDo
  <2>2. ASSUME rest[i].tx = "deploy", rest[i].to[1] \in {"Bridge", "FeeHandlerRouter"}
        PROVE  NumberOf(k, rest[i].to[1]) = NumberOf(c, rest[i].to[1])
    <3>1. IsNew(rest[i])
      BY <2>2 DEF IsNew, Kinds
    <3>2. ~(t.tx = "deploy" /\ t.to[1] = rest[i].to[1])
      BY <1>3, <2>2, <3>1 DEF IsNew
    <3> QED
      BY <1>1, <2>2, <3>2, NumberedAfter DEF k
  <2> QED
    BY <2>1, <2>2 DEF NextNumber
<1>9. RouterFor(k, router, b)
  <2> SUFFICES ASSUME router \in DOMAIN k
      PROVE  k[router].bridge = b
    BY DEF RouterFor
  <2>1. router[1] = "FeeHandlerRouter"
    BY <1>1 DEF About, AddressesOf
  <2>2. CASE router \in DOMAIN c
    <3>1. k[router].bridge = c[router].bridge
      BY <1>1, <2>1, <2>2, RouterAfter DEF k
    <3>2. c[router].bridge = b
      BY <2>2 DEF ToDo, RouterFor
    <3> QED
      BY <3>1, <3>2
  <2>3. CASE router \notin DOMAIN c
    <3>1. t.tx = "deploy" /\ t.to = router
      BY <1>2, <2>3
    <3>2. t.contract = NewRouter(b)
      BY <1>1, <2>1, <3>1 DEF Proper
    <3>3. k[router] = t.contract
      BY <2>3, <3>1, DeployedAfter DEF k
    <3> QED
      BY <3>2, <3>3 DEF NewRouter
  <2> QED
    BY <2>2, <2>3
<1>10. ASSUME m = 2, rest # <<>>
       PROVE  IsClosed(k, b)
  <2> SUFFICES ASSUME b \in DOMAIN k
      PROVE  k[b].mpc = None
    BY DEF IsClosed
  <2>1. b[1] = "Bridge"
    BY <1>1 DEF About, AddressesOf
  <2>2. CASE b \in DOMAIN c
    <3>1. c[b].mpc = None
      BY <1>10, <2>2 DEF ToDo, IsClosed
    <3>2. t.tx # "endKeygen"
      <4>1. t.tx = "endKeygen" => Len(todo) = 1
        BY <1>3, <1>10 DEF ToDo
      <4> QED
        BY <1>4, <1>10, <4>1
    <3>3. k[b].mpc = c[b].mpc
      BY <1>1, <2>1, <2>2, <3>2, BridgeAfter DEF k
    <3> QED
      BY <3>1, <3>3
  <2>3. CASE b \notin DOMAIN c
    <3>1. t.tx = "deploy" /\ t.to = b
      BY <1>2, <2>3
    <3>2. PICK access : t.contract = NewBridge(access)
      BY <1>1, <2>1, <3>1, TransactionByName, NewContracts
    <3>3. k[b] = t.contract
      BY <2>3, <3>1, DeployedAfter DEF k
    <3> QED
      BY <3>2, <3>3 DEF NewBridge
  <2> QED
    BY <2>2, <2>3
<1>11. ASSUME m = 2, NEW i \in DOMAIN rest, rest[i].tx = "endKeygen"
       PROVE  i = Len(rest)
  <2>1. i + 1 \in DOMAIN todo /\ todo[i + 1].tx = "endKeygen" /\ i \in Nat
    BY <1>3, <1>11
  <2>2. i + 1 = Len(todo)
    BY <1>11, <2>1 DEF ToDo
  <2> QED
    BY <1>4, <2>1, <2>2
<1>12. ASSUME m = 2
       PROVE  Owed(k, rest, AdminChangeFeeHandler(b, router))
  <2> DEFINE u == AdminChangeFeeHandler(b, router)
  <2>1. Lasting(u)
    <3>1. b \in AddressesOf("Bridge") /\ router \in AddressesOf("FeeHandlerRouter") /\ b # None
      BY <1>1, NoneIsNoAddress DEF About, Kinds
    <3>2. u \in FeeHandlerChanges /\ u.tx = "adminChangeFeeHandler" /\ u.to # None
      BY <3>1 DEF AdminChangeFeeHandler, FeeHandlerChanges
    <3> HIDE DEF u
    <3>3. u \in Transactions
      BY <3>2, LoopStepsAreTransactions DEF LoopSteps, Settings
    <3>4. u # Throw
      BY <3>2 DEF Throw
    <3> QED
      BY <3>2, <3>3, <3>4 DEF Lasting
  <2>2. Owed(c, todo, u)
    BY <1>12 DEF ToDo
  <2> HIDE DEF u
  <2>3. Owed(k, rest, u)
    BY <1>6, <2>1, <2>2
  <2> QED
    BY <2>3 DEF u
<1>13. ASSUME m = 6, NEW fee \in Fees
       PROVE  Owed(k, rest, ChangeFee(FeeHandlerFor(d, fee), fee.route, fee.feeAmount))
  <2> DEFINE h == FeeHandlerFor(d, fee)
             u == ChangeFee(h, fee.route, fee.feeAmount)
  <2>1. Lasting(u)
    <3>1. h \in AnyFeeHandler /\ h # None
      <4>1. \A kind \in FeeHandlers : d[kind] \in AddressesOf(kind) /\ kind \in Kinds
        BY <1>1, <1>13, CoreAddresses DEF Core, FeeHandlers
      <4>2. \A kind \in FeeHandlers : d[kind] \in OrNone(kind) /\ d[kind] # None
        BY <4>1, NoneIsNoAddress DEF OrNone
      <4> QED
        BY <4>2 DEF FeeHandlerFor, AnyFeeHandler, FeeHandlers
    <3>2. fee.route \in Routes /\ fee.feeAmount \in FeeAmounts
      BY NetworkAssumption DEF Fees, FeeAmounts
    <3>3. u \in FeeChanges /\ u.tx = "changeFee" /\ u.to # None
      BY <3>1, <3>2 DEF ChangeFee, FeeChanges
    <3> HIDE DEF u
    <3>4. u \in Transactions
      BY <3>3, LoopStepsAreTransactions DEF LoopSteps, Settings
    <3>5. u # Throw
      BY <3>3 DEF Throw
    <3> QED
      BY <3>3, <3>4, <3>5 DEF Lasting
  <2>2. Owed(c, todo, u)
    BY <1>13 DEF ToDo
  <2> HIDE DEF u
  <2>3. Owed(k, rest, u)
    BY <1>6, <2>1, <2>2
  <2> QED
    BY <2>3 DEF u
<1>14. /\ m = 2 => \A token \in Entries(Network.erc721) : ToServe(k, rest, b, "ERC721Handler", token)
       /\ m = 2 \/ (m = 7 /\ RedeployTokenHandlers) =>
            \A token \in Entries(Network.erc20) : ToServe(k, rest, b, "ERC20Handler", token)
       /\ m = 5 => \A token \in Entries(Network.erc1155) :
            ToServe(k, rest, b, "ERC1155Handler", token)
  <2>1. /\ Listed("ERC20Handler") = Entries(Network.erc20)
        /\ Listed("ERC721Handler") = Entries(Network.erc721)
        /\ Listed("ERC1155Handler") = Entries(Network.erc1155)
        /\ {"ERC20Handler", "ERC721Handler", "ERC1155Handler"} \subseteq TokenHandlers
    BY DEF Listed, TokenHandlers
  <2> QED
    BY <1>7, <2>1 DEF ToDo
<1>15. ToDo(m, k, d, rest, b, router)
  BY <1>3, <1>5, <1>8, <1>9, <1>10, <1>11, <1>12, <1>13, <1>14 DEF ToDo
<1> QED
  BY <1>15 DEF k, rest, t

-----------------------------------------------------------------------------
(* What is kept all through a deployment. *)

LEMMA OpenWeaker ==
    ASSUME NEW c, NEW saved, NEW r, NEW s, OpenIn(c, saved, r), r => s
    PROVE  OpenIn(c, saved, s)
BY DEF OpenIn

LEMMA AchievedWeaker ==
    ASSUME NEW n, NEW c, NEW d, NEW r, NEW s, AchievedBy(n, c, d, r), r => s
    PROVE  AchievedBy(n, c, d, s)
BY DEF AchievedBy

LEMMA DIInit == MInit => DIInv
<1> SUFFICES ASSUME MInit
    PROVE  DIInv
  OBVIOUS
<1>1. \A a \in DOMAIN chain : a[1] \notin Kinds
  BY NetworkAssumption DEF MInit
<1>2. \A a \in DOMAIN chain : a[1] \notin TokenHandlers /\ a[1] # "Bridge" /\ a[1] # "FeeHandlerRouter"
  BY <1>1 DEF TokenHandlers, Kinds
<1>3. ChainKept(chain)
  BY <1>2 DEF ChainKept, Wired, Numbered, Inherits, MInit
<1>4. \A r : OpenIn(chain, artifacts["Bridge"], r)
  BY <1>2 DEF OpenIn
<1>5. \A r : AchievedBy(completed, chain, artifacts, r)
  <2>1. completed = 0 /\ artifacts["Bridge"] = None /\ artifacts["FeeHandlerRouter"] = None
    BY DEF MInit, Kinds
  <2> QED
    BY <1>2, <2>1 DEF AchievedBy
<1>6. UnderWay
  BY DEF UnderWay, MInit, Running
<1> QED
  BY <1>3, <1>4, <1>5, <1>6 DEF DIInv

LEMMA DIBegin ==
    ASSUME MTyped, DIInv, Begin
    PROVE  DIInv'
<1> DEFINE m == completed + 1
           b == Mine(m, chain, artifacts, "Bridge")
           router == Mine(m, chain, artifacts, "FeeHandlerRouter")
<1>1. /\ UNCHANGED <<chain, completed, artifacts, pending, stops>> /\ pending = {} /\ ~Running
      /\ m \in Migrations /\ process'.todo = Script(m, chain, artifacts)
      /\ process'.deployed = artifacts
  BY DEF Begin
<1>2. /\ ChainTyped(chain) /\ Saved(chain, artifacts) /\ completed \in Nat
  BY DEF MTyped
<1>3. /\ ChainKept(chain)
      /\ OpenIn(chain, artifacts["Bridge"], Redeploying)
      /\ AchievedBy(completed, chain, artifacts, Registering)
  BY DEF DIInv
<1>4. OpenIn(chain', artifacts'["Bridge"], Redeploying')
  <2>1. Redeploying => Redeploying'
    BY <1>1 DEF Redeploying
  <2> QED
    BY <1>1, <1>3, <2>1, OpenWeaker
<1>5. AchievedBy(completed', chain', artifacts', Registering')
  <2>1. Registering => Registering'
    BY <1>1, <1>2 DEF Registering, Unfinished
  <2> QED
    BY <1>1, <1>3, <2>1, AchievedWeaker
<1>13. AddressesAreLost => UnderWay'
  BY <1>1 DEF UnderWay, AddressesAreLost
<1> SUFFICES ASSUME ~AddressesAreLost
    PROVE  DIInv'
  BY <1>1, <1>3, <1>4, <1>5, <1>13 DEF DIInv
<1>14. m > 2 => CoreSaved(artifacts) /\ artifacts["Bridge"] # None
  <2>1. m > 2 => CoreSaved(artifacts)
    BY <1>2 DEF MTyped
  <2> QED
    BY <2>1 DEF CoreSaved, Core
<1>6. m <= 2 => b \notin DOMAIN chain /\ router \notin DOMAIN chain
  <2>1. ASSUME NEW kind \in {"Bridge", "FeeHandlerRouter"}
        PROVE  Fresh(chain, kind) \notin DOMAIN chain
    <3>1. /\ NumberOf(chain, kind) \in Nat
          /\ Fresh(chain, kind)[1] = kind /\ Fresh(chain, kind)[2] = NumberOf(chain, kind) + 1
      BY <1>2, FreshTyped DEF Fresh, Address
    <3> QED
      BY <1>3, <3>1 DEF ChainKept, Numbered
  <2> QED
    BY <2>1 DEF Mine
<1>7. RouterFor(chain, router, b)
  <2>1. CASE m <= 2
    BY <1>6, <2>1 DEF RouterFor
  <2>2. CASE m > 2
    <3>1. router = artifacts["FeeHandlerRouter"] /\ b = artifacts["Bridge"] /\ completed >= 2
      BY <1>2, <2>2 DEF Mine
    <3> QED
      BY <1>3, <1>14, <2>2, <3>1 DEF AchievedBy, BridgeOf, RouterFor
  <2> QED
    BY <1>2, <2>1, <2>2
<1>8. m = 2 => IsClosed(chain, b)
  BY <1>6 DEF IsClosed
<1>9. About(m, artifacts, b, router)
      /\ ToDo(m, chain, artifacts, Script(m, chain, artifacts), b, router)
  <2> HIDE DEF m, b, router
  <2> QED
    BY <1>1, <1>2, <1>3, <1>7, <1>8, <1>14, ScriptToDo DEF b, router, ChainKept
<1>10. Concerns(m, artifacts, artifacts, b, router)
  <2>1. m = 2 => artifacts["Bridge"] = None /\ artifacts["FeeHandlerRouter"] = None
    BY <1>2, <1>3 DEF AchievedBy
  <2> QED
    BY <2>1 DEF Concerns
<1>11. RunsOn(m, chain, artifacts, process'.todo, process'.deployed)
  <2> HIDE DEF m, b, router
  <2> QED
    BY <1>1, <1>9, <1>10 DEF RunsOn
<1>12. UnderWay'
  BY <1>1, <1>11 DEF UnderWay
<1> QED
  BY <1>1, <1>3, <1>4, <1>5, <1>12 DEF DIInv

LEMMA DIStop ==
    ASSUME MTyped, SavedInTurn, DIInv, Fail \/ Interrupt \/ TimeOut
    PROVE  DIInv'
<1>1. /\ ~Running' /\ UNCHANGED <<chain, completed, artifacts>>
      /\ \A t \in pending' : TimeOut /\ t = process.todo[1] /\ process.todo # <<>>
           /\ process.todo \in Seq(Transactions) /\ Running
  BY StopTyped
<1>2. /\ Running /\ process.migration = completed + 1 /\ completed + 1 \in Migrations
      /\ stops \in Seq(Migrations) /\ completed \in Nat
  BY DEF MTyped, Fail, Interrupt, TimeOut
<1>3. stops' = Append(stops, completed + 1)
  BY <1>2 DEF Fail, Interrupt, TimeOut, Stop
<1>4. completed + 1 \in ToSet(stops')
  <2>1. Len(stops) + 1 \in DOMAIN stops' /\ stops'[Len(stops) + 1] = completed + 1
    BY <1>2, <1>3
  <2> QED
    BY <2>1 DEF ToSet
<1>5. /\ ChainKept(chain)
      /\ OpenIn(chain, artifacts["Bridge"], Redeploying)
      /\ AchievedBy(completed, chain, artifacts, Registering)
      /\ ~AddressesAreLost =>
            RunsOn(completed + 1, chain, artifacts, process.todo, process.deployed)
  BY <1>2 DEF DIInv, UnderWay
<1>6. OpenIn(chain', artifacts'["Bridge"], Redeploying')
  <2>1. Redeploying => Redeploying'
    BY <1>1, <1>4 DEF Redeploying
  <2> QED
    BY <1>1, <1>5, <2>1, OpenWeaker
<1>7. AchievedBy(completed', chain', artifacts', Registering')
  <2>1. Registering => Registering'
    BY <1>1, <1>2, <1>4 DEF Registering, Unfinished
  <2> QED
    BY <1>1, <1>5, <2>1, AchievedWeaker
<1>8. ASSUME NEW t \in pending'
      PROVE  MayBeMined(completed + 1, chain, artifacts, t)
  <2>1. t = Head(process.todo) /\ process.todo # <<>> /\ process.todo \in Seq(Transactions)
    <3>1. t = process.todo[1] /\ process.todo # <<>> /\ process.todo \in Seq(Transactions)
      BY <1>1
    <3> QED
      BY <3>1
  <2>2. PICK b, router : /\ About(completed + 1, artifacts, b, router)
                         /\ ToDo(completed + 1, chain, artifacts, process.todo, b, router)
    <3>1. ~AddressesAreLost
      BY <1>1, LostSendsNothing
    <3> QED
      BY <1>5, <3>1 DEF RunsOn
  <2>3. Late(completed + 1, chain, artifacts, t, b, router)
    BY <2>1, <2>2, HeadIsLate
  <2> QED
    BY <2>2, <2>3 DEF MayBeMined
<1>9. UnderWay'
  BY <1>1, <1>4, <1>8 DEF UnderWay
<1> QED
  BY <1>1, <1>5, <1>6, <1>7, <1>9 DEF DIInv

LEMMA DISettle ==
    ASSUME MTyped, CoreToCome, SavedInTurn, DIInv, Settle
    PROVE  DIInv'
<1>1. /\ ~Running /\ ~Running' /\ pending' = {}
      /\ UNCHANGED <<completed, artifacts, process, stops>>
  BY SettleTyped
<1>2. PICK t \in Steps(completed + 1) :
        /\ completed + 1 \in Migrations /\ CanSend(t) /\ pending = {t}
        /\ chain' \in {chain, After(chain, t)}
  BY SettleTyped
<1>3. /\ ChainTyped(chain) /\ Saved(chain, artifacts) /\ completed \in Nat
      /\ completed >= 2 => CoreSaved(artifacts)
  BY SettleTyped DEF MTyped
<1>4. /\ ChainKept(chain)
      /\ OpenIn(chain, artifacts["Bridge"], Redeploying)
      /\ AchievedBy(completed, chain, artifacts, Registering)
      /\ completed + 1 \in ToSet(stops) /\ MayBeMined(completed + 1, chain, artifacts, t)
  BY <1>2 DEF DIInv, UnderWay
<1>5. Redeploying' = Redeploying /\ Registering' = Registering
  BY <1>1 DEF Redeploying, Registering, Unfinished, Running
<1>6. UnderWay'
  BY <1>1 DEF UnderWay
<1>7. CASE chain' = chain
  <2>1. ChainKept(chain') /\ OpenIn(chain', artifacts'["Bridge"], Redeploying')
        /\ AchievedBy(completed', chain', artifacts', Registering')
    BY <1>1, <1>4, <1>5, <1>7
  <2> QED
    BY <1>6, <2>1 DEF DIInv
<1>8. CASE chain' = After(chain, t)
  <2>1. PICK b, router : LateMined(completed + 1, chain, artifacts, t, b, router)
    BY <1>2, <1>3, <1>4 DEF MayBeMined, LateMined, CanSend
  <2>2. ChainKept(After(chain, t))
    BY <2>1, ChainKeptAfter
  <2>3. OpenIn(After(chain, t), artifacts["Bridge"], Redeploying)
    <3>1. completed + 1 = 7 /\ RedeployTokenHandlers => Redeploying
      BY <1>3, <1>4 DEF Redeploying
    <3> QED
      BY <1>4, <2>1, <3>1, OpenAfter
  <2>4. AchievedBy(completed, After(chain, t), artifacts, Registering)
    <3>1. completed + 1 = 6 => Registering
      BY <1>4 DEF Registering, Unfinished
    <3> QED
      BY <1>3, <1>4, <2>1, <3>1, AchievedAfter
  <2>5. ChainKept(chain') /\ OpenIn(chain', artifacts'["Bridge"], Redeploying')
        /\ AchievedBy(completed', chain', artifacts', Registering')
    BY <1>1, <1>5, <1>8, <2>2, <2>3, <2>4
  <2> QED
    BY <1>6, <2>5 DEF DIInv
<1> QED
  BY <1>2, <1>7, <1>8

LEMMA DIConfirm ==
    ASSUME MTyped, CoreToCome, SavedInTurn, DIInv, Confirm
    PROVE  DIInv'
<1> DEFINE t == Head(process.todo)
           m == completed + 1
<1>1. /\ Running' /\ UNCHANGED <<completed, artifacts, pending, stops>> /\ Running
      /\ process.todo \in Seq(Transactions) /\ process.todo # <<>>
      /\ t \in Steps(m) /\ m \in Migrations /\ CanSend(t)
      /\ chain' = After(chain, t) /\ process'.todo = Tail(process.todo)
      /\ \A kind \in Kinds : process'.deployed[kind] =
            IF IsNew(t) /\ t.to[1] = kind THEN t.to ELSE process.deployed[kind]
  BY ConfirmTyped DEF Next1, Confirm
<1>2. /\ ChainTyped(chain) /\ Saved(chain, artifacts) /\ completed \in Nat
      /\ completed >= 2 => CoreSaved(artifacts)
      /\ pending = {} /\ ~AddressesAreLost
  BY <1>1, ConfirmTyped, LostSendsNothing DEF MTyped
<1>3. /\ ChainKept(chain)
      /\ OpenIn(chain, artifacts["Bridge"], Redeploying)
      /\ AchievedBy(completed, chain, artifacts, Registering)
      /\ RunsOn(m, chain, artifacts, process.todo, process.deployed)
  BY <1>1, <1>2 DEF DIInv, UnderWay
<1>4. Redeploying' = Redeploying /\ Registering' = Registering
  BY <1>1 DEF Redeploying, Registering, Unfinished
<1>5. PICK b, router : /\ About(m, artifacts, b, router)
                       /\ ToDo(m, chain, artifacts, process.todo, b, router)
                       /\ Concerns(m, artifacts, process.deployed, b, router)
  BY <1>3 DEF RunsOn
<1>6. LateMined(m, chain, artifacts, t, b, router)
  <2>1. Late(m, chain, artifacts, t, b, router)
    BY <1>1, <1>5, HeadIsLate
  <2> QED
    BY <1>1, <1>2, <1>3, <1>5, <2>1 DEF LateMined, CanSend
<1>7. ChainKept(After(chain, t))
  BY <1>6, ChainKeptAfter
<1>8. OpenIn(After(chain, t), artifacts["Bridge"], Redeploying)
  <2>1. m = 7 /\ RedeployTokenHandlers => Redeploying
    BY <1>1, <1>2 DEF Redeploying
  <2> QED
    BY <1>3, <1>6, <2>1, OpenAfter
<1>9. AchievedBy(completed, After(chain, t), artifacts, Registering)
  <2>1. m = 6 => Registering
    BY <1>1 DEF Registering, Unfinished
  <2> QED
    BY <1>2, <1>3, <1>6, <2>1, AchievedAfter
<1>10. ToDo(m, After(chain, t), artifacts, Tail(process.todo), b, router)
  <2>1. m > 2 => CoreSaved(artifacts)
    BY <1>2
  <2> HIDE DEF m
  <2> QED
    BY <1>1, <1>5, <1>6, <2>1, ToDoAfter
<1>11. Concerns(m, artifacts, process'.deployed, b, router)
  <2>1. Own2 \subseteq Kinds
    BY DEF Own2, Kinds
  <2>2. Proper(m, artifacts, b, router, t)
    BY <1>6 DEF LateMined, Late
  <2>3. ASSUME m = 2
        PROVE  /\ process'.deployed["Bridge"] \in {None, b}
               /\ process'.deployed["FeeHandlerRouter"] \in {None, router}
    <3>1. /\ process.deployed["Bridge"] \in {None, b}
          /\ process.deployed["FeeHandlerRouter"] \in {None, router}
      BY <1>5, <2>3 DEF Concerns
    <3>2. /\ IsNew(t) /\ t.to[1] = "Bridge" => t.to = b
          /\ IsNew(t) /\ t.to[1] = "FeeHandlerRouter" => t.to = router
      BY <2>2 DEF IsNew, Proper
    <3>3. "Bridge" \in Kinds /\ "FeeHandlerRouter" \in Kinds
      BY DEF Kinds
    <3> QED
      BY <1>1, <3>1, <3>2, <3>3
  <2>4. ASSUME m # 2, NEW kind \in Own2
        PROVE  process'.deployed[kind] = artifacts[kind]
    <3>1. process.deployed[kind] = artifacts[kind]
      BY <1>5, <2>4 DEF Concerns
    <3>2. ~(IsNew(t) /\ t.to[1] = kind)
      <4>1. IsNew(t) => t.to[1] \in Own(m)
        BY <1>1, NewIsOwn
      <4>2. kind \notin Own(m)
        BY <2>4 DEF Own, Own2
      <4> QED
        BY <4>1, <4>2
    <3> QED
      BY <1>1, <2>1, <3>1, <3>2
  <2> QED
    BY <2>3, <2>4 DEF Concerns
<1>12. RunsOn(m, After(chain, t), artifacts, Tail(process.todo), process'.deployed)
  BY <1>5, <1>10, <1>11 DEF RunsOn
<1> HIDE DEF t
<1>13. UnderWay'
  BY <1>1, <1>2, <1>12 DEF UnderWay
<1>14. /\ ChainKept(chain') /\ OpenIn(chain', artifacts'["Bridge"], Redeploying')
       /\ AchievedBy(completed', chain', artifacts', Registering')
  BY <1>1, <1>4, <1>7, <1>8, <1>9
<1> QED
  BY <1>13, <1>14 DEF DIInv

\* What a migration whose script has returned has achieved, whether the addresses
\* are saved or, but for the second, not.
LEMMA Returned ==
    ASSUME MTyped, DIInv, Running, process.todo = <<>>, ~AddressesAreLost, NEW e,
           Saved(chain, e), completed + 1 >= 2 => CoreSaved(e),
           e = process.deployed \/ (completed + 1 # 2 /\ e = artifacts)
    PROVE  /\ \A r : OpenIn(chain, e["Bridge"], r)
           /\ \A r : (completed + 1 >= 6 => r) => AchievedBy(completed + 1, chain, e, r)
<1> DEFINE m == completed + 1
           d == artifacts
<1>1. process.todo = <<>> /\ m \in Migrations /\ completed \in Nat
  BY DEF MTyped
<1>2. /\ ChainTyped(chain) /\ Saved(chain, e) /\ (m >= 2 => CoreSaved(e))
  BY DEF MTyped
<1>3. /\ ChainKept(chain)
      /\ OpenIn(chain, d["Bridge"], Redeploying)
      /\ AchievedBy(completed, chain, d, Registering)
      /\ RunsOn(m, chain, d, process.todo, process.deployed)
  BY <1>1 DEF DIInv, UnderWay
<1>4. PICK b, router : /\ About(m, d, b, router)
                       /\ ToDo(m, chain, d, <<>>, b, router)
                       /\ Concerns(m, d, process.deployed, b, router)
  BY <1>1, <1>3 DEF RunsOn
<1>5. m # 2 => \A k \in Own2 : e[k] = d[k]
  BY <1>4 DEF Concerns
<1>6. m >= 2 => e["Bridge"] = b /\ e["FeeHandlerRouter"] = router
  <2>1. CASE m = 2
    BY <1>2, <1>4, <2>1 DEF Concerns, CoreSaved, Core
  <2>2. CASE m > 2
    BY <1>4, <1>5, <2>2 DEF About, Own2
  <2> QED
    BY <1>1, <2>1, <2>2
<1>7. ASSUME NEW r
      PROVE  OpenIn(chain, e["Bridge"], r)
  <2> SUFFICES ASSUME NEW a \in DOMAIN chain, a[1] = "Bridge", IsOpen(chain, a)
      PROVE  /\ chain[a].feeHandler # None
             /\ \A token \in Entries(Network.erc721) : Served(chain, a, "ERC721Handler", token)
             /\ \A token \in Entries(Network.erc20) : Served(chain, a, "ERC20Handler", token)
    BY DEF OpenIn
  <2>1. /\ chain[a].feeHandler # None
        /\ \A token \in Entries(Network.erc721) : Served(chain, a, "ERC721Handler", token)
        /\ a # d["Bridge"] \/ ~Redeploying =>
            \A token \in Entries(Network.erc20) : Served(chain, a, "ERC20Handler", token)
    BY <1>3 DEF OpenIn
  <2>2. CASE a = d["Bridge"] /\ Redeploying
    <3>1. m = 7 /\ RedeployTokenHandlers /\ b = a
      BY <1>1, <1>4, <2>2 DEF Redeploying, About
    <3>2. \A token \in Entries(Network.erc20) : ToServe(chain, <<>>, b, "ERC20Handler", token)
      BY <1>4, <3>1 DEF ToDo
    <3> QED
      BY <2>1, <3>1, <3>2 DEF Served
  <2> QED
    BY <2>1, <2>2
<1>8. ASSUME NEW r, m >= 6 => r
      PROVE  AchievedBy(m, chain, e, r)
  <2>1. m < 2 => e["Bridge"] = None /\ e["FeeHandlerRouter"] = None
    BY <1>1, <1>3, <1>5 DEF AchievedBy, Own2
  <2>2. m >= 2 => BridgeOf(chain, e["FeeHandlerRouter"]) = e["Bridge"]
    <3> SUFFICES ASSUME m >= 2
        PROVE  BridgeOf(chain, e["FeeHandlerRouter"]) = e["Bridge"]
      OBVIOUS
    <3>1. router \in DOMAIN chain
      BY <1>2, <1>6, CoreAddresses DEF Core
    <3> QED
      BY <1>4, <1>6, <3>1 DEF ToDo, RouterFor, BridgeOf
  <2>3. ASSUME m >= 5, NEW token \in Entries(Network.erc1155)
        PROVE  Served(chain, e["Bridge"], "ERC1155Handler", token)
    <3>1. e["Bridge"] = b /\ e["Bridge"] = d["Bridge"]
      <4>1. m # 2 /\ m >= 2
        BY <1>1, <2>3
      <4>2. "Bridge" \in Own2
        BY DEF Own2
      <4> HIDE DEF m, d
      <4> QED
        BY <1>5, <1>6, <4>1, <4>2
    <3>2. CASE m = 5
      <4>1. ToServe(chain, <<>>, b, "ERC1155Handler", token)
        BY <1>4, <2>3, <3>2 DEF ToDo
      <4> QED
        BY <3>1, <4>1 DEF Served
    <3>3. CASE m > 5
      BY <1>1, <1>3, <2>3, <3>1, <3>3 DEF AchievedBy
    <3> QED
      BY <1>1, <2>3, <3>2, <3>3
  <2>4. ASSUME m >= 6, NEW fee \in Fees
        PROVE  Effect(chain, ChangeFee(FeeHandlerFor(e, fee), fee.route, fee.feeAmount))
    <3>1. FeeHandlerFor(e, fee) = FeeHandlerFor(d, fee)
      BY <1>5, <2>4 DEF Own2, FeeHandlerFor
    <3>2. CASE m = 6
      BY <1>4, <2>4, <3>1, <3>2, ServedNow DEF ToDo
    <3>3. CASE m > 6
      BY <1>1, <1>3, <2>4, <3>1, <3>3 DEF AchievedBy
    <3> QED
      BY <1>1, <2>4, <3>2, <3>3
  <2>5. ASSUME NEW a \in DOMAIN chain, a[1] = "FeeHandlerRouter", NEW route \in Routes,
               chain[a].handlerOf[route] # None
        PROVE  /\ r /\ a = e["FeeHandlerRouter"]
               /\ \E fee \in Fees : route = fee.route
                   /\ chain[a].handlerOf[route] = FeeHandlerFor(e, fee)
    <3>1. /\ Registering /\ a = d["FeeHandlerRouter"]
          /\ \E fee \in Fees : route = fee.route
               /\ chain[a].handlerOf[route] = FeeHandlerFor(d, fee)
      BY <1>3, <2>5 DEF AchievedBy
    <3>2. m >= 6
      BY <1>1, <3>1 DEF Registering, Unfinished
    <3>3. e["FeeHandlerRouter"] = d["FeeHandlerRouter"]
          /\ \A fee : FeeHandlerFor(e, fee) = FeeHandlerFor(d, fee)
      BY <1>5, <3>2 DEF Own2, FeeHandlerFor
    <3>4. r
      BY <1>8, <3>2
    <3> QED
      BY <3>1, <3>3, <3>4
  <2> HIDE DEF m, d
  <2> QED
    BY <2>1, <2>2, <2>3, <2>4, <2>5 DEF AchievedBy
<1> QED
  BY <1>7, <1>8

\* A migration that need not know the Bridge's address, or does not ask for it.
LEMMA ReturnedWithoutBridge ==
    ASSUME MTyped, DIInv, artifacts["Bridge"] = None, completed < 4, NEW r
    PROVE  /\ OpenIn(chain, artifacts["Bridge"], r)
           /\ AchievedBy(completed, chain, artifacts, r)
           /\ AchievedBy(completed + 1, chain, artifacts, r)
<1>1. /\ OpenIn(chain, artifacts["Bridge"], Redeploying)
      /\ AchievedBy(completed, chain, artifacts, Registering)
      /\ completed \in Nat
  BY DEF DIInv, MTyped
<1>2. ~Redeploying /\ ~Registering
  BY <1>1 DEF Redeploying, Registering, Unfinished
<1>3. OpenIn(chain, artifacts["Bridge"], r)
  BY <1>1, <1>2 DEF OpenIn
<1>4. \A router \in DOMAIN chain : router[1] = "FeeHandlerRouter" =>
        \A route \in Routes : chain[router].handlerOf[route] = None
  BY <1>1, <1>2 DEF AchievedBy
<1>5. completed < 2 => artifacts["FeeHandlerRouter"] = None
  BY <1>1 DEF AchievedBy
<1>6. ASSUME NEW n \in {completed, completed + 1}
      PROVE  AchievedBy(n, chain, artifacts, r)
  BY <1>1, <1>4, <1>5 DEF AchievedBy
<1> QED
  BY <1>3, <1>6

LEMMA DIComplete ==
    ASSUME MTyped, CoreToCome, SavedInTurn, DIInv, Complete
    PROVE  DIInv'
<1>1. /\ Running /\ process.todo = <<>> /\ completed \in Nat
      /\ completed' = completed + 1 /\ artifacts' = process.deployed /\ process' = Idle
      /\ UNCHANGED <<chain, pending, stops>> /\ pending = {}
      /\ Saved(chain, process.deployed)
  BY DEF MTyped, Complete
<1>2. completed + 1 >= 6 => Registering'
  BY <1>1 DEF Registering
<1>3. /\ OpenIn(chain, process.deployed["Bridge"], Redeploying')
      /\ AchievedBy(completed + 1, chain, process.deployed, Registering')
  <2>1. CASE AddressesAreLost
    <3>1. /\ process.deployed = artifacts /\ artifacts["Bridge"] = None /\ completed < 4
      BY <1>1, <2>1 DEF SavedInTurn, AddressesAreLost
    <3> QED
      BY <3>1, ReturnedWithoutBridge
  <2>2. CASE ~AddressesAreLost
    <3>1. completed + 1 >= 2 => CoreSaved(process.deployed)
      BY <2>2, CompleteTyped
    <3> QED
      BY <1>1, <1>2, <2>2, <3>1, Returned
  <2> QED
    BY <2>1, <2>2
<1>4. UnderWay'
  BY <1>1 DEF UnderWay, Running
<1>5. ChainKept(chain') /\ OpenIn(chain', artifacts'["Bridge"], Redeploying')
      /\ AchievedBy(completed', chain', artifacts', Registering')
  BY <1>1, <1>3 DEF DIInv
<1> QED
  BY <1>4, <1>5 DEF DIInv

LEMMA DIUnsaved ==
    ASSUME MTyped, CoreToCome, SavedInTurn, DIInv, StopUnsaved
    PROVE  DIInv'
<1>1. /\ Running /\ ~Running' /\ process.todo = <<>> /\ completed \in Nat /\ pending' = {}
      /\ UNCHANGED <<chain, artifacts>>
      /\ completed' = IF completed = 0 THEN 0 ELSE completed + 1
  BY UnsavedTyped
<1>2. /\ OpenIn(chain, artifacts["Bridge"], Redeploying')
      /\ AchievedBy(completed', chain, artifacts, Registering')
  <2>1. CASE completed < 2 \/ AddressesAreLost
    <3>1. artifacts["Bridge"] = None /\ completed < 4
      BY <1>1, <2>1 DEF SavedInTurn, AddressesAreLost
    <3>2. completed' \in {completed, completed + 1}
      BY <1>1
    <3> QED
      BY <3>1, <3>2, ReturnedWithoutBridge
  <2>2. CASE completed >= 2 /\ ~AddressesAreLost
    <3>1. Saved(chain, artifacts) /\ CoreSaved(artifacts) /\ completed + 1 # 2
      BY <1>1, <2>2 DEF MTyped
    <3>2. completed' = completed + 1 /\ (completed + 1 >= 6 => Registering')
      BY <1>1, <2>2 DEF Registering
    <3> QED
      BY <1>1, <2>2, <3>1, <3>2, Returned
  <2> QED
    BY <1>1, <2>1, <2>2
<1>3. UnderWay'
  BY <1>1 DEF UnderWay
<1> QED
  BY <1>1, <1>2, <1>3 DEF DIInv

LEMMA DIInvariance == MSpec => []DIInv
<1>1. MInit => DIInv
  BY DIInit
<1>2. MIInv /\ DIInv /\ [MNext]_mvars => DIInv'
  <2> SUFFICES ASSUME MTyped, CoreToCome, SavedInTurn, DIInv, [MNext]_mvars
      PROVE  DIInv'
    BY DEF MIInv
  <2>1. CASE Begin
    BY <2>1, DIBegin
  <2>2. CASE Confirm
    BY <2>2, DIConfirm
  <2>3. CASE Complete
    BY <2>3, DIComplete
  <2>7. CASE StopUnsaved
    BY <2>7, DIUnsaved
  <2>4. CASE Fail \/ Interrupt \/ TimeOut
    BY <2>4, DIStop
  <2>5. CASE Settle
    BY <2>5, DISettle
  <2>6. CASE UNCHANGED mvars
    <3>1. /\ chain' = chain /\ completed' = completed /\ artifacts' = artifacts
          /\ process' = process /\ pending' = pending /\ stops' = stops
      BY <2>6 DEF mvars
    <3>2. /\ Redeploying' = Redeploying /\ Registering' = Registering /\ Running' = Running
          /\ AddressesAreLost' = AddressesAreLost
      BY <3>1 DEF Redeploying, Registering, Unfinished, Running, AddressesAreLost
    <3>3. UnderWay'
      BY <3>1, <3>2 DEF DIInv, UnderWay
    <3>4. ChainKept(chain') /\ OpenIn(chain', artifacts'["Bridge"], Redeploying')
          /\ AchievedBy(completed', chain', artifacts', Registering')
      BY <3>1, <3>2 DEF DIInv
    <3> QED
      BY <3>3, <3>4 DEF DIInv
  <2> QED
    BY <2>1, <2>2, <2>3, <2>4, <2>5, <2>6, <2>7 DEF MNext
<1> QED
  BY <1>1, <1>2, MInvariance, PTL DEF MSpec

-----------------------------------------------------------------------------
(* What a Bridge that serves a token does for its users. *)

LEMMA ListedTokens ==
    /\ Entries(Network.erc20) = Listed("ERC20Handler")
    /\ Entries(Network.erc721) = Listed("ERC721Handler")
    /\ Entries(Network.erc1155) = Listed("ERC1155Handler")
    /\ {"ERC20Handler", "ERC721Handler", "ERC1155Handler"} = TokenHandlers
BY DEF Listed, TokenHandlers

LEMMA ServedMeans ==
    ASSUME NEW c, Wired(c), NEW kind \in TokenHandlers, NEW token \in Listed(kind),
           NEW b \in DOMAIN c, b[1] = "Bridge", Served(c, b, kind, token)
    PROVE  LET r == token.resourceID
               h == c[b].handlerOf[r]
           IN /\ h # None /\ h \in DOMAIN c /\ c[h].bridge = b
              /\ BurnsDeposits(c, b, r) <=> r \in Burns(kind)
              /\ r \in Burns(kind) => h \in c[c[h].tokenOf[r]].minters
              /\ kind = "ERC20Handler" => \E receiver \in DOMAIN c :
                    receiver[1] = "DefaultMessageReceiver" /\ h \in c[receiver].handlers
<1> DEFINE r == token.resourceID
<1>1. PICK h \in AddressesOf(kind), x \in OrNone(r),
           receiver \in AddressesOf("DefaultMessageReceiver") :
              \A u \in Serving(b, h, x, receiver, kind, r) : Owed(c, <<>>, u)
  BY DEF Served, ToServe
<1>2. \A u \in Serving(b, h, x, receiver, kind, r) : Effect(c, u)
  BY <1>1, ServedNow
<1>3. r \in Resources
  BY TokenListTyped
<1>4. h # None /\ h[1] = kind /\ receiver # None /\ receiver[1] = "DefaultMessageReceiver"
  BY NoneIsNoAddress DEF AddressesOf, TokenHandlers, Kinds
<1>5. /\ x # None /\ h \in DOMAIN c
      /\ c[b].handlerOf[r] = h /\ c[h].tokenOf[r] = x
  <2>1. Effect(c, AdminSetResource(b, h, r, x))
    BY <1>2 DEF Serving
  <2> QED
    BY <2>1 DEF Effect, AdminSetResource
<1>6. x[1] = r
  BY <1>5, NoneIsNoAddress DEF OrNone, AddressesOf
<1>7. c[h].bridge = b
  <2>1. c[b].handlerOf[r] # None
    BY <1>4, <1>5
  <2> QED
    BY <1>3, <1>5, <2>1 DEF Wired
<1>8. ASSUME r \in Burns(kind)
      PROVE  /\ x \in DOMAIN c[h].burnable /\ c[h].burnable[x]
             /\ h \in c[x].minters
  <2>1. Effect(c, AdminSetBurnable(b, h, x)) /\ Effect(c, GrantMinter(x, h))
    BY <1>2, <1>5, <1>8 DEF Serving
  <2>2. x \in DOMAIN c[h].burnable /\ c[h].burnable[x]
    BY <2>1 DEF Effect, AdminSetBurnable
  <2>3. h \in c[x].minters
    BY <1>5, <2>1 DEF Effect, GrantMinter
  <2> QED
    BY <2>2, <2>3
<1>9. ASSUME x \in DOMAIN c[h].burnable, c[h].burnable[x]
      PROVE  r \in Burns(kind)
  BY <1>4, <1>5, <1>6, <1>9 DEF Wired
<1>10. ASSUME kind = "ERC20Handler"
       PROVE  receiver \in DOMAIN c /\ h \in c[receiver].handlers
  <2>1. Effect(c, GrantSygmaHandler(receiver, h))
    BY <1>2, <1>10 DEF Serving
  <2> QED
    BY <2>1 DEF Effect, GrantSygmaHandler
<1>11. BurnsDeposits(c, b, r) <=> x \in DOMAIN c[h].burnable /\ c[h].burnable[x]
  BY <1>5 DEF BurnsDeposits
<1> HIDE DEF r
<1>12. /\ h # None /\ h \in DOMAIN c /\ c[h].bridge = b
       /\ BurnsDeposits(c, b, r) <=> r \in Burns(kind)
       /\ r \in Burns(kind) => h \in c[c[h].tokenOf[r]].minters
       /\ kind = "ERC20Handler" => \E rec \in DOMAIN c :
             rec[1] = "DefaultMessageReceiver" /\ h \in c[rec].handlers
  BY <1>4, <1>5, <1>7, <1>8, <1>9, <1>10, <1>11
<1> QED
  BY <1>5, <1>12 DEF r

LEMMA ServedIsConfigured ==
    ASSUME ChainKept(chain), NEW kind \in TokenHandlers, NEW token \in Listed(kind),
           NEW b \in At("Bridge"), Served(chain, b, kind, token),
           NEW burnable \in BOOLEAN, burnable <=> (kind = "ERC20Handler" => token.strategy = "mb")
    PROVE  /\ Configured(b, token, burnable)
           /\ kind = "ERC20Handler" => HandlesMessages(b, token)
<1>1. b \in DOMAIN chain /\ b[1] = "Bridge" /\ Wired(chain)
  BY DEF At, ChainKept
<1>2. token.resourceID \in Burns(kind) <=> burnable
  BY BurnsExactly
<1> QED
  BY <1>1, <1>2, ServedMeans DEF Configured, HandlesMessages, At

\* The router's list, and the resource's handler, are those of the saved Bridge.
LEMMA OpenRouteMeans ==
    ASSUME MTyped, DIInv, NEW b \in At("Bridge"), NEW route \in OpenRoutes(chain, b)
    PROVE  LET router == chain[b].feeHandler
           IN /\ route \in Routes /\ route[2] \in Resources
              /\ b \in DOMAIN chain /\ b[1] = "Bridge" /\ IsOpen(chain, b)
              /\ router # None
              /\ Registering
              /\ b = artifacts["Bridge"]
              /\ \E fee \in Fees : route = fee.route
                    /\ chain[router].handlerOf[route] = FeeHandlerFor(artifacts, fee)
<1> DEFINE router == chain[b].feeHandler
<1>1. /\ route \in Routes /\ IsOpen(chain, b)
      /\ router # None => chain[router].handlerOf[route] # None
      /\ b \in DOMAIN chain /\ b[1] = "Bridge"
  BY DEF OpenRoutes, At
<1>2. route[2] \in Resources
  BY <1>1, NetworkAssumption
<1>3. router # None
  BY <1>1 DEF DIInv, OpenIn
<1>4. router \in DOMAIN chain /\ chain[router].bridge = b
  BY <1>1, <1>3 DEF DIInv, ChainKept, Wired
<1>5. router[1] = "FeeHandlerRouter"
  <2>1. ChainTyped(chain)
    BY DEF MTyped
  <2>2. chain[b] \in BridgeStorage
    BY <1>1, <2>1 DEF ChainTyped, HasType
  <2>3. router \in OrNone("FeeHandlerRouter")
    BY <2>2 DEF BridgeStorage
  <2> QED
    BY <1>3, <2>3, NoneIsNoAddress DEF OrNone, AddressesOf
<1>6. /\ Registering /\ router = artifacts["FeeHandlerRouter"]
      /\ \E fee \in Fees : route = fee.route
            /\ chain[router].handlerOf[route] = FeeHandlerFor(artifacts, fee)
  BY <1>1, <1>3, <1>4, <1>5 DEF DIInv, AchievedBy
<1>7. completed >= 2 /\ artifacts["Bridge"] # None
  <2>1. completed >= 5 /\ completed \in Nat
    BY <1>6 DEF Registering, Unfinished, MTyped
  <2>2. CoreSaved(artifacts)
    BY <2>1 DEF MTyped, AddressesAreLost
  <2> QED
    BY <2>1, <2>2 DEF CoreSaved, Core
<1>8. b = artifacts["Bridge"]
  BY <1>4, <1>6, <1>7 DEF DIInv, AchievedBy, BridgeOf
<1> QED
  BY <1>1, <1>2, <1>3, <1>6, <1>8

\* In a run that has not stopped, or in a rerun, handlers are redeployed in the
\* seventh migration only.
LEMMA RedeployingIsSeventh ==
    ASSUME MTyped, Unfinished # 7
    PROVE  ~Redeploying
BY DEF MTyped, Redeploying, Unfinished

\* However often a deployment stops and whatever is mined late, a Bridge that is
\* open has its fee router, and its handlers may mint, burn and, for fungible
\* tokens, have messages handled as its configuration asks; a redeployment of the
\* handlers is the only time the saved Bridge lacks this, and for fungible tokens.
THEOREM OpenBridgesServe == MSpec => []OpenBridgesAreConfigured
<1>1. MIInv /\ DIInv => OpenBridgesAreConfigured
  <2> SUFFICES ASSUME MTyped, DIInv, NEW b \in At("Bridge"), IsOpen(chain, b)
      PROVE  /\ chain[b].feeHandler # None
             /\ b # artifacts["Bridge"] \/ Unfinished # 7 =>
                 /\ \A token \in Entries(Network.erc20) :
                     /\ Configured(b, token, token.strategy = "mb")
                     /\ HandlesMessages(b, token)
                 /\ \A token \in Entries(Network.erc721) : Configured(b, token, TRUE)
    BY DEF MIInv, OpenBridgesAreConfigured
  <2>1. ChainKept(chain) /\ OpenIn(chain, artifacts["Bridge"], Redeploying)
    BY DEF DIInv
  <2>2. /\ chain[b].feeHandler # None
        /\ \A token \in Entries(Network.erc721) : Served(chain, b, "ERC721Handler", token)
        /\ b # artifacts["Bridge"] \/ ~Redeploying =>
            \A token \in Entries(Network.erc20) : Served(chain, b, "ERC20Handler", token)
    BY <2>1 DEF OpenIn, At
  <2>3. ASSUME b # artifacts["Bridge"] \/ Unfinished # 7, NEW token \in Entries(Network.erc20)
        PROVE  Configured(b, token, token.strategy = "mb") /\ HandlesMessages(b, token)
    <3>1. Served(chain, b, "ERC20Handler", token)
      BY <2>2, <2>3, RedeployingIsSeventh
    <3> QED
      BY <2>1, <3>1, ServedIsConfigured, ListedTokens
  <2>4. ASSUME NEW token \in Entries(Network.erc721)
        PROVE  Configured(b, token, TRUE)
    BY <2>1, <2>2, ServedIsConfigured, ListedTokens
  <2> QED
    BY <2>2, <2>3, <2>4
<1> QED
  BY <1>1, MInvariance, DIInvariance, PTL

LEMMA OpenRoutePays ==
    ASSUME MTyped, DIInv, Unfinished # 6, NEW b \in At("Bridge"),
           NEW route \in OpenRoutes(chain, b)
    PROVE  \E fee \in Entries(Network.fee) :
               fee.route = route /\ FeeDue(chain, b, route) = fee.feeAmount
<1> DEFINE router == chain[b].feeHandler
<1>1. router # None /\ Registering
  BY OpenRouteMeans
<1>2. PICK fee \in Fees : /\ route = fee.route
                          /\ chain[router].handlerOf[route] = FeeHandlerFor(artifacts, fee)
  BY OpenRouteMeans
<1>3. completed >= 6
  BY <1>1 DEF Registering
<1>4. Effect(chain, ChangeFee(FeeHandlerFor(artifacts, fee), fee.route, fee.feeAmount))
  BY <1>3 DEF DIInv, AchievedBy
<1>5. chain[FeeHandlerFor(artifacts, fee)].fee[route] \in Amounts(route)
  BY <1>2, <1>4 DEF Effect, ChangeFee
<1>6. FeeDue(chain, b, route) = chain[FeeHandlerFor(artifacts, fee)].fee[route]
  BY <1>1, <1>2 DEF FeeDue
<1> QED
  BY <1>5, <1>6 DEF Amounts

LEMMA OpenRouteBurns ==
    ASSUME MTyped, DIInv, Unfinished # 7, NEW b \in At("Bridge"),
           NEW route \in OpenRoutes(chain, b), route[2] # Network.gmp
    PROVE  BurnsDeposits(chain, b, route[2]) <=>
               \A token \in Entries(Network.erc20) :
                   token.resourceID = route[2] => token.strategy = "mb"
<1> DEFINE r == route[2]
           h == chain[b].handlerOf[r]
<1>1. /\ r \in Resources /\ b \in DOMAIN chain /\ b[1] = "Bridge" /\ IsOpen(chain, b)
      /\ Registering /\ b = artifacts["Bridge"]
  BY OpenRouteMeans
<1>2. h # None
  BY DEF OpenRoutes
<1>3. ChainKept(chain) /\ Wired(chain)
  BY DEF DIInv, ChainKept
<1>4. h[1] \in TokenHandlers /\ r \in Handles(h[1])
  <2>1. ChainTyped(chain)
    BY DEF MTyped
  <2>2. chain[b] \in BridgeStorage
    BY <1>1, <2>1 DEF ChainTyped, HasType
  <2>3. h \in HandlerAddresses
    BY <1>1, <1>2, <2>2 DEF BridgeStorage
  <2>4. h[1] \in TokenHandlers \cup {"GmpHandler"}
    BY <2>3, KindsDiffer
  <2>5. /\ h[1] = "GmpHandler" => r = Network.gmp
        /\ h[1] \in TokenHandlers => r \in Handles(h[1])
    BY <1>1, <1>2, <1>3 DEF Wired
  <2> QED
    BY <2>4, <2>5
<1>5. PICK token \in Listed(h[1]) : token.resourceID = r
  BY <1>4 DEF Handles
<1>6. completed >= 5
  BY <1>1 DEF Registering, Unfinished, MTyped
<1>7. Served(chain, b, h[1], token)
  <2>1. /\ \A t \in Entries(Network.erc721) : Served(chain, b, "ERC721Handler", t)
        /\ \A t \in Entries(Network.erc20) : Served(chain, b, "ERC20Handler", t)
    BY <1>1, RedeployingIsSeventh DEF DIInv, OpenIn
  <2>2. \A t \in Entries(Network.erc1155) : Served(chain, b, "ERC1155Handler", t)
    BY <1>1, <1>6 DEF DIInv, AchievedBy
  <2> HIDE DEF h
  <2> QED
    BY <1>4, <1>5, <2>1, <2>2, ListedTokens
<1>8. BurnsDeposits(chain, b, r) <=> (h[1] = "ERC20Handler" => token.strategy = "mb")
  <2>1. ASSUME NEW kind \in TokenHandlers, kind = h[1]
        PROVE  BurnsDeposits(chain, b, token.resourceID) <=> token.resourceID \in Burns(kind)
    <3> HIDE DEF r, h
    <3> QED
      BY <1>1, <1>3, <1>5, <1>7, <2>1, ServedMeans
  <2>2. token.resourceID \in Burns(h[1]) <=> (h[1] = "ERC20Handler" => token.strategy = "mb")
    BY <1>4, BurnsExactly
  <2> HIDE DEF r, h
  <2> QED
    BY <1>4, <1>5, <2>1, <2>2
<1>9. CASE h[1] = "ERC20Handler"
  <2>1. token \in Entries(Network.erc20)
    BY <1>5, <1>9, ListedTokens
  <2>2. \A other \in Entries(Network.erc20) : other.resourceID = r => other = token
    BY <1>4, <1>5, <1>9, ListedTokens, OneToken
  <2> HIDE DEF r, h
  <2>3. BurnsDeposits(chain, b, r) <=> \A other \in Entries(Network.erc20) :
            other.resourceID = r => other.strategy = "mb"
    BY <1>5, <1>8, <1>9, <2>1, <2>2
  <2> QED
    BY <2>3 DEF r
<1>10. CASE h[1] # "ERC20Handler"
  <2>1. r \notin Handles("ERC20Handler")
    BY <1>4, <1>10, ResourcesDiffer DEF TokenHandlers
  <2>2. \A other \in Entries(Network.erc20) : other.resourceID # r
    BY <2>1, ListedTokens DEF Handles
  <2> QED
    BY <1>8, <1>10, <2>2
<1> QED
  BY <1>9, <1>10

\* However a deployment goes, a deposit that succeeds is made on the Bridge that
\* was saved; it pays the configured fee, except while routes are registered, and
\* burns or locks the token as configured, except while handlers are redeployed.
THEOREM DepositsGoAsConfigured == MSpec => []DepositsAsConfigured
<1>1. MIInv /\ DIInv => DepositsAsConfigured
  BY OpenRouteMeans, OpenRoutePays, OpenRouteBurns DEF MIInv, DepositsAsConfigured
<1> QED
  BY <1>1, MInvariance, DIInvariance, PTL
=============================================================================
