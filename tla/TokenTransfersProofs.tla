------------------------ MODULE TokenTransfersProofs ------------------------
(***************************************************************************)
(* Proofs about TokenTransfers, for any number of domains, users and       *)
(* handlers, and any decimals.                                             *)
(***************************************************************************)
EXTENDS TokenTransfers, RecursionTheorems

-----------------------------------------------------------------------------
(* What the conversions keep and lose. *)

\* Worth satisfies its recursion: the powers of Base are positive, and the power
\* of a sum is a product.
LEMMA Worths ==
    /\ Worth \in [0 .. MaxDecimals -> Nat \ {0}]
    /\ \A i, j \in Nat : i + j <= MaxDecimals => Worth[i + j] = Worth[i] * Worth[j]
<1>1. IsPower(Worth, Base, MaxDecimals)
  BY DecimalsAssumption, PowerExists DEF Worth, IsPower
<1> QED
  BY <1>1, DecimalsAssumption, PowerType, PowerProduct

\* The unit of a domain divides that of the proposals, or the other way round.
LEMMA Units ==
    ASSUME NEW d \in Domains
    PROVE  /\ Unit(d) \in Nat \ {0}
           /\ ProposalUnit \in Nat \ {0}
           /\ Decimals[d] >= DefaultDecimals =>
                  /\ Worth[Decimals[d] - DefaultDecimals] \in Nat \ {0}
                  /\ ProposalUnit = Unit(d) * Worth[Decimals[d] - DefaultDecimals]
           /\ ~ (Decimals[d] >= DefaultDecimals) =>
                  /\ Worth[DefaultDecimals - Decimals[d]] \in Nat \ {0}
                  /\ Unit(d) = ProposalUnit * Worth[DefaultDecimals - Decimals[d]]
<1> DEFINE o == Decimals[d]
           w == DefaultDecimals
           m == MaxDecimals
<1>1. o \in 0 .. m /\ w \in 0 .. m /\ m \in Nat
  BY DecimalsAssumption
<1> HIDE DEF o, w, m
<1>2. m - o \in 0 .. m /\ m - w \in 0 .. m
  BY <1>1
<1>3. Worth[m - o] \in Nat \ {0} /\ Worth[m - w] \in Nat \ {0}
  BY <1>2, Worths DEF m
<1>4. ASSUME o >= w
      PROVE  Worth[o - w] \in Nat \ {0} /\ Worth[m - w] = Worth[m - o] * Worth[o - w]
  <2>1. m - o \in Nat /\ o - w \in Nat /\ (m - o) + (o - w) = m - w /\ m - w <= m
        /\ o - w \in 0 .. m
    BY <1>1, <1>4
  <2> QED
    BY <2>1, Worths DEF m
<1>5. ASSUME ~ (o >= w)
      PROVE  Worth[w - o] \in Nat \ {0} /\ Worth[m - o] = Worth[m - w] * Worth[w - o]
  <2>1. m - w \in Nat /\ w - o \in Nat /\ (m - w) + (w - o) = m - o /\ m - o <= m
        /\ w - o \in 0 .. m
    BY <1>1, <1>5
  <2> QED
    BY <2>1, Worths DEF m
<1> QED
  BY <1>3, <1>4, <1>5 DEF Unit, ProposalUnit, o, w, m

\* A deposit is announced with no more than its worth, and loses less than what
\* the finer unit is finer by.
LEMMA InternalValue ==
    ASSUME NEW d \in Domains, NEW a \in Nat
    PROVE  LET lost == a * Unit(d) - ConvertToInternal(d, a) * ProposalUnit
           IN  /\ ConvertToInternal(d, a) \in Nat
               /\ 0 <= lost
               /\ lost = 0 \/ lost <= ProposalUnit - Unit(d)
<1>1. CASE Decimals[d] >= DefaultDecimals
  BY <1>1, Units, Rounding DEF ConvertToInternal
<1>2. CASE ~ (Decimals[d] >= DefaultDecimals)
  <2> DEFINE k == Worth[DefaultDecimals - Decimals[d]]
  <2>1. k \in Nat /\ ProposalUnit \in Nat /\ Unit(d) = ProposalUnit * k
    BY <1>2, Units
  <2>2. ConvertToInternal(d, a) = a * k
    BY <1>2 DEF ConvertToInternal
  <2> HIDE DEF k
  <2>3. a * (ProposalUnit * k) = (a * k) * ProposalUnit
    BY <2>1
  <2>4. a * k \in Nat /\ (a * k) * ProposalUnit \in Nat
    BY <2>1
  <2> QED
    BY <2>1, <2>2, <2>3, <2>4
<1> QED
  BY <1>1, <1>2

\* Nor is it paid more.
LEMMA ExternalValue ==
    ASSUME NEW d \in Domains, NEW n \in Nat
    PROVE  LET lost == n * ProposalUnit - ConvertToExternal(d, n) * Unit(d)
           IN  /\ ConvertToExternal(d, n) \in Nat
               /\ 0 <= lost
               /\ lost = 0 \/ lost <= Unit(d) - ProposalUnit
<1>1. CASE Decimals[d] >= DefaultDecimals
  <2> DEFINE k == Worth[Decimals[d] - DefaultDecimals]
  <2>1. k \in Nat /\ Unit(d) \in Nat /\ ProposalUnit = Unit(d) * k
    BY <1>1, Units
  <2>2. ConvertToExternal(d, n) = n * k
    BY <1>1 DEF ConvertToExternal
  <2> HIDE DEF k
  <2>3. n * (Unit(d) * k) = (n * k) * Unit(d)
    BY <2>1
  <2>4. n * k \in Nat /\ (n * k) * Unit(d) \in Nat
    BY <2>1
  <2> QED
    BY <2>1, <2>2, <2>3, <2>4
<1>2. CASE ~ (Decimals[d] >= DefaultDecimals)
  BY <1>2, Units, Rounding DEF ConvertToExternal
<1> QED
  BY <1>1, <1>2

\* Max of three numbers.
LEMMA MaxOfThree ==
    ASSUME NEW a \in Nat, NEW b \in Nat, NEW c \in Nat
    PROVE  LET m == Max({a, b, c}) IN m \in Nat /\ m >= a /\ m >= b /\ m >= c
<1>1. \E x \in {a, b, c} : \A y \in {a, b, c} : x >= y
  OBVIOUS
<1> QED
  BY <1>1 DEF Max

\* Both conversions together lose less than the coarsest unit.
LEMMA Dust ==
    ASSUME NEW o \in Domains, NEW d \in Domains, NEW a \in Nat
    PROVE  LET lost == a * Unit(o)
                   - ConvertToExternal(d, ConvertToInternal(o, a)) * Unit(d)
           IN  0 <= lost /\ lost < Max({Unit(o), Unit(d), ProposalUnit})
<1> DEFINE n == ConvertToInternal(o, a)
           given == a * Unit(o)
           told == n * ProposalUnit
           paid == ConvertToExternal(d, n) * Unit(d)
<1>1. Unit(o) \in Nat \ {0} /\ Unit(d) \in Nat \ {0} /\ ProposalUnit \in Nat \ {0}
  BY Units
<1>2. n \in Nat /\ 0 <= given - told
      /\ (given - told = 0 \/ given - told <= ProposalUnit - Unit(o))
  BY InternalValue
<1>3. ConvertToExternal(d, n) \in Nat /\ 0 <= told - paid
      /\ (told - paid = 0 \/ told - paid <= Unit(d) - ProposalUnit)
  BY <1>2, ExternalValue
<1>4. given \in Nat /\ told \in Nat /\ paid \in Nat
  BY <1>1, <1>2, <1>3
<1>5. LET m == Max({Unit(o), Unit(d), ProposalUnit})
      IN  m \in Nat /\ m >= Unit(o) /\ m >= Unit(d) /\ m >= ProposalUnit
  BY <1>1, MaxOfThree
<1> HIDE DEF given, told, paid, n
<1>6. 0 <= given - paid /\ given - paid < Max({Unit(o), Unit(d), ProposalUnit})
  BY <1>1, <1>2, <1>3, <1>4, <1>5
<1> QED
  BY <1>6 DEF given, paid, n

-----------------------------------------------------------------------------
(* Type correctness, and what the deposits announce. *)

\* There are finitely many deposits; each tells the converted amount.
Announced ==
    /\ IsFiniteSet(deposits)
    /\ \A t \in deposits : t.amount = ConvertToInternal(t.origin, t.given)

\* The deposit that Deposit announces.
NewTransfer(d, dest, amount, recipient, message) ==
    [origin |-> d, dest |-> dest, nonce |-> DepositCount(d, dest) + 1,
     given |-> amount, amount |-> ConvertToInternal(d, amount),
     recipient |-> recipient, message |-> message]

\* A mapped resource has one of the domain's handlers.
LEMMA MappedHandler ==
    ASSUME TypeOK, NEW d \in Domains, handlerOf[d] # Unmapped
    PROVE  handlerOf[d] \in Handlers /\ handlerOf[d] \in Holders
BY DEF TypeOK, Holders

\* A proposal that can be paid has a payee, and an amount.
LEMMA PayeeType ==
    ASSUME TypeOK, NEW t \in deposits, CanPay(t)
    PROVE  /\ t \in Transfer /\ t.dest \in Domains /\ Payee(t) \in Holders
           /\ ConvertToExternal(t.dest, t.amount) \in Nat
<1>1. t \in Transfer /\ t.dest \in Domains /\ t.amount \in Nat /\ t.recipient \in Recipients
  BY DEF TypeOK, Transfer
<1>2. Payee(t) \in Holders
  BY <1>1, TransferAssumption DEF CanPay, Payee, Holders
<1> QED
  BY <1>1, <1>2, ExternalValue

\* The number of deposits made for a destination is a natural.
LEMMA DepositCountType ==
    ASSUME Announced, NEW d, NEW dest
    PROVE  DepositCount(d, dest) \in Nat
<1>1. IsFiniteSet({t \in deposits : t.origin = d /\ t.dest = dest})
  BY FS_Subset DEF Announced
<1> QED
  BY <1>1, FS_CardinalityType DEF DepositCount

\* The state starts well-typed, with no deposit.
LEMMA TypesAtStart == Init => TypeOK /\ Announced
<1> SUFFICES ASSUME Init PROVE TypeOK /\ Announced
  OBVIOUS
<1>1. TypeOK
  BY TransferAssumption DEF Init, TypeOK
<1>2. Announced
  BY FS_EmptySet DEF Init, Announced
<1> QED
  BY <1>1, <1>2

\* A deposit keeps the types and announces the converted amount.
LEMMA DepositTypes ==
    ASSUME TypeOK, Announced, NEW d \in Domains, NEW dest \in Domains, NEW user \in Users,
           NEW amount \in Amounts, NEW recipient \in Recipients, NEW message \in Messages,
           Deposit(d, user, dest, amount, recipient, message)
    PROVE  TypeOK' /\ Announced'
<1> DEFINE t == NewTransfer(d, dest, amount, recipient, message)
           h == handlerOf[d]
           paid == [balance[d] EXCEPT ![user] = @ - amount]
<1>1. amount \in Nat /\ ConvertToInternal(d, amount) \in Nat
  BY TransferAssumption, InternalValue
<1>2. DepositCount(d, dest) + 1 \in 1 .. MaxNonce
  BY DepositCountType, TransferAssumption DEF Deposit
<1>3. t \in Transfer
  BY <1>1, <1>2 DEF NewTransfer, Transfer
<1>4. deposits' = deposits \cup {t}
  BY DEF Deposit, NewTransfer
<1>5. balance' \in [Domains -> [Holders -> Nat]]
  <2>1. h \in Holders /\ user \in Holders /\ balance[d] \in [Holders -> Nat]
        /\ balance[d][user] >= amount
    BY MappedHandler DEF TypeOK, Deposit, Holders
  <2>2. paid \in [Holders -> Nat]
    BY <1>1, <2>1
  <2>3. TakenFrom(d, user, amount) \in [Holders -> Nat]
    <3> HIDE DEF paid, h
    <3>1. [paid EXCEPT ![h] = @ + amount] \in [Holders -> Nat]
      BY <1>1, <2>1, <2>2
    <3>2. TakenFrom(d, user, amount)
              = IF h \in isBurnable[d] THEN paid ELSE [paid EXCEPT ![h] = @ + amount]
      BY DEF TakenFrom, paid, h
    <3> QED
      BY <2>2, <3>1, <3>2
  <2> QED
    BY <2>3 DEF TypeOK, Deposit
<1>6. TypeOK'
  BY <1>3, <1>4, <1>5 DEF TypeOK, Deposit, tokens
<1>7. Announced'
  <2>1. IsFiniteSet(deposits')
    BY <1>4, FS_AddElement DEF Announced
  <2>2. t.amount = ConvertToInternal(t.origin, t.given)
    BY DEF NewTransfer
  <2> QED
    BY <1>4, <2>1, <2>2 DEF Announced
<1> QED
  BY <1>6, <1>7

\* So does an execution.
LEMMA ExecuteTypes ==
    ASSUME TypeOK, Announced, NEW t \in deposits, ExecuteProposal(t)
    PROVE  TypeOK' /\ Announced'
<1> DEFINE d == t.dest
           h == handlerOf[d]
           amount == ConvertToExternal(d, t.amount)
           released == [balance[d] EXCEPT ![h] = @ - amount]
<1>1. d \in Domains /\ Payee(t) \in Holders /\ amount \in Nat
  BY PayeeType DEF ExecuteProposal
<1>2. h \in Holders /\ balance[d] \in [Holders -> Nat]
  BY <1>1, MappedHandler DEF ExecuteProposal, TypeOK
<1>3. PaidTo(t) = IF h \in isBurnable[d]
                  THEN [balance[d] EXCEPT ![Payee(t)] = @ + amount]
                  ELSE [released EXCEPT ![Payee(t)] = @ + amount]
  BY DEF PaidTo
<1>4. h \in isBurnable[d] \/ balance[d][h] >= amount
  BY DEF ExecuteProposal, CanPay
<1>5. PaidTo(t) \in [Holders -> Nat]
  <2>1. CASE h \in isBurnable[d]
    <3> HIDE DEF d, h, amount
    <3> QED
      BY <1>1, <1>2, <1>3, <2>1
  <2>2. CASE h \notin isBurnable[d]
    <3> HIDE DEF d, h, amount
    <3>1. released \in [Holders -> Nat]
      BY <1>1, <1>2, <1>4, <2>2
    <3> HIDE DEF released
    <3> QED
      BY <1>1, <1>2, <1>3, <2>2, <3>1
  <2> QED
    BY <2>1, <2>2
<1>6. balance' \in [Domains -> [Holders -> Nat]]
  BY <1>5 DEF TypeOK, ExecuteProposal
<1>7. TypeOK'
  BY <1>6 DEF TypeOK, ExecuteProposal, tokens
<1>8. Announced'
  BY DEF Announced, ExecuteProposal
<1> QED
  BY <1>7, <1>8

\* And the admin's withdrawals.
LEMMA WithdrawTypes ==
    ASSUME TypeOK, Announced, NEW d \in Domains, NEW h \in Handlers, NEW to \in WithdrawTo,
           NEW amount \in Amounts, AdminWithdraw(d, h, to, amount)
    PROVE  TypeOK' /\ Announced'
<1>1. amount \in Nat /\ to \in Holders /\ h \in Holders
  BY TransferAssumption DEF Holders
<1>2. balance[d] \in [Holders -> Nat] /\ amount <= balance[d][h] /\ to # h
  BY DEF TypeOK, AdminWithdraw
<1>3. balance' = [balance EXCEPT ![d] = [balance[d] EXCEPT ![h] = @ - amount,
                                                           ![to] = @ + amount]]
  BY <1>1, <1>2 DEF AdminWithdraw, TypeOK
<1>4. [balance[d] EXCEPT ![h] = @ - amount, ![to] = @ + amount] \in [Holders -> Nat]
  BY <1>1, <1>2
<1>5. balance' \in [Domains -> [Holders -> Nat]]
  BY <1>3, <1>4 DEF TypeOK
<1>6. withdrawn' \in [Domains -> Nat]
  BY <1>1 DEF AdminWithdraw, TypeOK
<1>7. TypeOK'
  BY <1>5, <1>6 DEF TypeOK, AdminWithdraw, tokens
<1>8. Announced'
  BY DEF Announced, AdminWithdraw
<1> QED
  BY <1>7, <1>8

\* Every step keeps the types and what the deposits announce.
LEMMA TypesInductive == TypeOK /\ Announced /\ [Next]_vars => TypeOK' /\ Announced'
<1> SUFFICES ASSUME TypeOK, Announced, [Next]_vars PROVE TypeOK' /\ Announced'
  OBVIOUS
<1>1. ASSUME NEW d \in Domains, NEW dest \in Domains, NEW u \in Users, NEW n \in Amounts,
             NEW r \in Recipients, NEW m \in Messages, Deposit(d, u, dest, n, r, m)
      PROVE  TypeOK' /\ Announced'
  BY <1>1, DepositTypes
<1>2. ASSUME NEW t \in deposits, ExecuteProposal(t)
      PROVE  TypeOK' /\ Announced'
  BY <1>2, ExecuteTypes
<1>3. ASSUME NEW u \in Upgrades, AdminSetResource(u[1], u[2])
      PROVE  TypeOK' /\ Announced'
  <2>1. u[1] \in Domains /\ u[2] \in Handlers
    BY TransferAssumption
  <2> QED
    BY <1>3, <2>1 DEF AdminSetResource, TypeOK, Announced
<1>4. ASSUME NEW d \in Burnable, NEW h \in Handlers, AdminSetBurnable(d, h)
      PROVE  TypeOK' /\ Announced'
  BY <1>4, TransferAssumption DEF AdminSetBurnable, TypeOK, Announced
<1>5. ASSUME NEW d \in Domains, NEW h \in Handlers, NEW a \in WithdrawTo, NEW n \in Amounts,
             AdminWithdraw(d, h, a, n)
      PROVE  TypeOK' /\ Announced'
  BY <1>5, WithdrawTypes
<1>6. ASSUME NEW d \in Domains, AdminTogglePause(d)
      PROVE  TypeOK' /\ Announced'
  BY <1>6 DEF AdminTogglePause, TypeOK, Announced, tokens
<1>7. CASE UNCHANGED vars
  BY <1>7 DEF vars, tokens, TypeOK, Announced
<1>8. ASSUME NEW t \in deposits, PayeeChangesAnswer(t)
      PROVE  TypeOK' /\ Announced'
  BY <1>8 DEF PayeeChangesAnswer, TypeOK, Announced, tokens
<1> QED
  BY <1>1, <1>2, <1>3, <1>4, <1>5, <1>6, <1>7, <1>8 DEF Next

\* However the domains, handlers and decimals are set up, what the handlers, the
\* users and the admin do to balances stays well-typed: no balance is negative,
\* and only announced deposits are executed.
THEOREM TypeCorrect == Spec => [](TypeOK /\ Announced)
<1>1. Init => TypeOK /\ Announced
  BY TypesAtStart
<1>2. TypeOK /\ Announced /\ [Next]_vars => (TypeOK /\ Announced)'
  BY TypesInductive
<1> QED
  BY <1>1, <1>2, PTL DEF Spec

\* The conversions between the decimals of origin, proposal and destination lose
\* less than one unit of the coarsest, and never gain, whatever the decimals.
THEOREM OnlyDustLost == Spec => []LosesOnlyDust
<1>1. TypeOK /\ Announced => LosesOnlyDust
  <2> SUFFICES ASSUME TypeOK, Announced, NEW t \in deposits
               PROVE  LET lost == t.given * Unit(t.origin)
                              - ConvertToExternal(t.dest, t.amount) * Unit(t.dest)
                      IN  0 <= lost
                          /\ lost < Max({Unit(t.origin), Unit(t.dest), ProposalUnit})
    BY DEF LosesOnlyDust
  <2>1. t.origin \in Domains /\ t.dest \in Domains /\ t.given \in Nat
    BY DEF TypeOK, Transfer
  <2>2. t.amount = ConvertToInternal(t.origin, t.given)
    BY DEF Announced
  <2> QED
    BY <2>1, <2>2, Dust
<1> QED
  BY <1>1, TypeCorrect, PTL

-----------------------------------------------------------------------------
(* No value is created. *)

\* The three sums, of any balances, pending transfers and withdrawals.
CirculatingOf(row) == SumFunctionOnSet(row, Holders \ Handlers)

OwnedOf(b) ==
    SumFunctionOnSet([d \in Domains |-> CirculatingOf(b[d]) * Unit(d)], Domains)

PendingOf(P) == SumFunctionOnSet([t \in P |-> t.amount * ProposalUnit], P)

GivenOf(w) ==
    SumFunctionOnSet([d \in Domains |-> (Minted[d] * Cardinality(Users) + w[d]) * Unit(d)],
                     Domains)

\* They are those of the property, before and after a step.
LEMMA ValuesOf ==
    /\ OwnedValue = OwnedOf(balance) /\ OwnedValue' = OwnedOf(balance')
    /\ PendingValue = PendingOf(deposits \ executed)
    /\ PendingValue' = PendingOf(deposits' \ executed')
    /\ GivenValue = GivenOf(withdrawn) /\ GivenValue' = GivenOf(withdrawn')
BY DEF OwnedValue, PendingValue, GivenValue, OwnedOf, PendingOf, GivenOf,
       Circulating, CirculatingOf, SumFunction, Pending

\* Only users and the receiver own what circulates; there are finitely many.
LEMMA CirculationFinite == IsFiniteSet(Holders \ Handlers)
<1>1. IsFiniteSet(Users \cup {Receiver})
  BY TransferAssumption, FS_AddElement
<1>2. Holders \ Handlers \subseteq Users \cup {Receiver}
  BY DEF Holders
<1> QED
  BY <1>1, <1>2, FS_Subset

\* What circulates is a natural, and does not depend on what handlers own.
LEMMA CirculatingSame ==
    ASSUME NEW r \in [Holders -> Nat], NEW s \in [Holders -> Nat],
           \A a \in Holders \ Handlers : s[a] = r[a]
    PROVE  CirculatingOf(r) \in Nat /\ CirculatingOf(s) = CirculatingOf(r)
BY CirculationFinite, SumIsNat, SumOfSame DEF CirculatingOf

\* It changes with what one of the others owns.
LEMMA CirculatingChanged ==
    ASSUME NEW r \in [Holders -> Nat], NEW s \in [Holders -> Nat],
           NEW a \in Holders \ Handlers, \A x \in (Holders \ Handlers) \ {a} : s[x] = r[x]
    PROVE  CirculatingOf(s) = CirculatingOf(r) + (s[a] - r[a])
<1>1. /\ \A x \in Holders \ Handlers : r[x] \in Int
      /\ \A x \in Holders \ Handlers : s[x] \in Int
  OBVIOUS
<1> QED
  BY <1>1, CirculationFinite, SumUpdated DEF CirculatingOf

\* What is owned changes with what circulates on one domain.
LEMMA OwnedChanged ==
    ASSUME NEW b \in [Domains -> [Holders -> Nat]], NEW c \in [Domains -> [Holders -> Nat]],
           NEW d \in Domains, \A e \in Domains \ {d} : c[e] = b[e]
    PROVE  /\ OwnedOf(b) \in Nat /\ OwnedOf(c) \in Nat
           /\ OwnedOf(c) = OwnedOf(b)
                  + (CirculatingOf(c[d]) * Unit(d) - CirculatingOf(b[d]) * Unit(d))
<1> DEFINE f == [e \in Domains |-> CirculatingOf(b[e]) * Unit(e)]
           g == [e \in Domains |-> CirculatingOf(c[e]) * Unit(e)]
<1>1. \A e \in Domains : f[e] \in Nat /\ g[e] \in Nat
  <2> SUFFICES ASSUME NEW e \in Domains PROVE f[e] \in Nat /\ g[e] \in Nat
    OBVIOUS
  <2>1. b[e] \in [Holders -> Nat] /\ c[e] \in [Holders -> Nat] /\ Unit(e) \in Nat
    BY Units
  <2>2. CirculatingOf(b[e]) \in Nat /\ CirculatingOf(c[e]) \in Nat
    BY <2>1, CirculatingSame
  <2>3. \A x, y \in Nat : x * y \in Nat
    OBVIOUS
  <2> QED
    BY <2>1, <2>2, <2>3
<1>2. \A e \in Domains \ {d} : g[e] = f[e]
  OBVIOUS
<1>3. f[d] = CirculatingOf(b[d]) * Unit(d) /\ g[d] = CirculatingOf(c[d]) * Unit(d)
  OBVIOUS
<1>4. IsFiniteSet(Domains)
  BY TransferAssumption
<1>5. OwnedOf(b) = SumFunctionOnSet(f, Domains) /\ OwnedOf(c) = SumFunctionOnSet(g, Domains)
  BY DEF OwnedOf
<1> HIDE DEF f, g
<1>6. SumFunctionOnSet(f, Domains) \in Nat /\ SumFunctionOnSet(g, Domains) \in Nat
  BY <1>1, <1>4, SumIsNat
<1>7. SumFunctionOnSet(g, Domains) = SumFunctionOnSet(f, Domains) + (g[d] - f[d])
  <2>1. (\A e \in Domains : f[e] \in Int) /\ (\A e \in Domains : g[e] \in Int)
    BY <1>1
  <2> QED
    BY <2>1, <1>2, <1>4, SumUpdated
<1> QED
  BY <1>3, <1>5, <1>6, <1>7

\* It changes by the worth of what somebody who is no handler gets or gives there.
LEMMA OwnedMore ==
    ASSUME NEW b \in [Domains -> [Holders -> Nat]], NEW c \in [Domains -> [Holders -> Nat]],
           NEW d \in Domains, \A e \in Domains \ {d} : c[e] = b[e],
           NEW a \in Holders \ Handlers,
           \A x \in (Holders \ Handlers) \ {a} : c[d][x] = b[d][x]
    PROVE  OwnedOf(c) = OwnedOf(b) + (c[d][a] - b[d][a]) * Unit(d)
<1> DEFINE r == CirculatingOf(b[d])
           s == CirculatingOf(c[d])
           n == c[d][a] - b[d][a]
<1>1. b[d] \in [Holders -> Nat] /\ c[d] \in [Holders -> Nat] /\ Unit(d) \in Nat
  BY Units
<1>2. r \in Nat /\ s \in Nat /\ n \in Int
  BY <1>1, CirculatingSame
<1>3. s = r + n
  BY <1>1, CirculatingChanged
<1>4. OwnedOf(b) \in Nat /\ OwnedOf(c) = OwnedOf(b) + (s * Unit(d) - r * Unit(d))
  BY OwnedChanged
<1> HIDE DEF r, s, n
<1>5. s * Unit(d) = r * Unit(d) + n * Unit(d)
  <2>1. \A x, y, z \in Int : (x + y) * z = x * z + y * z
    OBVIOUS
  <2> QED
    BY <1>1, <1>2, <1>3, <2>1
<1>6. r * Unit(d) \in Int /\ n * Unit(d) \in Int
  BY <1>1, <1>2
<1>7. OwnedOf(c) = OwnedOf(b) + n * Unit(d)
  BY <1>4, <1>5, <1>6
<1> QED
  BY <1>7 DEF n

\* Handlers do not count.
LEMMA OwnedSame ==
    ASSUME NEW b \in [Domains -> [Holders -> Nat]], NEW c \in [Domains -> [Holders -> Nat]],
           NEW d \in Domains, \A e \in Domains \ {d} : c[e] = b[e],
           \A x \in Holders \ Handlers : c[d][x] = b[d][x]
    PROVE  OwnedOf(c) = OwnedOf(b)
<1>1. b[d] \in [Holders -> Nat] /\ c[d] \in [Holders -> Nat] /\ Unit(d) \in Nat
  BY Units
<1>2. CirculatingOf(c[d]) = CirculatingOf(b[d]) /\ CirculatingOf(b[d]) \in Nat
  BY <1>1, CirculatingSame
<1>3. OwnedOf(b) \in Nat /\ OwnedOf(c) = OwnedOf(b)
          + (CirculatingOf(c[d]) * Unit(d) - CirculatingOf(b[d]) * Unit(d))
  BY OwnedChanged
<1>4. CirculatingOf(b[d]) * Unit(d) \in Nat
  BY <1>1, <1>2
<1> QED
  BY <1>2, <1>3, <1>4

\* What is under way is a natural, and grows by the amount of a further transfer.
LEMMA PendingWithOne ==
    ASSUME NEW P, IsFiniteSet(P), P \subseteq Transfer, NEW t \in Transfer, t \notin P
    PROVE  /\ PendingOf(P) \in Nat
           /\ PendingOf(P \cup {t}) = PendingOf(P) + t.amount * ProposalUnit
<1> DEFINE Q == P \cup {t}
           f == [u \in P |-> u.amount * ProposalUnit]
           g == [u \in Q |-> u.amount * ProposalUnit]
<1>1. \A u \in Q : u.amount * ProposalUnit \in Nat
  <2> SUFFICES ASSUME NEW u \in Q PROVE u.amount * ProposalUnit \in Nat
    OBVIOUS
  <2>1. u.amount \in Nat /\ u.origin \in Domains
    BY DEF Transfer
  <2>2. ProposalUnit \in Nat
    BY <2>1, Units
  <2>3. \A x, y \in Nat : x * y \in Nat
    OBVIOUS
  <2> QED
    BY <2>1, <2>2, <2>3
<1>2. SumFunctionOnSet(f, P) \in Nat
  BY <1>1, SumIsNat
<1>3. SumFunctionOnSet(g, P) = SumFunctionOnSet(f, P)
  BY SumOfSame
<1>4. SumFunctionOnSet(g, Q) = g[t] + SumFunctionOnSet(g, P)
  <2>1. \A u \in P \cup {t} : g[u] \in Int
    BY <1>1
  <2> HIDE DEF g
  <2> QED
    BY <2>1, SumWithOne
<1>5. g[t] = t.amount * ProposalUnit /\ g[t] \in Nat
  BY <1>1
<1>6. PendingOf(P) = SumFunctionOnSet(f, P) /\ PendingOf(Q) = SumFunctionOnSet(g, Q)
  BY DEF PendingOf
<1> HIDE DEF f, g
<1> QED
  BY <1>2, <1>3, <1>4, <1>5, <1>6

\* A withdrawal is given its worth.
LEMMA GivenChanged ==
    ASSUME NEW w \in [Domains -> Nat], NEW d \in Domains, NEW n \in Nat
    PROVE  /\ GivenOf(w) \in Nat
           /\ GivenOf([w EXCEPT ![d] = @ + n]) = GivenOf(w) + n * Unit(d)
<1> DEFINE v == [w EXCEPT ![d] = @ + n]
           users == Cardinality(Users)
           f == [e \in Domains |-> (Minted[e] * users + w[e]) * Unit(e)]
           g == [e \in Domains |-> (Minted[e] * users + v[e]) * Unit(e)]
<1>1. v \in [Domains -> Nat] /\ v[d] = w[d] + n /\ \A e \in Domains \ {d} : v[e] = w[e]
  OBVIOUS
<1>2. users \in Nat
  BY TransferAssumption, FS_CardinalityType
<1> HIDE DEF v, users
<1>3. ASSUME NEW e \in Domains
      PROVE  /\ Minted[e] * users \in Nat /\ Unit(e) \in Nat
             /\ (Minted[e] * users + w[e]) * Unit(e) \in Nat
             /\ (Minted[e] * users + v[e]) * Unit(e) \in Nat
  <2>1. Minted[e] \in Nat /\ Unit(e) \in Nat /\ w[e] \in Nat /\ v[e] \in Nat
    BY <1>1, TransferAssumption, Units
  <2>2. \A x, y \in Nat : x * y \in Nat /\ x + y \in Nat
    OBVIOUS
  <2> QED
    BY <1>2, <2>1, <2>2
<1>4. \A e \in Domains : f[e] \in Nat /\ g[e] \in Nat
  BY <1>3
<1>5. \A e \in Domains \ {d} : g[e] = f[e]
  BY <1>1
<1>6. g[d] = f[d] + n * Unit(d)
  <2> DEFINE m == Minted[d] * users + w[d]
  <2>1. f[d] = m * Unit(d) /\ g[d] = (m + n) * Unit(d)
    <3>1. Minted[d] * users + (w[d] + n) = m + n
      BY <1>3, TransferAssumption
    <3> QED
      BY <1>1, <3>1
  <2>2. m \in Nat /\ Unit(d) \in Nat
    BY <1>3
  <2> HIDE DEF m, f, g
  <2>3. (m + n) * Unit(d) = m * Unit(d) + n * Unit(d)
    BY <2>2
  <2> QED
    BY <2>1, <2>3
<1>7. IsFiniteSet(Domains)
  BY TransferAssumption
<1>8. GivenOf(w) = SumFunctionOnSet(f, Domains) /\ GivenOf(v) = SumFunctionOnSet(g, Domains)
  BY DEF GivenOf, users
<1>9. n * Unit(d) \in Nat
  BY <1>3
<1> HIDE DEF f, g
<1>10. SumFunctionOnSet(f, Domains) \in Nat
  BY <1>4, <1>7, SumIsNat
<1>11. SumFunctionOnSet(g, Domains) = SumFunctionOnSet(f, Domains) + (g[d] - f[d])
  <2>1. (\A e \in Domains : f[e] \in Int) /\ (\A e \in Domains : g[e] \in Int)
    BY <1>4
  <2> QED
    BY <2>1, <1>5, <1>7, SumUpdated
<1>12. GivenOf(v) = GivenOf(w) + n * Unit(d)
  BY <1>4, <1>6, <1>8, <1>9, <1>10, <1>11
<1> QED
  BY <1>8, <1>10, <1>12 DEF v

\* At the start the users own what they were given, and nothing is under way.
LEMMA ValueAtStart == Init => NoValueCreated
<1> SUFFICES ASSUME Init PROVE NoValueCreated
  OBVIOUS
<1> DEFINE users == Cardinality(Users)
<1>1. users \in Nat
  BY TransferAssumption, FS_CardinalityType
<1>2. ASSUME NEW d \in Domains
      PROVE  CirculatingOf(balance[d]) <= Minted[d] * users
             /\ CirculatingOf(balance[d]) \in Nat
  <2> DEFINE C == Holders \ Handlers
             row == [a \in Holders |-> IF a \in Users THEN Minted[d] ELSE 0]
  <2>1. balance[d] = row
    BY DEF Init
  <2>2. Minted[d] \in Nat
    BY TransferAssumption
  <2>3. IsFiniteSet(C) /\ Users \subseteq C /\ C \subseteq Users \cup {Receiver}
    BY CirculationFinite, TransferAssumption DEF Holders
  <2>4. SumFunctionOnSet(row, Users) = Minted[d] * users
    <3>1. \A a \in Users : row[a] = Minted[d]
      BY DEF Holders
    <3> HIDE DEF row
    <3> QED
      BY <2>2, <3>1, TransferAssumption, SumConstant
  <2>5. CirculatingOf(balance[d]) = SumFunctionOnSet(row, C)
    BY <2>1 DEF CirculatingOf
  <2> DEFINE m == Minted[d] * users
  <2>6. m \in Nat
    BY <1>1, <2>2
  <2> HIDE DEF users, m
  <2>7. CASE C = Users
    <3>1. CirculatingOf(balance[d]) = m
      BY <2>4, <2>5, <2>7 DEF m
    <3> QED
      BY <2>6, <3>1 DEF m
  <2>8. CASE C # Users
    <3>1. C = Users \cup {Receiver} /\ Receiver \notin Users
      BY <2>3, <2>8
    <3>2. row[Receiver] = 0 /\ \A x \in Users \cup {Receiver} : row[x] \in Int
      BY <3>1, <2>2 DEF Holders
    <3> HIDE DEF row, C
    <3>3. SumFunctionOnSet(row, Users \cup {Receiver})
              = row[Receiver] + SumFunctionOnSet(row, Users)
      BY <3>1, <3>2, TransferAssumption, SumWithOne
    <3>4. CirculatingOf(balance[d]) = 0 + m
      BY <2>4, <2>5, <3>1, <3>2, <3>3 DEF m
    <3>5. CirculatingOf(balance[d]) = m
      BY <2>6, <3>4
    <3> QED
      BY <2>6, <3>5 DEF m
  <2> QED
    BY <2>7, <2>8
<1> DEFINE f == [d \in Domains |-> CirculatingOf(balance[d]) * Unit(d)]
           g == [d \in Domains |-> (Minted[d] * users + withdrawn[d]) * Unit(d)]
<1>3. ASSUME NEW d \in Domains
      PROVE  f[d] \in Int /\ g[d] \in Int /\ f[d] <= g[d]
  <2> DEFINE c == CirculatingOf(balance[d])
             m == Minted[d] * users
  <2>1. withdrawn[d] = 0 /\ Minted[d] \in Nat /\ Unit(d) \in Nat
    BY TransferAssumption, Units DEF Init
  <2>2. c \in Nat /\ c <= m /\ m \in Nat
    BY <1>1, <1>2, <2>1
  <2>3. f[d] = c * Unit(d) /\ g[d] = (m + withdrawn[d]) * Unit(d)
    OBVIOUS
  <2> HIDE DEF c, m, f, g
  <2>4. \A x, y, z \in Nat : x <= y => x * z \in Nat /\ y * z \in Nat /\ x * z <= y * z
    OBVIOUS
  <2> QED
    BY <2>1, <2>2, <2>3, <2>4
<1>4. OwnedOf(balance) <= GivenOf(withdrawn)
  <2> HIDE DEF f, g
  <2>1. SumFunctionOnSet(f, Domains) <= SumFunctionOnSet(g, Domains)
    BY <1>3, TransferAssumption, SumMonotonic
  <2> QED
    BY <2>1 DEF OwnedOf, GivenOf, f, g
<1>5. PendingOf(deposits \ executed) = 0
  BY SumEmpty DEF Init, PendingOf
<1>6. OwnedOf(balance) \in Int
  <2>1. \A d \in Domains : f[d] \in Int
    BY <1>3
  <2> HIDE DEF f
  <2>2. SumFunctionOnSet(f, Domains) \in Int
    BY <2>1, TransferAssumption, SumIsInt
  <2> QED
    BY <2>2 DEF OwnedOf, f
<1> QED
  BY <1>4, <1>5, <1>6, ValuesOf DEF NoValueCreated

\* The three values are naturals.
LEMMA ValuesType ==
    ASSUME NEW b \in [Domains -> [Holders -> Nat]],
           NEW P \in SUBSET Transfer, IsFiniteSet(P),
           NEW w \in [Domains -> Nat]
    PROVE  OwnedOf(b) \in Nat /\ PendingOf(P) \in Nat /\ GivenOf(w) \in Nat
<1>1. OwnedOf(b) \in Nat
  <2> DEFINE f == [d \in Domains |-> CirculatingOf(b[d]) * Unit(d)]
  <2>1. ASSUME NEW d \in Domains PROVE f[d] \in Nat
    <3>1. CirculatingOf(b[d]) \in Nat /\ Unit(d) \in Nat
      <4>1. b[d] \in [Holders -> Nat]
        OBVIOUS
      <4> QED
        BY <4>1, CirculatingSame, Units
    <3>2. \A x, y \in Nat : x * y \in Nat
      OBVIOUS
    <3> QED
      BY <3>1, <3>2
  <2> HIDE DEF f
  <2>2. SumFunctionOnSet(f, Domains) \in Nat
    BY <2>1, TransferAssumption, SumIsNat
  <2> QED
    BY <2>2 DEF OwnedOf, f
<1>2. PendingOf(P) \in Nat
  <2> DEFINE f == [t \in P |-> t.amount * ProposalUnit]
  <2>1. ASSUME NEW t \in P PROVE f[t] \in Nat
    <3>1. t.amount \in Nat /\ ProposalUnit \in Nat
      BY Units DEF Transfer
    <3>2. \A x, y \in Nat : x * y \in Nat
      OBVIOUS
    <3> QED
      BY <3>1, <3>2
  <2> HIDE DEF f
  <2>2. SumFunctionOnSet(f, P) \in Nat
    BY <2>1, SumIsNat
  <2> QED
    BY <2>2 DEF PendingOf, f
<1>3. GivenOf(w) \in Nat
  <2> DEFINE users == Cardinality(Users)
             f == [d \in Domains |-> (Minted[d] * users + w[d]) * Unit(d)]
  <2>1. users \in Nat
    BY TransferAssumption, FS_CardinalityType
  <2> HIDE DEF users
  <2>2. ASSUME NEW d \in Domains PROVE f[d] \in Nat
    <3>1. Minted[d] \in Nat /\ w[d] \in Nat /\ Unit(d) \in Nat
      BY TransferAssumption, Units
    <3>2. \A x, y \in Nat : x * y \in Nat /\ x + y \in Nat
      OBVIOUS
    <3> QED
      BY <2>1, <3>1, <3>2
  <2> HIDE DEF f
  <2>3. SumFunctionOnSet(f, Domains) \in Nat
    BY <2>2, TransferAssumption, SumIsNat
  <2> QED
    BY <2>3 DEF GivenOf, f, users
<1> QED
  BY <1>1, <1>2, <1>3

\* Also in every state that is well-typed.
LEMMA ValuesTypeOfState ==
    ASSUME TypeOK, Announced
    PROVE  /\ OwnedOf(balance) \in Nat /\ PendingOf(deposits \ executed) \in Nat
           /\ GivenOf(withdrawn) \in Nat
<1>1. IsFiniteSet(deposits \ executed) /\ deposits \ executed \in SUBSET Transfer
  BY FS_Subset DEF TypeOK, Announced
<1> QED
  BY <1>1, ValuesType DEF TypeOK

\* And in the state after a step that is.
LEMMA ValuesTypeOfNext ==
    ASSUME TypeOK', Announced'
    PROVE  /\ OwnedOf(balance') \in Nat /\ PendingOf(deposits' \ executed') \in Nat
           /\ GivenOf(withdrawn') \in Nat
<1>1. IsFiniteSet(deposits' \ executed') /\ deposits' \ executed' \in SUBSET Transfer
  BY FS_Subset DEF TypeOK, Announced
<1> QED
  BY <1>1, ValuesType DEF TypeOK

\* A deposit takes its worth from the user, and announces no more.
LEMMA DepositValue ==
    ASSUME TypeOK, Announced, TypeOK', NoValueCreated,
           NEW d \in Domains, NEW dest \in Domains, NEW user \in Users,
           NEW amount \in Amounts, NEW recipient \in Recipients, NEW message \in Messages,
           Deposit(d, user, dest, amount, recipient, message)
    PROVE  NoValueCreated'
<1> DEFINE t == NewTransfer(d, dest, amount, recipient, message)
           P == deposits \ executed
           worth == amount * Unit(d)
<1>1. amount \in Nat /\ user \in Holders \ Handlers
  BY TransferAssumption DEF Holders
<1>2. /\ balance \in [Domains -> [Holders -> Nat]]
      /\ balance' \in [Domains -> [Holders -> Nat]]
  BY DEF TypeOK
<1>3. /\ balance'[d] = TakenFrom(d, user, amount)
      /\ \A e \in Domains \ {d} : balance'[e] = balance[e]
  BY DEF Deposit, TypeOK
<1>4. balance'[d][user] - balance[d][user] = - amount
      /\ \A x \in (Holders \ Handlers) \ {user} : balance'[d][x] = balance[d][x]
  <2>1. handlerOf[d] \in Handlers
    BY MappedHandler DEF Deposit
  <2>2. balance[d] \in [Holders -> Nat] /\ balance[d][user] \in Nat
    BY <1>1, <1>2
  <2> QED
    BY <1>1, <1>3, <2>1, <2>2 DEF TakenFrom
<1>5. worth \in Nat /\ OwnedOf(balance') = OwnedOf(balance) - worth
  <2>1. OwnedOf(balance')
            = OwnedOf(balance) + (balance'[d][user] - balance[d][user]) * Unit(d)
    BY <1>1, <1>2, <1>3, <1>4, OwnedMore
  <2>2. OwnedOf(balance') = OwnedOf(balance) + (- amount) * Unit(d)
    BY <1>4, <2>1
  <2>3. Unit(d) \in Nat /\ OwnedOf(balance) \in Nat
    BY Units, ValuesTypeOfState
  <2>4. worth \in Nat /\ (- amount) * Unit(d) = - worth
    BY <1>1, <2>3
  <2> HIDE DEF worth
  <2> QED
    BY <2>2, <2>3, <2>4
<1>6. PendingOf(deposits' \ executed') <= PendingOf(P) + worth
  <2> DEFINE n == ConvertToInternal(d, amount)
             told == n * ProposalUnit
  <2>1. t \in Transfer /\ t.amount = n /\ deposits' = deposits \cup {t}
        /\ executed' = executed
    BY DEF TypeOK, Deposit, NewTransfer
  <2>2. told \in Nat /\ told <= worth /\ worth \in Nat
    <3>1. n \in Nat /\ ProposalUnit \in Nat /\ 0 <= amount * Unit(d) - n * ProposalUnit
      BY <1>1, InternalValue, Units
    <3> HIDE DEF n
    <3>2. n * ProposalUnit \in Nat
      BY <3>1
    <3> QED
      BY <1>5, <3>1, <3>2
  <2>3. PendingOf(P) \in Nat
    BY ValuesTypeOfState
  <2>4. CASE t \in deposits \/ t \in executed
    <3>1. deposits' \ executed' = P
      BY <2>1, <2>4
    <3>2. PendingOf(deposits' \ executed') = PendingOf(P)
      BY <3>1, Zenon
    <3> HIDE DEF worth, told, P, n, t
    <3> QED
      BY <2>2, <2>3, <3>2
  <2>5. CASE t \notin deposits /\ t \notin executed
    <3>1. deposits' \ executed' = P \cup {t} /\ t \notin P
      BY <2>1, <2>5
    <3>2. IsFiniteSet(P) /\ P \subseteq Transfer
      BY FS_Subset DEF TypeOK, Announced
    <3> HIDE DEF P, t, n
    <3>3. PendingOf(P \cup {t}) = PendingOf(P) + told
      BY <2>1, <3>1, <3>2, PendingWithOne
    <3> HIDE DEF told, worth
    <3> QED
      BY <2>2, <2>3, <3>1, <3>3
  <2> QED
    BY <2>4, <2>5
<1>7. withdrawn' = withdrawn
  BY DEF Deposit
<1>8. OwnedOf(balance) + PendingOf(P) <= GivenOf(withdrawn)
  BY ValuesOf DEF NoValueCreated
<1>9. /\ OwnedOf(balance) \in Nat /\ PendingOf(P) \in Nat /\ GivenOf(withdrawn) \in Nat
      /\ OwnedOf(balance') \in Nat /\ PendingOf(deposits' \ executed') \in Nat
  BY DepositTypes, ValuesTypeOfState, ValuesTypeOfNext
<1> HIDE DEF P, worth
<1>10. OwnedOf(balance') + PendingOf(deposits' \ executed') <= GivenOf(withdrawn')
  BY <1>5, <1>6, <1>7, <1>8, <1>9
<1> QED
  BY <1>10, ValuesOf DEF NoValueCreated

\* An execution pays no more than the worth it takes out of those under way.
LEMMA ExecuteValue ==
    ASSUME TypeOK, Announced, TypeOK', NoValueCreated, NEW t \in deposits, ExecuteProposal(t)
    PROVE  NoValueCreated'
<1> DEFINE d == t.dest
           amount == ConvertToExternal(d, t.amount)
           worth == amount * Unit(d)
           told == t.amount * ProposalUnit
           P == deposits \ executed
           Q == deposits' \ executed'
<1>1. d \in Domains /\ Payee(t) \in Holders /\ amount \in Nat /\ t \in Transfer
      /\ t.amount \in Nat
  BY PayeeType DEF ExecuteProposal, Transfer
<1>2. /\ balance \in [Domains -> [Holders -> Nat]]
      /\ balance' \in [Domains -> [Holders -> Nat]]
  BY DEF TypeOK
<1>3. balance'[d] = PaidTo(t) /\ \A e \in Domains \ {d} : balance'[e] = balance[e]
  BY <1>1 DEF ExecuteProposal, TypeOK
<1>4. handlerOf[d] \in Handlers /\ balance[d] \in [Holders -> Nat]
  BY <1>1, <1>2, MappedHandler DEF ExecuteProposal
<1>5. worth \in Nat /\ worth <= told /\ told \in Nat
  <2>1. 0 <= told - worth /\ Unit(d) \in Nat /\ ProposalUnit \in Nat
    BY <1>1, ExternalValue, Units
  <2>2. worth \in Nat
    <3> HIDE DEF d, amount
    <3> QED
      BY <1>1, <2>1
  <2>3. told \in Nat
    BY <1>1, <2>1
  <2> HIDE DEF worth, told
  <2> QED
    BY <2>1, <2>2, <2>3
<1>6. OwnedOf(balance') <= OwnedOf(balance) + worth
  <2>1. OwnedOf(balance) \in Nat
    BY ValuesTypeOfState
  <2>2. CASE Payee(t) \in Handlers
    <3>1. \A x \in Holders \ Handlers : balance'[d][x] = balance[d][x]
      BY <1>3, <1>4, <2>2 DEF PaidTo
    <3>2. OwnedOf(balance') = OwnedOf(balance)
      BY <1>1, <1>2, <1>3, <3>1, OwnedSame
    <3> HIDE DEF worth
    <3> QED
      BY <1>5, <2>1, <3>2
  <2>3. CASE Payee(t) \notin Handlers
    <3>1. balance'[d][Payee(t)] - balance[d][Payee(t)] = amount
          /\ \A x \in (Holders \ Handlers) \ {Payee(t)} : balance'[d][x] = balance[d][x]
      BY <1>1, <1>3, <1>4, <2>3 DEF PaidTo
    <3>2. OwnedOf(balance') = OwnedOf(balance) + worth
      <4>1. Payee(t) \in Holders \ Handlers /\ \A e \in Domains \ {d} : balance'[e] = balance[e]
        BY <1>1, <1>3, <2>3
      <4> HIDE DEF d, amount
      <4>2. OwnedOf(balance') = OwnedOf(balance)
                + (balance'[d][Payee(t)] - balance[d][Payee(t)]) * Unit(d)
        BY <1>1, <1>2, <3>1, <4>1, OwnedMore
      <4> QED
        BY <3>1, <4>2
    <3> HIDE DEF worth
    <3> QED
      BY <1>5, <2>1, <3>2
  <2> QED
    BY <2>2, <2>3
<1>7. PendingOf(P) = PendingOf(Q) + told
  <2>1. t \notin executed /\ deposits' = deposits /\ executed' = executed \cup {t}
    BY DEF ExecuteProposal, IsExecuted
  <2>2. P = Q \cup {t} /\ t \notin Q /\ Q \subseteq deposits
    BY <2>1
  <2>3. IsFiniteSet(Q) /\ Q \subseteq Transfer
    BY <2>2, FS_Subset DEF TypeOK, Announced
  <2> HIDE DEF P, Q
  <2> QED
    BY <1>1, <2>2, <2>3, PendingWithOne
<1>8. withdrawn' = withdrawn
  BY DEF ExecuteProposal
<1>9. OwnedOf(balance) + PendingOf(P) <= GivenOf(withdrawn)
  BY ValuesOf DEF NoValueCreated
<1>10. /\ OwnedOf(balance) \in Nat /\ PendingOf(P) \in Nat /\ GivenOf(withdrawn) \in Nat
       /\ OwnedOf(balance') \in Nat /\ PendingOf(Q) \in Nat
  BY ExecuteTypes, ValuesTypeOfState, ValuesTypeOfNext
<1> HIDE DEF P, Q, worth, told
<1>11. OwnedOf(balance') + PendingOf(Q) <= GivenOf(withdrawn')
  BY <1>5, <1>6, <1>7, <1>8, <1>9, <1>10
<1> QED
  BY <1>11, ValuesOf DEF NoValueCreated, Q

\* A withdrawal to a handler moves nothing that counts; any other is given.
LEMMA WithdrawValue ==
    ASSUME TypeOK, Announced, TypeOK', NoValueCreated,
           NEW d \in Domains, NEW h \in Handlers, NEW to \in WithdrawTo,
           NEW amount \in Amounts, AdminWithdraw(d, h, to, amount)
    PROVE  NoValueCreated'
<1> DEFINE P == deposits \ executed
           worth == amount * Unit(d)
<1>1. amount \in Nat /\ to \in Holders /\ h \in Holders /\ to # h
  BY TransferAssumption DEF Holders, AdminWithdraw
<1>2. /\ balance \in [Domains -> [Holders -> Nat]]
      /\ balance' \in [Domains -> [Holders -> Nat]]
  BY DEF TypeOK
<1>3. /\ balance'[d] = [balance[d] EXCEPT ![h] = @ - amount, ![to] = @ + amount]
      /\ \A e \in Domains \ {d} : balance'[e] = balance[e]
  BY <1>1, <1>2 DEF AdminWithdraw
<1>4. balance[d] \in [Holders -> Nat]
  BY <1>2
<1>5. OwnedOf(balance') - OwnedOf(balance) = GivenOf(withdrawn') - GivenOf(withdrawn)
  <2>1. /\ OwnedOf(balance) \in Nat /\ GivenOf(withdrawn) \in Nat
        /\ withdrawn \in [Domains -> Nat]
    BY ValuesTypeOfState DEF TypeOK
  <2>2. CASE to \in Handlers
    <3>1. \A x \in Holders \ Handlers : balance'[d][x] = balance[d][x]
      BY <1>1, <1>3, <1>4, <2>2
    <3>2. OwnedOf(balance') = OwnedOf(balance)
      BY <1>2, <1>3, <3>1, OwnedSame
    <3>3. withdrawn' = withdrawn
      BY <2>2 DEF AdminWithdraw
    <3> QED
      BY <2>1, <3>2, <3>3
  <2>3. CASE to \notin Handlers
    <3>1. balance'[d][to] - balance[d][to] = amount
          /\ \A x \in (Holders \ Handlers) \ {to} : balance'[d][x] = balance[d][x]
      BY <1>1, <1>3, <1>4
    <3>2. OwnedOf(balance') = OwnedOf(balance) + worth /\ worth \in Nat
      <4>1. to \in Holders \ Handlers /\ \A e \in Domains \ {d} : balance'[e] = balance[e]
        BY <1>1, <1>3, <2>3
      <4>2. OwnedOf(balance') = OwnedOf(balance)
                + (balance'[d][to] - balance[d][to]) * Unit(d)
        BY <1>2, <3>1, <4>1, OwnedMore
      <4>3. OwnedOf(balance') = OwnedOf(balance) + worth
        BY <3>1, <4>2
      <4>4. worth \in Nat
        BY <1>1, Units
      <4> QED
        BY <4>3, <4>4
    <3>3. withdrawn' = [withdrawn EXCEPT ![d] = @ + amount]
      BY <2>3 DEF AdminWithdraw
    <3>4. GivenOf(withdrawn') = GivenOf(withdrawn) + worth
      BY <1>1, <2>1, <3>3, GivenChanged
    <3> HIDE DEF worth
    <3> QED
      BY <2>1, <3>2, <3>4
  <2> QED
    BY <2>2, <2>3
<1>6. deposits' \ executed' = P
  BY DEF AdminWithdraw
<1>7. PendingOf(deposits' \ executed') = PendingOf(P)
  BY <1>6, Zenon
<1>8. OwnedOf(balance) + PendingOf(P) <= GivenOf(withdrawn)
  BY ValuesOf DEF NoValueCreated
<1>9. /\ OwnedOf(balance) \in Nat /\ PendingOf(P) \in Nat /\ GivenOf(withdrawn) \in Nat
      /\ OwnedOf(balance') \in Nat /\ GivenOf(withdrawn') \in Nat
  BY WithdrawTypes, ValuesTypeOfState, ValuesTypeOfNext
<1> HIDE DEF P
<1>10. OwnedOf(balance') + PendingOf(deposits' \ executed') <= GivenOf(withdrawn')
  BY <1>5, <1>7, <1>8, <1>9
<1> QED
  BY <1>10, ValuesOf DEF NoValueCreated

\* The other steps change none of the three values.
LEMMA ValuesKept ==
    ASSUME NoValueCreated, UNCHANGED <<balance, deposits, executed, withdrawn>>
    PROVE  NoValueCreated'
BY ValuesOf DEF NoValueCreated

\* However many domains there are, whatever their decimals, handlers and flags and
\* however the admin changes them, deposits and executions create no value: what
\* people own and what is under way is covered by what they owned at the start and
\* what the admin took out of handlers.
THEOREM ValueIsNotCreated == Spec => []NoValueCreated
<1> DEFINE Inv == TypeOK /\ Announced /\ NoValueCreated
<1>1. Init => Inv
  BY TypesAtStart, ValueAtStart
<1>2. Inv /\ [Next]_vars => Inv'
  <2> SUFFICES ASSUME TypeOK, Announced, NoValueCreated, [Next]_vars
               PROVE  TypeOK' /\ Announced' /\ NoValueCreated'
    OBVIOUS
  <2>1. TypeOK' /\ Announced'
    BY TypesInductive
  <2>2. ASSUME NEW d \in Domains, NEW dest \in Domains, NEW u \in Users,
               NEW n \in Amounts, NEW r \in Recipients, NEW m \in Messages,
               Deposit(d, u, dest, n, r, m)
        PROVE  NoValueCreated'
    BY <2>1, <2>2, DepositValue
  <2>3. ASSUME NEW t \in deposits, ExecuteProposal(t) PROVE NoValueCreated'
    BY <2>1, <2>3, ExecuteValue
  <2>4. ASSUME NEW u \in Upgrades, AdminSetResource(u[1], u[2]) PROVE NoValueCreated'
    BY <2>4, ValuesKept DEF AdminSetResource
  <2>5. ASSUME NEW d \in Burnable, NEW h \in Handlers, AdminSetBurnable(d, h)
        PROVE  NoValueCreated'
    BY <2>5, ValuesKept DEF AdminSetBurnable
  <2>6. ASSUME NEW d \in Domains, NEW h \in Handlers, NEW a \in WithdrawTo,
               NEW n \in Amounts, AdminWithdraw(d, h, a, n)
        PROVE  NoValueCreated'
    BY <2>1, <2>6, WithdrawValue
  <2>7. ASSUME NEW d \in Domains, AdminTogglePause(d) PROVE NoValueCreated'
    BY <2>7, ValuesKept DEF AdminTogglePause
  <2>8. ASSUME UNCHANGED vars PROVE NoValueCreated'
    BY <2>8, ValuesKept DEF vars
  <2>9. ASSUME NEW t \in deposits, PayeeChangesAnswer(t) PROVE NoValueCreated'
    BY <2>9, ValuesKept DEF PayeeChangesAnswer
  <2>10. NoValueCreated'
    BY <2>2, <2>3, <2>4, <2>5, <2>6, <2>7, <2>8, <2>9 DEF Next
  <2> QED
    BY <2>1, <2>10
<1> QED
  BY <1>1, <1>2, PTL DEF Spec

-----------------------------------------------------------------------------
(* Each domain's Bridge keeps its ledger. *)

\* Two transfers executed on a domain answer different deposits.
OncePerDeposit ==
    \A e, f \in executed :
        e.dest = f.dest /\ e.origin = f.origin /\ e.nonce = f.nonce => e = f

\* An execution keeps to one proposal for each deposit.
LEMMA ExecutesOnce ==
    ASSUME OncePerDeposit, NEW t, ExecuteProposal(t)
    PROVE  OncePerDeposit'
BY DEF OncePerDeposit, ExecuteProposal, IsExecuted

\* A step that announces only deposits the domain can announce, and delivers at
\* most one signed proposal for each deposit, is a transaction of its Bridge.
LEMMA ATransaction ==
    ASSUME TypeOK, TypeOK', OncePerDeposit', NEW d \in Domains, ~paused[d],
           paused' = paused, deposits \subseteq deposits', executed \subseteq executed'
    PROVE  Ledger(d)!Transaction
<1>1. {t \in executed : t.dest = d} \subseteq {t \in executed : t.dest = d}'
  OBVIOUS
<1>2. {t \in executed : t.dest = d}' \ {t \in executed : t.dest = d}
          \subseteq {t \in Transfer : t.dest = d}
  BY DEF TypeOK
<1>3. Ledger(d)!OnePerDeposit({t \in executed : t.dest = d}')
  BY DEF Ledger!OnePerDeposit, OncePerDeposit
<1>4. {<<t.dest, t.nonce>> : t \in {u \in deposits : u.origin = d}}
          \subseteq {<<t.dest, t.nonce>> : t \in {u \in deposits : u.origin = d}}'
  OBVIOUS
<1>5. {<<t.dest, t.nonce>> : t \in {u \in deposits : u.origin = d}}'
          \subseteq Domains \X (1 .. MaxNonce)
  BY DEF TypeOK, Transfer
<1>6. paused[d]' \in BOOLEAN /\ UNCHANGED "mpc"
  BY DEF TypeOK
<1> QED
  BY <1>1, <1>2, <1>3, <1>4, <1>5, <1>6 DEF Ledger!Transaction

\* A step that changes neither the deposits, nor the executed ones, nor whether a
\* domain's Bridge is paused, leaves its ledger as it is.
LEMMA NoTransaction ==
    ASSUME NEW d \in Domains, paused[d]' = paused[d], UNCHANGED <<deposits, executed>>
    PROVE  UNCHANGED Ledger(d)!ledger
BY DEF Ledger!ledger

\* A deposit and an execution are a transaction of the Bridge where they happen.
\* Seen from another domain's Bridge they change nothing.
LEMMA StepKeepsLedgers ==
    ASSUME TypeOK, Announced, OncePerDeposit, [Next]_vars, NEW d \in Domains
    PROVE  Ledger(d)!Next \/ UNCHANGED Ledger(d)!ledger
<1>1. TypeOK'
  BY TypesInductive
<1>2. ASSUME NEW o \in Domains, NEW dest \in Domains, NEW u \in Users, NEW n \in Amounts,
             NEW r \in Recipients, NEW m \in Messages, Deposit(o, u, dest, n, r, m)
      PROVE  Ledger(d)!Next \/ UNCHANGED Ledger(d)!ledger
  <2>1. UNCHANGED <<paused, executed>> /\ deposits \subseteq deposits' /\ OncePerDeposit'
    BY <1>2 DEF Deposit, OncePerDeposit
  <2>2. CASE d = o
    <3>1. ~paused[d]
      BY <1>2, <2>2 DEF Deposit
    <3>2. Ledger(d)!Transaction
      BY <1>1, <2>1, <3>1, ATransaction
    <3> QED
      BY <3>2 DEF Ledger!Next
  <2>3. CASE d # o
    <3>1. {u2 \in deposits : u2.origin = d}' = {u2 \in deposits : u2.origin = d}
      BY <1>2, <2>3 DEF Deposit
    <3> QED
      BY <2>1, <3>1 DEF Ledger!ledger
  <2> QED
    BY <2>2, <2>3
<1>3. ASSUME NEW t \in deposits, ExecuteProposal(t)
      PROVE  Ledger(d)!Next \/ UNCHANGED Ledger(d)!ledger
  <2>1. UNCHANGED <<paused, deposits>> /\ executed' = executed \cup {t}
    BY <1>3 DEF ExecuteProposal
  <2>2. OncePerDeposit'
    BY <1>3, ExecutesOnce
  <2>3. CASE d = t.dest
    <3>1. ~paused[d]
      BY <1>3, <2>3 DEF ExecuteProposal
    <3>2. Ledger(d)!Transaction
      BY <1>1, <2>1, <2>2, <3>1, ATransaction
    <3> QED
      BY <3>2 DEF Ledger!Next
  <2>4. CASE d # t.dest
    <3>1. {e \in executed : e.dest = d}' = {e \in executed : e.dest = d}
      BY <2>1, <2>4
    <3> QED
      BY <2>1, <3>1 DEF Ledger!ledger
  <2> QED
    BY <2>3, <2>4
<1>4. ASSUME NEW u \in Upgrades, AdminSetResource(u[1], u[2])
      PROVE  UNCHANGED Ledger(d)!ledger
  BY <1>4, NoTransaction DEF AdminSetResource
<1>5. ASSUME NEW e \in Burnable, NEW h \in Handlers, AdminSetBurnable(e, h)
      PROVE  UNCHANGED Ledger(d)!ledger
  BY <1>5, NoTransaction DEF AdminSetBurnable
<1>6. ASSUME NEW e \in Domains, NEW h \in Handlers, NEW a \in WithdrawTo, NEW n \in Amounts,
             AdminWithdraw(e, h, a, n)
      PROVE  UNCHANGED Ledger(d)!ledger
  BY <1>6, NoTransaction DEF AdminWithdraw
<1>7. ASSUME NEW e \in Domains, AdminTogglePause(e)
      PROVE  Ledger(d)!Next \/ UNCHANGED Ledger(d)!ledger
  <2>1. UNCHANGED <<deposits, executed>> /\ paused' = [paused EXCEPT ![e] = ~@]
    BY <1>7 DEF AdminTogglePause
  <2>2. paused[d] \in BOOLEAN /\ paused \in [Domains -> BOOLEAN]
    BY DEF TypeOK
  <2>3. CASE d = e /\ paused[d]
    <3>1. paused[d]' = FALSE
      BY <2>1, <2>2, <2>3
    <3>2. Ledger(d)!Unpause
      BY <2>1, <2>3, <3>1 DEF Ledger!Unpause
    <3> QED
      BY <3>2 DEF Ledger!Next
  <2>4. CASE d = e /\ ~paused[d]
    <3>1. paused[d]' = TRUE
      BY <2>1, <2>2, <2>4
    <3>2. Ledger(d)!Pause
      BY <2>1, <2>4, <3>1 DEF Ledger!Pause
    <3> QED
      BY <3>2 DEF Ledger!Next
  <2>5. CASE d # e
    <3>1. paused[d]' = paused[d]
      BY <2>1, <2>2, <2>5
    <3> QED
      BY <2>1, <3>1, NoTransaction
  <2> QED
    BY <2>3, <2>4, <2>5
<1>8. ASSUME UNCHANGED vars PROVE UNCHANGED Ledger(d)!ledger
  BY <1>8, NoTransaction DEF vars
<1>9. ASSUME NEW t \in deposits, PayeeChangesAnswer(t) PROVE UNCHANGED Ledger(d)!ledger
  BY <1>9, NoTransaction DEF PayeeChangesAnswer
<1> QED
  BY <1>2, <1>3, <1>4, <1>5, <1>6, <1>7, <1>8, <1>9 DEF Next

\* Between any number of domains, whatever the relayers submit, every step is for
\* each domain's Bridge one that the abstract ledger allows: a paused Bridge
\* delivers and announces nothing, and each deposit is delivered at most once.
THEOREM LedgersAreKept == Spec => BridgesKeepLedgers
<1>1. Init => OncePerDeposit
  BY DEF Init, OncePerDeposit
<1>2. OncePerDeposit /\ [Next]_vars => OncePerDeposit'
  <2> SUFFICES ASSUME OncePerDeposit, [Next]_vars PROVE OncePerDeposit'
    OBVIOUS
  <2>1. ASSUME NEW t \in deposits, ExecuteProposal(t) PROVE OncePerDeposit'
    BY <2>1, ExecutesOnce
  <2>2. executed' = executed => OncePerDeposit'
    BY DEF OncePerDeposit
  <2>3. ASSUME UNCHANGED vars \/ \E t \in deposits : PayeeChangesAnswer(t)
        PROVE  executed' = executed
    BY <2>3 DEF vars, PayeeChangesAnswer
  <2>4. ASSUME NEW d \in Domains, NEW u \in Users, NEW dest \in Domains, NEW n \in Amounts,
               NEW r \in Recipients, NEW m \in Messages, Deposit(d, u, dest, n, r, m)
        PROVE  executed' = executed
    BY <2>4 DEF Deposit
  <2>5. ASSUME NEW u \in Upgrades, AdminSetResource(u[1], u[2]) PROVE executed' = executed
    BY <2>5 DEF AdminSetResource
  <2>6. ASSUME NEW d \in Burnable, NEW h \in Handlers, AdminSetBurnable(d, h)
        PROVE  executed' = executed
    BY <2>6 DEF AdminSetBurnable
  <2>7. ASSUME NEW d \in Domains, NEW h \in Handlers, NEW a \in WithdrawTo, NEW n \in Amounts,
               AdminWithdraw(d, h, a, n)
        PROVE  executed' = executed
    BY <2>7 DEF AdminWithdraw
  <2>8. ASSUME NEW d \in Domains, AdminTogglePause(d) PROVE executed' = executed
    BY <2>8 DEF AdminTogglePause
  <2> QED
    BY <2>1, <2>2, <2>3, <2>4, <2>5, <2>6, <2>7, <2>8 DEF Next
<1>3. TypeOK /\ Announced /\ OncePerDeposit /\ [Next]_vars
          => [\A d \in Domains : Ledger(d)!Next \/ UNCHANGED Ledger(d)!ledger]_vars
  BY StepKeepsLedgers
<1> QED
  BY <1>1, <1>2, <1>3, TypeCorrect, PTL DEF Spec, BridgesKeepLedgers
=============================================================================
