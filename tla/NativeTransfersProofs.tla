------------------------ MODULE NativeTransfersProofs ------------------------
(***************************************************************************)
(* Proofs about NativeTransfers, for any number of domains, users and      *)
(* handlers, any decimals, any fees and any deposits, payments and         *)
(* withdrawals.                                                            *)
(***************************************************************************)
EXTENDS NativeTransfers, RecursionTheorems

-----------------------------------------------------------------------------
(* What the conversions keep. *)

\* Worth satisfies its recursion: the powers of Base are positive, and the power
\* of a sum is a product.
LEMMA Worths ==
    /\ Worth \in [0 .. MaxDecimals -> Nat \ {0}]
    /\ \A i, j \in Nat : i + j <= MaxDecimals => Worth[i + j] = Worth[i] * Worth[j]
<1>1. IsPower(Worth, Base, MaxDecimals)
  BY DecimalsAssumption, PowerExists DEF Worth, IsPower
<1> QED
  BY <1>1, DecimalsAssumption, PowerType, PowerProduct

\* The unit of a domain divides that of the proposals, or the other way round.
LEMMA Units ==
    ASSUME NEW d \in Domains
    PROVE  /\ Unit(d) \in Nat \ {0}
           /\ ProposalUnit \in Nat \ {0}
           /\ Decimals[d] >= DefaultDecimals =>
                  /\ Worth[Decimals[d] - DefaultDecimals] \in Nat \ {0}
                  /\ ProposalUnit = Unit(d) * Worth[Decimals[d] - DefaultDecimals]
           /\ ~ (Decimals[d] >= DefaultDecimals) =>
                  /\ Worth[DefaultDecimals - Decimals[d]] \in Nat \ {0}
                  /\ Unit(d) = ProposalUnit * Worth[DefaultDecimals - Decimals[d]]
<1> DEFINE o == Decimals[d]
           w == DefaultDecimals
           m == MaxDecimals
<1>1. o \in 0 .. m /\ w \in 0 .. m /\ m \in Nat
  BY DecimalsAssumption
<1> HIDE DEF o, w, m
<1>2. m - o \in 0 .. m /\ m - w \in 0 .. m
  BY <1>1
<1>3. Worth[m - o] \in Nat \ {0} /\ Worth[m - w] \in Nat \ {0}
  BY <1>2, Worths DEF m
<1>4. ASSUME o >= w
      PROVE  Worth[o - w] \in Nat \ {0} /\ Worth[m - w] = Worth[m - o] * Worth[o - w]
  <2>1. m - o \in Nat /\ o - w \in Nat /\ (m - o) + (o - w) = m - w /\ m - w <= m
        /\ o - w \in 0 .. m
    BY <1>1, <1>4
  <2> QED
    BY <2>1, Worths DEF m
<1>5. ASSUME ~ (o >= w)
      PROVE  Worth[w - o] \in Nat \ {0} /\ Worth[m - o] = Worth[m - w] * Worth[w - o]
  <2>1. m - w \in Nat /\ w - o \in Nat /\ (m - w) + (w - o) = m - o /\ m - o <= m
        /\ w - o \in 0 .. m
    BY <1>1, <1>5
  <2> QED
    BY <2>1, Worths DEF m
<1> QED
  BY <1>3, <1>4, <1>5 DEF Unit, ProposalUnit, o, w, m

\* A deposit is announced with no more than its worth.
LEMMA InternalWorth ==
    ASSUME NEW d \in Domains, NEW a \in Nat
    PROVE  /\ ConvertToInternal(d, a) \in Nat
           /\ ConvertToInternal(d, a) * ProposalUnit <= a * Unit(d)
<1>1. CASE Decimals[d] >= DefaultDecimals
  <2> DEFINE k == Worth[Decimals[d] - DefaultDecimals]
             n == a \div k
  <2>1. k \in Nat \ {0} /\ Unit(d) \in Nat \ {0} /\ ProposalUnit = Unit(d) * k
    BY <1>1, Units
  <2>2. ConvertToInternal(d, a) = n
    BY <1>1 DEF ConvertToInternal
  <2> HIDE DEF k
  <2>3. n \in Nat /\ 0 <= a * Unit(d) - n * (Unit(d) * k)
    BY <2>1, Rounding
  <2> HIDE DEF n
  <2>4. a * Unit(d) \in Nat /\ n * (Unit(d) * k) \in Nat
    BY <2>1, <2>3
  <2> QED
    BY <2>1, <2>2, <2>3, <2>4
<1>2. CASE ~ (Decimals[d] >= DefaultDecimals)
  <2> DEFINE k == Worth[DefaultDecimals - Decimals[d]]
  <2>1. k \in Nat /\ ProposalUnit \in Nat /\ Unit(d) = ProposalUnit * k
    BY <1>2, Units
  <2>2. ConvertToInternal(d, a) = a * k
    BY <1>2 DEF ConvertToInternal
  <2> HIDE DEF k
  <2>3. a * (ProposalUnit * k) = (a * k) * ProposalUnit
    BY <2>1
  <2>4. a * k \in Nat /\ (a * k) * ProposalUnit \in Nat
    BY <2>1
  <2> QED
    BY <2>1, <2>2, <2>3, <2>4
<1> QED
  BY <1>1, <1>2

\* Nor is it paid more.
LEMMA ExternalWorth ==
    ASSUME NEW d \in Domains, NEW n \in Nat
    PROVE  /\ ConvertToExternal(d, n) \in Nat
           /\ ConvertToExternal(d, n) * Unit(d) <= n * ProposalUnit
<1>1. CASE Decimals[d] >= DefaultDecimals
  <2> DEFINE k == Worth[Decimals[d] - DefaultDecimals]
  <2>1. k \in Nat /\ Unit(d) \in Nat /\ ProposalUnit = Unit(d) * k
    BY <1>1, Units
  <2>2. ConvertToExternal(d, n) = n * k
    BY <1>1 DEF ConvertToExternal
  <2> HIDE DEF k
  <2>3. n * (Unit(d) * k) = (n * k) * Unit(d)
    BY <2>1
  <2>4. n * k \in Nat /\ (n * k) * Unit(d) \in Nat
    BY <2>1
  <2> QED
    BY <2>1, <2>2, <2>3, <2>4
<1>2. CASE ~ (Decimals[d] >= DefaultDecimals)
  <2> DEFINE k == Worth[DefaultDecimals - Decimals[d]]
             a == n \div k
  <2>1. k \in Nat \ {0} /\ ProposalUnit \in Nat \ {0} /\ Unit(d) = ProposalUnit * k
    BY <1>2, Units
  <2>2. ConvertToExternal(d, n) = a
    BY <1>2 DEF ConvertToExternal
  <2> HIDE DEF k
  <2>3. a \in Nat /\ 0 <= n * ProposalUnit - a * (ProposalUnit * k)
    BY <2>1, Rounding
  <2> HIDE DEF a
  <2>4. n * ProposalUnit \in Nat /\ a * (ProposalUnit * k) \in Nat
    BY <2>1, <2>3
  <2> QED
    BY <2>1, <2>2, <2>3, <2>4
<1> QED
  BY <1>1, <1>2

-----------------------------------------------------------------------------
(* Sums of coins, of any balances and withdrawals. *)

HeldOf(row) == SumFunctionOnSet(row, Handlers)

CoinsOf(b, w) ==
    SumFunctionOnSet([d \in Domains |-> (HeldOf(b[d]) + w[d]) * Unit(d)], Domains)

OwedOf(P) == SumFunctionOnSet([t \in P |-> t.amount * ProposalUnit], P)

\* They are those of the property, before and after a step.
LEMMA ValuesOf ==
    /\ UnpaidValue = OwedOf(Unpaid) /\ UnpaidValue' = OwedOf(Unpaid')
    /\ CoinsValue = CoinsOf(coins, withdrawn)
    /\ CoinsValue' = CoinsOf(coins', withdrawn')
BY DEF UnpaidValue, CoinsValue, OwedOf, CoinsOf, HeldOf, SumFunction

\* What the handlers of a domain own is a natural, and theirs alone.
LEMMA HeldSame ==
    ASSUME NEW r \in [Holders -> Nat], NEW s \in [Holders -> Nat],
           \A h \in Handlers : s[h] = r[h]
    PROVE  HeldOf(r) \in Nat /\ HeldOf(s) = HeldOf(r)
<1>1. IsFiniteSet(Handlers) /\ \A h \in Handlers : r[h] \in Nat
  BY NativeAssumption DEF Holders
<1> QED
  BY <1>1, SumIsNat, SumOfSame DEF HeldOf

\* It changes with what one of them owns.
LEMMA HeldChanged ==
    ASSUME NEW r \in [Holders -> Nat], NEW s \in [Holders -> Nat],
           NEW a \in Handlers, \A h \in Handlers \ {a} : s[h] = r[h]
    PROVE  HeldOf(s) = HeldOf(r) + (s[a] - r[a])
<1>1. /\ IsFiniteSet(Handlers)
      /\ \A h \in Handlers : r[h] \in Int
      /\ \A h \in Handlers : s[h] \in Int
  BY NativeAssumption DEF Holders
<1> QED
  BY <1>1, SumUpdated DEF HeldOf

\* What one of them gives to another they keep.
LEMMA HeldMoved ==
    ASSUME NEW r \in [Holders -> Nat], NEW s \in [Holders -> Nat], NEW n \in Nat,
           NEW a \in Handlers, NEW b \in Handlers, a # b,
           s[a] = r[a] - n, s[b] = r[b] + n,
           \A h \in Handlers \ {a, b} : s[h] = r[h]
    PROVE  HeldOf(s) = HeldOf(r)
<1>1. /\ IsFiniteSet(Handlers)
      /\ \A h \in Handlers : r[h] \in Int
  BY NativeAssumption DEF Holders
<1> QED
  BY <1>1, SumMoved DEF HeldOf

\* All handlers and the admin own more by what they own more on one domain.
LEMMA CoinsChanged ==
    ASSUME NEW b \in [Domains -> [Holders -> Nat]], NEW c \in [Domains -> [Holders -> Nat]],
           NEW w \in [Domains -> Nat], NEW v \in [Domains -> Nat], NEW d \in Domains,
           \A e \in Domains \ {d} : c[e] = b[e],
           \A e \in Domains \ {d} : v[e] = w[e]
    PROVE  /\ CoinsOf(b, w) \in Nat
           /\ CoinsOf(c, v) = CoinsOf(b, w)
                  + ((HeldOf(c[d]) + v[d]) - (HeldOf(b[d]) + w[d])) * Unit(d)
<1> DEFINE f == [e \in Domains |-> (HeldOf(b[e]) + w[e]) * Unit(e)]
           g == [e \in Domains |-> (HeldOf(c[e]) + v[e]) * Unit(e)]
<1>1. \A e \in Domains : /\ HeldOf(b[e]) + w[e] \in Nat
                          /\ HeldOf(c[e]) + v[e] \in Nat
                          /\ Unit(e) \in Nat
  <2> SUFFICES ASSUME NEW e \in Domains
               PROVE  /\ HeldOf(b[e]) + w[e] \in Nat
                      /\ HeldOf(c[e]) + v[e] \in Nat
                      /\ Unit(e) \in Nat
    OBVIOUS
  <2>1. b[e] \in [Holders -> Nat] /\ c[e] \in [Holders -> Nat] /\ Unit(e) \in Nat
    BY Units
  <2>2. HeldOf(b[e]) \in Nat /\ HeldOf(c[e]) \in Nat
    BY <2>1, HeldSame
  <2>3. w[e] \in Nat /\ v[e] \in Nat
    OBVIOUS
  <2> QED
    BY <2>1, <2>2, <2>3
<1>2. \A e \in Domains : f[e] \in Nat /\ g[e] \in Nat
  <2>1. \A x, y \in Nat : x * y \in Nat
    OBVIOUS
  <2> QED
    BY <1>1, <2>1
<1>3. \A e \in Domains \ {d} : g[e] = f[e]
  OBVIOUS
<1>4. f[d] = (HeldOf(b[d]) + w[d]) * Unit(d) /\ g[d] = (HeldOf(c[d]) + v[d]) * Unit(d)
  OBVIOUS
<1>5. IsFiniteSet(Domains)
  BY NativeAssumption
<1>6. CoinsOf(b, w) = SumFunctionOnSet(f, Domains) /\ CoinsOf(c, v) = SumFunctionOnSet(g, Domains)
  BY DEF CoinsOf
<1> HIDE DEF f, g
<1>7. SumFunctionOnSet(f, Domains) \in Nat
  BY <1>2, <1>5, SumIsNat
<1>8. SumFunctionOnSet(g, Domains) = SumFunctionOnSet(f, Domains) + (g[d] - f[d])
  <2>1. (\A e \in Domains : f[e] \in Int) /\ (\A e \in Domains : g[e] \in Int)
    BY <1>2
  <2> QED
    BY <2>1, <1>3, <1>5, SumUpdated
<1>9. g[d] - f[d] = ((HeldOf(c[d]) + v[d]) - (HeldOf(b[d]) + w[d])) * Unit(d)
  <2>1. \A x, y, z \in Nat : x * z - y * z = (x - y) * z
    OBVIOUS
  <2> QED
    BY <1>1, <1>4, <2>1
<1> QED
  BY <1>6, <1>7, <1>8, <1>9

\* What is owed is a natural, and grows by the amount of a further transfer.
LEMMA OwedWithOne ==
    ASSUME NEW P, IsFiniteSet(P), P \subseteq Transfer, NEW t \in Transfer, t \notin P
    PROVE  /\ OwedOf(P) \in Nat
           /\ OwedOf(P \cup {t}) = OwedOf(P) + t.amount * ProposalUnit
<1> DEFINE Q == P \cup {t}
           f == [u \in P |-> u.amount * ProposalUnit]
           g == [u \in Q |-> u.amount * ProposalUnit]
<1>1. \A u \in Q : u.amount * ProposalUnit \in Nat
  <2> SUFFICES ASSUME NEW u \in Q PROVE u.amount * ProposalUnit \in Nat
    OBVIOUS
  <2>1. u.amount \in Nat /\ u.origin \in Domains
    BY DEF Transfer
  <2>2. ProposalUnit \in Nat
    BY <2>1, Units
  <2>3. \A x, y \in Nat : x * y \in Nat
    OBVIOUS
  <2> QED
    BY <2>1, <2>2, <2>3
<1>2. SumFunctionOnSet(f, P) \in Nat
  BY <1>1, SumIsNat
<1>3. SumFunctionOnSet(g, P) = SumFunctionOnSet(f, P)
  BY SumOfSame
<1>4. SumFunctionOnSet(g, Q) = g[t] + SumFunctionOnSet(g, P)
  <2>1. \A u \in P \cup {t} : g[u] \in Int
    BY <1>1
  <2> HIDE DEF g
  <2> QED
    BY <2>1, SumWithOne
<1>5. g[t] = t.amount * ProposalUnit /\ g[t] \in Nat
  BY <1>1
<1>6. OwedOf(P) = SumFunctionOnSet(f, P) /\ OwedOf(Q) = SumFunctionOnSet(g, Q)
  BY DEF OwedOf
<1> HIDE DEF f, g
<1> QED
  BY <1>2, <1>3, <1>4, <1>5, <1>6

-----------------------------------------------------------------------------
(* Payments on one domain. *)

\* The contracts that own coins are different ones, and no users.
LEMMA Distinct ==
    /\ \A u \in Users : u \notin Handlers \cup {Adapter, FeeHandler}
    /\ \A h \in Handlers : h \notin {Unmapped, Adapter, FeeHandler}
    /\ Adapter # FeeHandler
BY NativeAssumption

\* A mapped resource has one of the domain's handlers.
LEMMA MappedHandler ==
    ASSUME TypeOK, NEW d \in Domains, handlerOf[d] # Unmapped
    PROVE  handlerOf[d] \in Handlers /\ handlerOf[d] \in Holders
BY DEF TypeOK, Holders

\* A payment of what the payer owns leaves balances that are no less than 0, and
\* all but payer and payee as they were; a payment to oneself changes nothing.
LEMMA PaidRow ==
    ASSUME TypeOK, NEW d \in Domains, NEW a \in Holders, NEW b \in Holders,
           NEW n \in Nat, n <= coins[d][a]
    PROVE  /\ Paid(d, a, b, n) \in [Holders -> Nat]
           /\ coins[d] \in [Holders -> Nat]
           /\ \A x \in Holders \ {a, b} : Paid(d, a, b, n)[x] = coins[d][x]
           /\ a # b => /\ Paid(d, a, b, n)[a] = coins[d][a] - n
                       /\ Paid(d, a, b, n)[b] = coins[d][b] + n
           /\ a = b => Paid(d, a, b, n)[a] = coins[d][a]
<1> DEFINE r == coins[d]
<1>1. r \in [Holders -> Nat] /\ n <= r[a]
  BY DEF TypeOK
<1> DEFINE s == [r EXCEPT ![a] = @ - n]
<1>2. s \in [Holders -> Nat] /\ s[a] = r[a] - n /\ \A x \in Holders \ {a} : s[x] = r[x]
  <2> HIDE DEF r
  <2> QED
    BY <1>1
<1>3. Paid(d, a, b, n) = [s EXCEPT ![b] = @ + n]
  BY DEF Paid
<1> HIDE DEF r, s
<1>4. /\ Paid(d, a, b, n) \in [Holders -> Nat]
      /\ Paid(d, a, b, n)[b] = s[b] + n
      /\ \A x \in Holders \ {b} : Paid(d, a, b, n)[x] = s[x]
  BY <1>2, <1>3
<1>5. /\ \A x \in Holders \ {a, b} : Paid(d, a, b, n)[x] = r[x]
      /\ a # b => /\ Paid(d, a, b, n)[a] = r[a] - n
                  /\ Paid(d, a, b, n)[b] = r[b] + n
      /\ a = b => Paid(d, a, b, n)[a] = r[a]
  BY <1>1, <1>2, <1>4
<1> QED
  BY <1>1, <1>4, <1>5 DEF r

\* The fee handler still owns the fees that are due if it does on the one domain
\* where somebody is paid.
LEMMA FeesKept ==
    ASSUME TypeOK, FeesAsQuoted, NEW d \in Domains,
           due' \in [Domains -> Nat],
           \A e \in Domains \ {d} : due'[e] = due[e],
           \E row \in [Holders -> Nat] : /\ coins' = [coins EXCEPT ![d] = row]
                                         /\ row[FeeHandler] = due'[d]
    PROVE  /\ coins' \in [Domains -> [Holders -> Nat]]
           /\ FeesAsQuoted'
<1>1. PICK row \in [Holders -> Nat] : /\ coins' = [coins EXCEPT ![d] = row]
                                      /\ row[FeeHandler] = due'[d]
  OBVIOUS
<1>2. /\ coins' \in [Domains -> [Holders -> Nat]]
      /\ coins'[d] = row
      /\ \A e \in Domains \ {d} : coins'[e] = coins[e]
  BY <1>1 DEF TypeOK
<1> QED
  BY <1>1, <1>2 DEF FeesAsQuoted

-----------------------------------------------------------------------------
(* The types, and the fees. *)

\* There are finitely many deposits.
Announced == IsFiniteSet(deposits)

LEMMA DepositCountType ==
    ASSUME Announced, NEW d, NEW dest
    PROVE  DepositCount(d, dest) \in Nat
<1>1. IsFiniteSet({t \in deposits : t.origin = d /\ t.dest = dest})
  BY FS_Subset DEF Announced
<1> QED
  BY <1>1, FS_CardinalityType DEF DepositCount

\* What is asked of a sender is a natural, and what the fee handler keeps of the
\* coins it accepts.
LEMMA QuoteType ==
    ASSUME TypeOK, NEW d \in Domains, NEW sender
    PROVE  fee[d] \in Nat /\ Quote(d, sender) \in Nat
<1>1. Fees \cup {0} \subseteq Nat
  <2>1. Fees \subseteq Nat
    BY NativeAssumption
  <2> QED
    BY <2>1
<1>2. fee[d] \in Fees \cup {0}
  BY DEF TypeOK
<1>3. fee[d] \in Nat
  BY <1>1, <1>2
<1> QED
  BY <1>3 DEF Quote

LEMMA QuoteKept ==
    ASSUME TypeOK, NEW d \in Domains, NEW sender, NEW value \in Nat,
           Accepts(d, sender, value)
    PROVE  /\ value - Excess(d, sender, value) = Quote(d, sender)
           /\ Quote(d, sender) \in Nat
           /\ Quote(d, sender) <= value
<1>1. fee[d] \in Nat
  BY QuoteType
<1>2. FeeKind[d] \in {"basic", "twap"}
  BY NativeAssumption
<1> QED
  BY <1>1, <1>2 DEF Quote, Accepts, Excess

LEMMA TypesAtStart == Init => TypeOK /\ Announced /\ FeesAsQuoted
<1> SUFFICES ASSUME Init PROVE TypeOK /\ Announced /\ FeesAsQuoted
  OBVIOUS
<1>1. TypeOK
  BY NativeAssumption DEF Init, TypeOK
<1>2. Announced
  BY FS_EmptySet DEF Init, Announced
<1>3. FeesAsQuoted
  BY Distinct DEF Init, FeesAsQuoted, Holders
<1> QED
  BY <1>1, <1>2, <1>3

\* The balances that a deposit through the adapter leaves, where the handler is h,
\* the fee is paid and what is left over in the adapter is sent back.
Deposited(d, user, h, value, paid, leftover) ==
    [coins[d] EXCEPT ![user] = @ - value + leftover, ![Adapter] = @ - leftover,
                     ![FeeHandler] = @ + paid, ![h] = @ + (value - paid)]

LEMMA DepositedRow ==
    ASSUME TypeOK, NEW d \in Domains, NEW user \in Users, NEW h \in Handlers,
           NEW value \in Nat, NEW paid \in Nat, NEW leftover \in Nat,
           value <= coins[d][user], paid <= value, leftover <= coins[d][Adapter]
    PROVE  LET row == Deposited(d, user, h, value, paid, leftover)
           IN  /\ row \in [Holders -> Nat]
               /\ row[FeeHandler] = coins[d][FeeHandler] + paid
               /\ row[h] = coins[d][h] + (value - paid)
               /\ \A x \in Handlers \ {h} : row[x] = coins[d][x]
<1> DEFINE r == coins[d]
           r1 == [r EXCEPT ![user] = @ - value + leftover]
           r2 == [r1 EXCEPT ![Adapter] = @ - leftover]
           r3 == [r2 EXCEPT ![FeeHandler] = @ + paid]
           r4 == [r3 EXCEPT ![h] = @ + (value - paid)]
<1>1. r \in [Holders -> Nat] /\ value <= r[user] /\ leftover <= r[Adapter]
  BY DEF TypeOK
<1>2. /\ user \in Holders /\ h \in Holders /\ Adapter \in Holders /\ FeeHandler \in Holders
      /\ Handlers \subseteq Holders
      /\ user # h /\ user # Adapter /\ user # FeeHandler
      /\ h # Adapter /\ h # FeeHandler /\ Adapter # FeeHandler
      /\ user \notin Handlers /\ Adapter \notin Handlers /\ FeeHandler \notin Handlers
  BY Distinct DEF Holders
<1>3. Deposited(d, user, h, value, paid, leftover) = r4
  BY DEF Deposited
<1> HIDE DEF r
<1>4. r1 \in [Holders -> Nat] /\ \A x \in Holders \ {user} : r1[x] = r[x]
  BY <1>1, <1>2
<1> HIDE DEF r1
<1>5. r2 \in [Holders -> Nat] /\ \A x \in Holders \ {Adapter} : r2[x] = r1[x]
  BY <1>1, <1>2, <1>4
<1> HIDE DEF r2
<1>6. /\ r3 \in [Holders -> Nat] /\ r3[FeeHandler] = r2[FeeHandler] + paid
      /\ \A x \in Holders \ {FeeHandler} : r3[x] = r2[x]
  BY <1>2, <1>5
<1> HIDE DEF r3
<1>7. /\ r4 \in [Holders -> Nat] /\ r4[h] = r3[h] + (value - paid)
      /\ \A x \in Holders \ {h} : r4[x] = r3[x]
  BY <1>2, <1>6
<1> HIDE DEF r4
<1>8. /\ r4[FeeHandler] = r[FeeHandler] + paid
      /\ r4[h] = r[h] + (value - paid)
      /\ \A x \in Handlers \ {h} : r4[x] = r[x]
  BY <1>2, <1>4, <1>5, <1>6, <1>7
<1> QED
  BY <1>3, <1>7, <1>8 DEF r

\* A deposit with coins passes all of its fee on to the fee handler.
LEMMA DepositGeneralTypes ==
    ASSUME TypeOK, Announced, FeesAsQuoted, NEW d \in Domains, NEW dest \in Domains,
           NEW user \in Users, NEW value \in Values, NEW recipient \in Recipients,
           NEW message \in Messages, NEW refuses \in BOOLEAN,
           DepositGeneral(d, user, dest, value, recipient, message, refuses)
    PROVE  TypeOK' /\ Announced' /\ FeesAsQuoted'
<1> DEFINE h == handlerOf[d]
           paid == Quote(d, Adapter)
           leftover == IF refuses THEN 0 ELSE coins[d][Adapter]
           t == [origin |-> d, dest |-> dest, nonce |-> DepositCount(d, dest) + 1,
                 amount |-> ConvertToInternal(d, value - paid),
                 recipient |-> recipient, message |-> message]
           row == Deposited(d, user, h, value, paid, leftover)
<1>1. value \in Nat /\ paid \in Nat /\ paid <= value /\ value <= coins[d][user]
  BY NativeAssumption, QuoteType DEF DepositGeneral
<1>2. h \in Handlers /\ leftover \in Nat /\ leftover <= coins[d][Adapter]
  <2>1. coins[d][Adapter] \in Nat
    BY DEF TypeOK, Holders
  <2> QED
    BY <2>1, MappedHandler DEF DepositGeneral
<1>3. row \in [Holders -> Nat] /\ row[FeeHandler] = coins[d][FeeHandler] + paid
  <2> HIDE DEF h, paid, leftover
  <2> QED
    BY <1>1, <1>2, DepositedRow
<1>4. /\ deposits' = deposits \cup {t}
      /\ coins' = [coins EXCEPT ![d] = row]
      /\ due' = [due EXCEPT ![d] = @ + paid]
      /\ UNCHANGED <<handlerOf, fee, whitelist, executed, withdrawn>>
  BY DEF DepositGeneral, TransferAmount, Deposited
<1>5. t \in Transfer
  <2>1. ConvertToInternal(d, value - paid) \in Nat
    BY <1>1, InternalWorth
  <2>2. DepositCount(d, dest) + 1 \in 1 .. MaxNonce
    BY DepositCountType, NativeAssumption DEF DepositGeneral
  <2> QED
    BY <2>1, <2>2 DEF Transfer
<1> HIDE DEF t, row, paid, h, leftover
<1>6. due' \in [Domains -> Nat] /\ due'[d] = due[d] + paid
      /\ \A e \in Domains \ {d} : due'[e] = due[e]
  BY <1>1, <1>4 DEF TypeOK
<1>7. row[FeeHandler] = due'[d]
  BY <1>3, <1>6 DEF FeesAsQuoted
<1>8. coins' \in [Domains -> [Holders -> Nat]] /\ FeesAsQuoted'
  BY <1>3, <1>4, <1>6, <1>7, FeesKept
<1>9. Announced'
  BY <1>4, FS_AddElement DEF Announced
<1>10. TypeOK'
  BY <1>4, <1>5, <1>6, <1>8 DEF TypeOK
<1> QED
  BY <1>8, <1>9, <1>10

\* Another deposit pays the fee handler what it keeps.
LEMMA DepositOtherTypes ==
    ASSUME TypeOK, Announced, FeesAsQuoted, NEW d \in Domains, NEW user \in Users,
           NEW value \in Values \cup {0}, DepositOther(d, user, value)
    PROVE  TypeOK' /\ Announced' /\ FeesAsQuoted'
<1> DEFINE kept == Quote(d, user)
           row == Paid(d, user, FeeHandler, kept)
<1>1. value \in Nat /\ value <= coins[d][user]
  <2>1. Values \subseteq Nat
    BY NativeAssumption
  <2>2. Values \cup {0} \subseteq Nat
    BY <2>1
  <2> QED
    BY <2>2 DEF DepositOther
<1>2. value - Excess(d, user, value) = kept /\ kept \in Nat /\ kept <= value
  BY <1>1, QuoteKept DEF DepositOther
<1>3. user \in Holders /\ FeeHandler \in Holders /\ user # FeeHandler
  BY Distinct DEF Holders
<1>4. /\ coins' = [coins EXCEPT ![d] = row]
      /\ due' = [due EXCEPT ![d] = @ + kept]
      /\ UNCHANGED <<handlerOf, fee, whitelist, deposits, executed, withdrawn>>
  BY <1>2 DEF DepositOther
<1> HIDE DEF kept
<1>5. row \in [Holders -> Nat] /\ row[FeeHandler] = coins[d][FeeHandler] + kept
  <2>1. kept <= coins[d][user]
    <3>1. coins[d][user] \in Nat
      BY <1>3 DEF TypeOK
    <3> QED
      BY <1>1, <1>2, <3>1
  <2> QED
    BY <1>2, <1>3, <2>1, PaidRow
<1> HIDE DEF row
<1>6. due' \in [Domains -> Nat] /\ due'[d] = due[d] + kept
      /\ \A e \in Domains \ {d} : due'[e] = due[e]
  BY <1>2, <1>4 DEF TypeOK
<1>7. row[FeeHandler] = due'[d]
  BY <1>5, <1>6 DEF FeesAsQuoted
<1>8. coins' \in [Domains -> [Holders -> Nat]] /\ FeesAsQuoted'
  BY <1>4, <1>5, <1>6, <1>7, FeesKept
<1> QED
  BY <1>4, <1>6, <1>8 DEF TypeOK, Announced

\* A payment between others leaves the fee handler what it had.
LEMMA PaymentTypes ==
    ASSUME TypeOK, Announced, FeesAsQuoted, NEW d \in Domains,
           due' = due,
           \E a, b \in Holders \ {FeeHandler}, n \in Nat :
               n <= coins[d][a] /\ coins' = [coins EXCEPT ![d] = Paid(d, a, b, n)]
    PROVE  coins' \in [Domains -> [Holders -> Nat]] /\ FeesAsQuoted'
<1>1. PICK a, b \in Holders \ {FeeHandler}, n \in Nat :
          n <= coins[d][a] /\ coins' = [coins EXCEPT ![d] = Paid(d, a, b, n)]
  OBVIOUS
<1> DEFINE row == Paid(d, a, b, n)
<1>2. FeeHandler \in Holders
  BY DEF Holders
<1>3. row \in [Holders -> Nat] /\ row[FeeHandler] = coins[d][FeeHandler]
  BY <1>1, <1>2, PaidRow
<1>4. coins' = [coins EXCEPT ![d] = row]
  BY <1>1
<1> HIDE DEF row
<1>5. due' \in [Domains -> Nat] /\ \A e \in Domains \ {d} : due'[e] = due[e]
  BY DEF TypeOK
<1>6. row[FeeHandler] = due'[d]
  BY <1>3 DEF FeesAsQuoted
<1> QED
  BY <1>3, <1>4, <1>5, <1>6, FeesKept

\* A proposal that pays has a payee that is not the fee handler, and an amount
\* that the handler owns.
LEMMA PayeeType ==
    ASSUME TypeOK, NEW t \in deposits, ExecutePays(t)
    PROVE  /\ t \in Transfer /\ t.dest \in Domains /\ t.amount \in Nat
           /\ handlerOf[t.dest] \in Handlers
           /\ Payee(t) \in Holders \ {FeeHandler}
           /\ ConvertToExternal(t.dest, t.amount) \in Nat
           /\ ConvertToExternal(t.dest, t.amount) <= coins[t.dest][handlerOf[t.dest]]
<1>1. t \in Transfer /\ t.dest \in Domains /\ t.amount \in Nat /\ t.recipient \in Recipients
  BY DEF TypeOK, Transfer
<1>2. Payee(t) \in Holders \ {FeeHandler}
  BY <1>1, NativeAssumption DEF Payee, Holders
<1>3. handlerOf[t.dest] \in Handlers
  BY <1>1, MappedHandler DEF ExecutePays
<1> QED
  BY <1>1, <1>2, <1>3, ExternalWorth DEF ExecutePays, CanPay

LEMMA ExecutePaysTypes ==
    ASSUME TypeOK, Announced, FeesAsQuoted, NEW t \in deposits, ExecutePays(t)
    PROVE  TypeOK' /\ Announced' /\ FeesAsQuoted'
<1> DEFINE d == t.dest
           a == handlerOf[d]
           b == Payee(t)
           n == ConvertToExternal(d, t.amount)
<1>1. d \in Domains /\ a \in Holders \ {FeeHandler} /\ b \in Holders \ {FeeHandler}
      /\ n \in Nat /\ n <= coins[d][a]
  BY PayeeType, Distinct DEF Holders
<1>2. /\ coins' = [coins EXCEPT ![d] = Paid(d, a, b, n)]
      /\ executed' = executed \cup {t}
      /\ UNCHANGED <<handlerOf, fee, whitelist, deposits, withdrawn, due>>
  BY DEF ExecutePays
<1> HIDE DEF d, a, b, n
<1>3. coins' \in [Domains -> [Holders -> Nat]] /\ FeesAsQuoted'
  BY <1>1, <1>2, PaymentTypes
<1> QED
  BY <1>2, <1>3 DEF TypeOK, Announced

LEMMA SendTypes ==
    ASSUME TypeOK, Announced, FeesAsQuoted, NEW d \in Domains, NEW user \in Users,
           NEW to \in Handlers \cup {Adapter}, NEW value \in Values,
           Send(d, user, to, value)
    PROVE  TypeOK' /\ Announced' /\ FeesAsQuoted'
<1>1. /\ user \in Holders \ {FeeHandler} /\ to \in Holders \ {FeeHandler}
      /\ value \in Nat /\ value <= coins[d][user]
  BY Distinct, NativeAssumption DEF Holders, Send
<1>2. /\ coins' = [coins EXCEPT ![d] = Paid(d, user, to, value)]
      /\ UNCHANGED <<handlerOf, fee, whitelist, deposits, executed, withdrawn, due>>
  BY DEF Send
<1>3. coins' \in [Domains -> [Holders -> Nat]] /\ FeesAsQuoted'
  BY <1>1, <1>2, PaymentTypes
<1> QED
  BY <1>2, <1>3 DEF TypeOK, Announced

LEMMA AdminWithdrawTypes ==
    ASSUME TypeOK, Announced, FeesAsQuoted, NEW d \in Domains, NEW h \in Handlers,
           NEW to \in WithdrawTo, NEW amount \in Values, AdminWithdraw(d, h, to, amount)
    PROVE  TypeOK' /\ Announced' /\ FeesAsQuoted'
<1>1. /\ h \in Holders \ {FeeHandler} /\ to \in Holders \ {FeeHandler}
      /\ amount \in Nat /\ amount <= coins[d][h]
  BY Distinct, NativeAssumption DEF Holders, AdminWithdraw
<1>2. /\ coins' = [coins EXCEPT ![d] = Paid(d, h, to, amount)]
      /\ withdrawn' = IF to \in Handlers THEN withdrawn
                      ELSE [withdrawn EXCEPT ![d] = @ + amount]
      /\ UNCHANGED <<handlerOf, fee, whitelist, deposits, executed, due>>
  BY DEF AdminWithdraw
<1>3. coins' \in [Domains -> [Holders -> Nat]] /\ FeesAsQuoted'
  BY <1>1, <1>2, PaymentTypes
<1>4. withdrawn' \in [Domains -> Nat]
  BY <1>1, <1>2 DEF TypeOK
<1> QED
  BY <1>2, <1>3, <1>4 DEF TypeOK, Announced

\* Only what is due can be distributed: the fee handler owns no more.
LEMMA TransferFeeTypes ==
    ASSUME TypeOK, Announced, FeesAsQuoted, NEW d \in Domains, NEW amount \in Values,
           TransferFee(d, amount)
    PROVE  TypeOK' /\ Announced' /\ FeesAsQuoted'
<1> DEFINE row == Paid(d, FeeHandler, Treasury, amount)
<1>1. /\ FeeHandler \in Holders /\ Treasury \in Holders /\ FeeHandler # Treasury
      /\ amount \in Nat /\ amount <= coins[d][FeeHandler]
  BY NativeAssumption DEF Holders, TransferFee
<1>2. /\ coins' = [coins EXCEPT ![d] = row]
      /\ due' = [due EXCEPT ![d] = @ - amount]
      /\ UNCHANGED <<handlerOf, fee, whitelist, deposits, executed, withdrawn>>
  BY DEF TransferFee
<1>3. row \in [Holders -> Nat] /\ row[FeeHandler] = coins[d][FeeHandler] - amount
  BY <1>1, PaidRow
<1> HIDE DEF row
<1>4. coins[d][FeeHandler] = due[d]
  BY DEF FeesAsQuoted
<1>5. due' \in [Domains -> Nat] /\ due'[d] = due[d] - amount
      /\ \A e \in Domains \ {d} : due'[e] = due[e]
  BY <1>1, <1>2, <1>4 DEF TypeOK
<1>6. coins' \in [Domains -> [Holders -> Nat]] /\ FeesAsQuoted'
  <2>1. row[FeeHandler] = due'[d]
    BY <1>3, <1>4, <1>5
  <2> QED
    BY <1>2, <1>3, <1>5, <2>1, FeesKept
<1> QED
  BY <1>2, <1>5, <1>6 DEF TypeOK, Announced

\* Steps that pay nobody.
LEMMA ExecuteInvalidTypes ==
    ASSUME TypeOK, Announced, FeesAsQuoted, NEW t \in deposits, ExecuteInvalid(t)
    PROVE  TypeOK' /\ Announced' /\ FeesAsQuoted'
BY DEF ExecuteInvalid, TypeOK, Announced, FeesAsQuoted

LEMMA AdminSetResourceTypes ==
    ASSUME TypeOK, Announced, FeesAsQuoted, NEW u \in Upgrades, AdminSetResource(u[1], u[2])
    PROVE  TypeOK' /\ Announced' /\ FeesAsQuoted'
<1>1. u[1] \in Domains /\ u[2] \in Handlers
  BY NativeAssumption
<1> QED
  BY <1>1 DEF AdminSetResource, TypeOK, Announced, FeesAsQuoted

LEMMA ChangeFeeTypes ==
    ASSUME TypeOK, Announced, FeesAsQuoted, NEW d \in Domains, NEW n \in Fees, ChangeFee(d, n)
    PROVE  TypeOK' /\ Announced' /\ FeesAsQuoted'
BY DEF ChangeFee, TypeOK, Announced, FeesAsQuoted

LEMMA AdminSetWhitelistTypes ==
    ASSUME TypeOK, Announced, FeesAsQuoted, NEW d \in Domains,
           NEW a \in Users \cup {Adapter}, NEW b \in BOOLEAN, AdminSetWhitelist(d, a, b)
    PROVE  TypeOK' /\ Announced' /\ FeesAsQuoted'
<1>1. whitelist[d] \in SUBSET (Users \cup {Adapter})
  BY DEF TypeOK
<1>2. (IF b THEN whitelist[d] \cup {a} ELSE whitelist[d] \ {a})
          \in SUBSET (Users \cup {Adapter})
  BY <1>1
<1>3. whitelist' \in [Domains -> SUBSET (Users \cup {Adapter})]
  BY <1>2 DEF AdminSetWhitelist, TypeOK
<1> QED
  BY <1>3 DEF AdminSetWhitelist, TypeOK, Announced, FeesAsQuoted

LEMMA TypesInductive ==
    ASSUME TypeOK, Announced, FeesAsQuoted, [Next]_vars
    PROVE  TypeOK' /\ Announced' /\ FeesAsQuoted'
<1>1. ASSUME NEW d \in Domains, NEW dest \in Domains, NEW u \in Users, NEW n \in Values,
             NEW r \in Recipients, NEW m \in Messages, NEW refuses \in BOOLEAN,
             DepositGeneral(d, u, dest, n, r, m, refuses)
      PROVE  TypeOK' /\ Announced' /\ FeesAsQuoted'
  BY <1>1, DepositGeneralTypes
<1>2. ASSUME NEW d \in Domains, NEW u \in Users, NEW n \in Values \cup {0},
             DepositOther(d, u, n)
      PROVE  TypeOK' /\ Announced' /\ FeesAsQuoted'
  BY <1>2, DepositOtherTypes
<1>3. ASSUME NEW d \in Domains, NEW u \in Users, NEW a \in Handlers \cup {Adapter},
             NEW n \in Values, Send(d, u, a, n)
      PROVE  TypeOK' /\ Announced' /\ FeesAsQuoted'
  BY <1>3, SendTypes
<1>4. ASSUME NEW t \in deposits, ExecutePays(t) \/ ExecuteInvalid(t)
      PROVE  TypeOK' /\ Announced' /\ FeesAsQuoted'
  BY <1>4, ExecutePaysTypes, ExecuteInvalidTypes
<1>5. ASSUME NEW u \in Upgrades, AdminSetResource(u[1], u[2])
      PROVE  TypeOK' /\ Announced' /\ FeesAsQuoted'
  BY <1>5, AdminSetResourceTypes
<1>6. ASSUME NEW d \in Domains, NEW h \in Handlers, NEW a \in WithdrawTo, NEW n \in Values,
             AdminWithdraw(d, h, a, n)
      PROVE  TypeOK' /\ Announced' /\ FeesAsQuoted'
  BY <1>6, AdminWithdrawTypes
<1>7. ASSUME NEW d \in Domains, NEW n \in Fees, ChangeFee(d, n)
      PROVE  TypeOK' /\ Announced' /\ FeesAsQuoted'
  BY <1>7, ChangeFeeTypes
<1>8. ASSUME NEW d \in Domains, NEW a \in Users \cup {Adapter}, NEW b \in BOOLEAN,
             AdminSetWhitelist(d, a, b)
      PROVE  TypeOK' /\ Announced' /\ FeesAsQuoted'
  BY <1>8, AdminSetWhitelistTypes
<1>9. ASSUME NEW d \in Domains, NEW n \in Values, TransferFee(d, n)
      PROVE  TypeOK' /\ Announced' /\ FeesAsQuoted'
  BY <1>9, TransferFeeTypes
<1>10. CASE UNCHANGED vars
  BY <1>10 DEF vars, TypeOK, Announced, FeesAsQuoted
<1> QED
  BY <1>1, <1>2, <1>3, <1>4, <1>5, <1>6, <1>7, <1>8, <1>9, <1>10 DEF Next

\* Balances, fees and deposits keep their types, and the fee handler owns what was
\* quoted: the types need it, since what is due would go below 0 if the fee handler
\* could be paid in any other way and distribute that.
LEMMA TypesKept == Spec => [](TypeOK /\ Announced /\ FeesAsQuoted)
<1>1. Init => TypeOK /\ Announced /\ FeesAsQuoted
  BY TypesAtStart
<1>2. TypeOK /\ Announced /\ FeesAsQuoted /\ [Next]_vars
          => (TypeOK /\ Announced /\ FeesAsQuoted)'
  BY TypesInductive
<1> QED
  BY <1>1, <1>2, PTL DEF Spec

\* Whatever is sent, paid, withdrawn, refused and sent back, nobody's coins, and
\* no fees that are due, go below 0, and only announced deposits are executed.
THEOREM TypeCorrect == Spec => []TypeOK
BY TypesKept, PTL

\* On any number of domains, with any fees that change at any time and any
\* senders exempt, the fee handler owns exactly the fees that were quoted at the
\* deposits and are not distributed: nobody pays more or less, or less than all
\* of an excess back.
THEOREM FeesAreAsQuoted == Spec => []FeesAsQuoted
BY TypesKept, PTL

-----------------------------------------------------------------------------
(* What deposits announce is covered. *)

\* A valid deposit is unpaid until it is executed; one that was not executed is
\* unpaid whatever its message.
LEMMA UnpaidTypes ==
    ASSUME TypeOK, Announced
    PROVE  IsFiniteSet(Unpaid) /\ Unpaid \subseteq Transfer
<1>1. Unpaid \subseteq deposits
  BY DEF Unpaid
<1> QED
  BY <1>1, FS_Subset DEF TypeOK, Announced

LEMMA UnpaidTypesNext ==
    ASSUME TypeOK', Announced'
    PROVE  IsFiniteSet(Unpaid') /\ Unpaid' \subseteq Transfer
<1>1. Unpaid' \subseteq deposits'
  BY DEF Unpaid
<1> QED
  BY <1>1, FS_Subset DEF TypeOK, Announced

\* What is owed is a natural.
LEMMA OwedType ==
    ASSUME NEW P, IsFiniteSet(P), P \subseteq Transfer
    PROVE  OwedOf(P) \in Nat
<1> DEFINE f == [u \in P |-> u.amount * ProposalUnit]
<1>1. \A u \in P : f[u] \in Nat
  <2> SUFFICES ASSUME NEW u \in P PROVE u.amount * ProposalUnit \in Nat
    OBVIOUS
  <2>1. u.amount \in Nat /\ u.origin \in Domains
    BY DEF Transfer
  <2>2. ProposalUnit \in Nat
    BY <2>1, Units
  <2> QED
    BY <2>1, <2>2
<1> HIDE DEF f
<1>2. SumFunctionOnSet(f, P) \in Nat
  BY <1>1, SumIsNat
<1> QED
  BY <1>2 DEF OwedOf, f

\* A step that announces no more than handlers and admin gain on one domain, or
\* takes away no more coins than it settles, keeps all deposits covered.
LEMMA CoverKept ==
    ASSUME TypeOK, Announced, TypeOK', Announced', Funded,
           \E d \in Domains :
               /\ \A e \in Domains \ {d} : coins'[e] = coins[e]
               /\ \A e \in Domains \ {d} : withdrawn'[e] = withdrawn[e]
               /\ OwedOf(Unpaid') - OwedOf(Unpaid)
                      <= ((HeldOf(coins'[d]) + withdrawn'[d])
                             - (HeldOf(coins[d]) + withdrawn[d])) * Unit(d)
    PROVE  Funded'
<1>1. PICK d \in Domains :
               /\ \A e \in Domains \ {d} : coins'[e] = coins[e]
               /\ \A e \in Domains \ {d} : withdrawn'[e] = withdrawn[e]
               /\ OwedOf(Unpaid') - OwedOf(Unpaid)
                      <= ((HeldOf(coins'[d]) + withdrawn'[d])
                             - (HeldOf(coins[d]) + withdrawn[d])) * Unit(d)
  OBVIOUS
<1> DEFINE held == HeldOf(coins[d]) + withdrawn[d]
           heldNext == HeldOf(coins'[d]) + withdrawn'[d]
           more == (heldNext - held) * Unit(d)
<1>2. /\ coins \in [Domains -> [Holders -> Nat]] /\ coins' \in [Domains -> [Holders -> Nat]]
      /\ withdrawn \in [Domains -> Nat] /\ withdrawn' \in [Domains -> Nat]
  BY DEF TypeOK
<1>3. /\ CoinsOf(coins, withdrawn) \in Nat
      /\ CoinsOf(coins', withdrawn') = CoinsOf(coins, withdrawn) + more
  BY <1>1, <1>2, CoinsChanged
<1>4. OwedOf(Unpaid) \in Nat /\ OwedOf(Unpaid') \in Nat
  BY UnpaidTypes, UnpaidTypesNext, OwedType
<1>5. more \in Int
  <2>1. coins[d] \in [Holders -> Nat] /\ coins'[d] \in [Holders -> Nat]
    BY <1>2
  <2>2. HeldOf(coins[d]) \in Nat /\ HeldOf(coins'[d]) \in Nat
    BY <2>1, HeldSame
  <2>3. withdrawn[d] \in Nat /\ withdrawn'[d] \in Nat /\ Unit(d) \in Nat
    BY <1>2, Units
  <2>4. held \in Int /\ heldNext \in Int
    BY <2>2, <2>3
  <2> HIDE DEF held, heldNext
  <2> QED
    BY <2>3, <2>4
<1>6. OwedOf(Unpaid') - OwedOf(Unpaid) <= more
  BY <1>1
<1>7. OwedOf(Unpaid) <= CoinsOf(coins, withdrawn)
  BY ValuesOf DEF Funded
<1> HIDE DEF more
<1>8. OwedOf(Unpaid') <= CoinsOf(coins', withdrawn')
  BY <1>3, <1>4, <1>5, <1>6, <1>7
<1> QED
  BY <1>8, ValuesOf DEF Funded

\* A step that settles nothing, and takes no coins from handlers and admin.
LEMMA CoverNotLess ==
    ASSUME TypeOK, Announced, TypeOK', Announced', Funded,
           UNCHANGED <<deposits, executed>>,
           \E d \in Domains :
               /\ \A e \in Domains \ {d} : coins'[e] = coins[e]
               /\ \A e \in Domains \ {d} : withdrawn'[e] = withdrawn[e]
               /\ HeldOf(coins[d]) + withdrawn[d] <= HeldOf(coins'[d]) + withdrawn'[d]
    PROVE  Funded'
<1>1. PICK d \in Domains :
               /\ \A e \in Domains \ {d} : coins'[e] = coins[e]
               /\ \A e \in Domains \ {d} : withdrawn'[e] = withdrawn[e]
               /\ HeldOf(coins[d]) + withdrawn[d] <= HeldOf(coins'[d]) + withdrawn'[d]
  OBVIOUS
<1> DEFINE held == HeldOf(coins[d]) + withdrawn[d]
           heldNext == HeldOf(coins'[d]) + withdrawn'[d]
<1>2. held \in Nat /\ heldNext \in Nat /\ Unit(d) \in Nat
  <2>1. coins[d] \in [Holders -> Nat] /\ coins'[d] \in [Holders -> Nat]
        /\ withdrawn[d] \in Nat /\ withdrawn'[d] \in Nat
    BY DEF TypeOK
  <2>2. HeldOf(coins[d]) \in Nat /\ HeldOf(coins'[d]) \in Nat
    BY <2>1, HeldSame
  <2> QED
    BY <2>1, <2>2, Units
<1>3. held <= heldNext
  BY <1>1
<1>4. OwedOf(Unpaid') = OwedOf(Unpaid) /\ OwedOf(Unpaid) \in Nat
  <2>1. Unpaid' = Unpaid
    BY DEF Unpaid
  <2>2. OwedOf(Unpaid') = OwedOf(Unpaid)
    BY <2>1, Zenon
  <2> QED
    BY <2>2, UnpaidTypes, OwedType
<1>5. 0 <= (heldNext - held) * Unit(d)
  <2> HIDE DEF held, heldNext
  <2>1. heldNext - held \in Nat
    BY <1>2, <1>3
  <2>2. \A x, y \in Nat : 0 <= x * y
    OBVIOUS
  <2> QED
    BY <1>2, <2>1, <2>2
<1>6. OwedOf(Unpaid') - OwedOf(Unpaid) <= (heldNext - held) * Unit(d)
  BY <1>4, <1>5
<1> QED
  BY <1>1, <1>6, CoverKept

\* A deposit announces no more than the handler gets.
LEMMA DepositGeneralCover ==
    ASSUME TypeOK, Announced, TypeOK', Announced', Funded, NEW d \in Domains,
           NEW dest \in Domains, NEW user \in Users, NEW value \in Values,
           NEW recipient \in Recipients, NEW message \in Messages, NEW refuses \in BOOLEAN,
           DepositGeneral(d, user, dest, value, recipient, message, refuses)
    PROVE  Funded'
<1> DEFINE h == handlerOf[d]
           paid == Quote(d, Adapter)
           leftover == IF refuses THEN 0 ELSE coins[d][Adapter]
           t == [origin |-> d, dest |-> dest, nonce |-> DepositCount(d, dest) + 1,
                 amount |-> ConvertToInternal(d, value - paid),
                 recipient |-> recipient, message |-> message]
           row == Deposited(d, user, h, value, paid, leftover)
           gain == value - paid
           worth == gain * Unit(d)
           told == t.amount * ProposalUnit
<1>1. value \in Nat /\ paid \in Nat /\ paid <= value /\ value <= coins[d][user]
  BY NativeAssumption, QuoteType DEF DepositGeneral
<1>2. h \in Handlers /\ leftover \in Nat /\ leftover <= coins[d][Adapter]
  <2>1. coins[d][Adapter] \in Nat
    BY DEF TypeOK, Holders
  <2> QED
    BY <2>1, MappedHandler DEF DepositGeneral
<1>3. /\ row \in [Holders -> Nat] /\ row[h] = coins[d][h] + gain
      /\ \A x \in Handlers \ {h} : row[x] = coins[d][x]
  <2> HIDE DEF h, paid, leftover
  <2> QED
    BY <1>1, <1>2, DepositedRow
<1>4. /\ deposits' = deposits \cup {t} /\ executed' = executed /\ withdrawn' = withdrawn
      /\ coins'[d] = row /\ \A e \in Domains \ {d} : coins'[e] = coins[e]
  BY DEF DepositGeneral, TransferAmount, Deposited, TypeOK
<1>5. gain \in Nat /\ worth \in Nat /\ told \in Nat /\ told <= worth
  <2>1. gain \in Nat
    BY <1>1
  <2>2. ConvertToInternal(d, gain) \in Nat
        /\ ConvertToInternal(d, gain) * ProposalUnit <= gain * Unit(d)
    <3> HIDE DEF gain
    <3> QED
      BY <2>1, InternalWorth
  <2>3. Unit(d) \in Nat /\ ProposalUnit \in Nat /\ t.amount = ConvertToInternal(d, gain)
    BY Units
  <2> HIDE DEF gain, t
  <2> QED
    BY <2>1, <2>2, <2>3
<1>6. HeldOf(row) = HeldOf(coins[d]) + gain /\ HeldOf(coins[d]) \in Nat
  <2>1. coins[d] \in [Holders -> Nat] /\ coins[d][h] \in Nat
    BY <1>2 DEF TypeOK, Holders
  <2> HIDE DEF row, h, gain
  <2>2. HeldOf(row) = HeldOf(coins[d]) + (row[h] - coins[d][h])
    BY <1>2, <1>3, <2>1, HeldChanged
  <2>3. HeldOf(coins[d]) \in Nat
    BY <2>1, HeldSame
  <2> QED
    BY <1>3, <1>5, <2>1, <2>2, <2>3
<1>7. OwedOf(Unpaid) \in Nat /\ OwedOf(Unpaid') <= OwedOf(Unpaid) + told
      /\ OwedOf(Unpaid') \in Nat
  <2>1. IsFiniteSet(Unpaid) /\ Unpaid \subseteq Transfer
        /\ OwedOf(Unpaid) \in Nat /\ OwedOf(Unpaid') \in Nat
    BY UnpaidTypes, UnpaidTypesNext, OwedType
  <2>2. CASE t \in deposits
    <3>1. Unpaid' = Unpaid
      BY <1>4, <2>2 DEF Unpaid
    <3>2. OwedOf(Unpaid') = OwedOf(Unpaid)
      BY <3>1, Zenon
    <3> HIDE DEF told
    <3> QED
      BY <1>5, <2>1, <3>2
  <2>3. CASE t \notin deposits
    <3> HIDE DEF t
    <3>1. t \notin executed /\ t \notin Unpaid
      BY <2>3 DEF TypeOK, Unpaid
    <3>2. Unpaid' = Unpaid \cup {t}
      BY <1>4, <3>1 DEF Unpaid
    <3>3. t \in Transfer
      BY <1>4 DEF TypeOK
    <3>4. OwedOf(Unpaid \cup {t}) = OwedOf(Unpaid) + told
      BY <2>1, <3>1, <3>3, OwedWithOne
    <3>5. OwedOf(Unpaid') = OwedOf(Unpaid \cup {t})
      BY <3>2, Zenon
    <3> HIDE DEF told
    <3> QED
      BY <1>5, <2>1, <3>4, <3>5
  <2> QED
    BY <2>2, <2>3
<1>8. (HeldOf(coins'[d]) + withdrawn'[d]) - (HeldOf(coins[d]) + withdrawn[d]) = gain
  <2>1. withdrawn[d] \in Nat
    BY DEF TypeOK
  <2> HIDE DEF row, gain
  <2> QED
    BY <1>4, <1>5, <1>6, <2>1
<1> HIDE DEF told, gain, row, t, h
<1>9. OwedOf(Unpaid') - OwedOf(Unpaid) <= worth
  <2> HIDE DEF worth
  <2> QED
    BY <1>5, <1>7
<1> QED
  BY <1>4, <1>8, <1>9, CoverKept

\* A payment between people who are no handlers, or to a handler, takes nothing
\* from the handlers.
LEMMA PaymentCover ==
    ASSUME TypeOK, Announced, TypeOK', Announced', Funded, NEW d \in Domains,
           UNCHANGED <<deposits, executed, withdrawn>>,
           \E a \in Holders \ Handlers, b \in Holders, n \in Nat :
               n <= coins[d][a] /\ coins' = [coins EXCEPT ![d] = Paid(d, a, b, n)]
    PROVE  Funded'
<1>1. PICK a \in Holders \ Handlers, b \in Holders, n \in Nat :
          n <= coins[d][a] /\ coins' = [coins EXCEPT ![d] = Paid(d, a, b, n)]
  OBVIOUS
<1> DEFINE row == Paid(d, a, b, n)
<1>2. /\ row \in [Holders -> Nat] /\ coins[d] \in [Holders -> Nat]
      /\ \A x \in Holders \ {a, b} : row[x] = coins[d][x]
      /\ a # b => row[b] = coins[d][b] + n
      /\ a = b => row[a] = coins[d][a]
  BY <1>1, PaidRow
<1>3. coins'[d] = row /\ \A e \in Domains \ {d} : coins'[e] = coins[e]
  BY <1>1 DEF TypeOK
<1> HIDE DEF row
<1>4. Handlers \subseteq Holders /\ withdrawn[d] \in Nat
  BY DEF Holders, TypeOK
<1>5. HeldOf(coins[d]) <= HeldOf(row) /\ HeldOf(coins[d]) \in Nat /\ HeldOf(row) \in Nat
  <2>1. HeldOf(coins[d]) \in Nat /\ HeldOf(row) \in Nat
    BY <1>2, HeldSame
  <2>2. CASE b \in Handlers
    <3>1. \A x \in Handlers \ {b} : row[x] = coins[d][x]
      BY <1>1, <1>2, <1>4, <2>2
    <3>2. row[b] = coins[d][b] + n /\ coins[d][b] \in Nat
      BY <1>1, <1>2, <1>4, <2>2
    <3>3. HeldOf(row) = HeldOf(coins[d]) + (row[b] - coins[d][b])
      BY <1>2, <2>2, <3>1, HeldChanged
    <3> QED
      BY <2>1, <3>2, <3>3
  <2>3. CASE b \notin Handlers
    <3>1. \A x \in Handlers : row[x] = coins[d][x]
      BY <1>1, <1>2, <1>4, <2>3
    <3>2. HeldOf(row) = HeldOf(coins[d])
      BY <1>2, <3>1, HeldSame
    <3> QED
      BY <2>1, <3>2
  <2> QED
    BY <2>2, <2>3
<1>6. HeldOf(coins[d]) + withdrawn[d] <= HeldOf(coins'[d]) + withdrawn'[d]
  BY <1>3, <1>4, <1>5
<1> QED
  BY <1>3, <1>6, CoverNotLess

\* An execution settles what it pays, and more; where the payee is a handler the
\* coins stay with the handlers.
LEMMA ExecutePaysCover ==
    ASSUME TypeOK, Announced, TypeOK', Announced', Funded,
           NEW t \in deposits, ExecutePays(t)
    PROVE  Funded'
<1> DEFINE d == t.dest
           h == handlerOf[d]
           p == Payee(t)
           n == ConvertToExternal(d, t.amount)
           row == Paid(d, h, p, n)
           worth == n * Unit(d)
           told == t.amount * ProposalUnit
<1>1. /\ t \in Transfer /\ d \in Domains /\ h \in Handlers /\ p \in Holders
      /\ n \in Nat /\ n <= coins[d][h] /\ t.amount \in Nat
  BY PayeeType
<1>2. h \in Holders /\ Handlers \subseteq Holders
  BY <1>1 DEF Holders
<1>3. /\ coins'[d] = row /\ \A e \in Domains \ {d} : coins'[e] = coins[e]
      /\ withdrawn' = withdrawn /\ deposits' = deposits /\ executed' = executed \cup {t}
      /\ t \notin executed /\ t.message # "invalid"
  BY <1>1 DEF ExecutePays, TypeOK
<1>4. worth \in Nat /\ told \in Nat /\ worth <= told
  <2>1. n * Unit(d) <= t.amount * ProposalUnit /\ Unit(d) \in Nat /\ ProposalUnit \in Nat
    BY <1>1, ExternalWorth, Units
  <2>2. worth \in Nat
    <3> HIDE DEF n, d
    <3> QED
      BY <1>1, <2>1
  <2>3. told \in Nat
    BY <1>1, <2>1
  <2> QED
    BY <2>1, <2>2, <2>3
<1> HIDE DEF n, d, h, p
<1>5. /\ row \in [Holders -> Nat] /\ coins[d] \in [Holders -> Nat]
      /\ \A x \in Holders \ {h, p} : row[x] = coins[d][x]
      /\ h # p => row[h] = coins[d][h] - n /\ row[p] = coins[d][p] + n
      /\ h = p => row[h] = coins[d][h]
  BY <1>1, <1>2, PaidRow
<1> HIDE DEF row
<1>6. /\ HeldOf(coins[d]) \in Nat
      /\ HeldOf(row) = HeldOf(coins[d]) \/ HeldOf(row) = HeldOf(coins[d]) - n
  <2>1. HeldOf(coins[d]) \in Nat
    BY <1>5, HeldSame
  <2>2. CASE h = p
    <3>1. \A x \in Handlers : row[x] = coins[d][x]
      BY <1>2, <1>5, <2>2
    <3>2. HeldOf(row) = HeldOf(coins[d])
      BY <1>5, <3>1, HeldSame
    <3> QED
      BY <2>1, <3>2
  <2>3. CASE h # p /\ p \in Handlers
    <3>1. /\ row[h] = coins[d][h] - n /\ row[p] = coins[d][p] + n
          /\ \A x \in Handlers \ {h, p} : row[x] = coins[d][x]
      BY <1>2, <1>5, <2>3
    <3>2. HeldOf(row) = HeldOf(coins[d])
      BY <1>1, <1>5, <2>3, <3>1, HeldMoved
    <3> QED
      BY <2>1, <3>2
  <2>4. CASE p \notin Handlers
    <3>1. /\ row[h] = coins[d][h] - n /\ coins[d][h] \in Nat
          /\ \A x \in Handlers \ {h} : row[x] = coins[d][x]
      BY <1>1, <1>2, <1>5, <2>4
    <3>2. HeldOf(row) = HeldOf(coins[d]) + (row[h] - coins[d][h])
      BY <1>1, <1>5, <3>1, HeldChanged
    <3> QED
      BY <1>1, <2>1, <3>1, <3>2
  <2> QED
    BY <2>2, <2>3, <2>4
<1>7. OwedOf(Unpaid) = OwedOf(Unpaid') + told /\ OwedOf(Unpaid') \in Nat
  <2>1. Unpaid = Unpaid' \cup {t} /\ t \notin Unpaid'
    BY <1>3 DEF Unpaid
  <2>2. IsFiniteSet(Unpaid') /\ Unpaid' \subseteq Transfer
    BY UnpaidTypesNext
  <2>3. OwedOf(Unpaid' \cup {t}) = OwedOf(Unpaid') + told /\ OwedOf(Unpaid') \in Nat
    BY <1>1, <2>1, <2>2, OwedWithOne
  <2>4. OwedOf(Unpaid) = OwedOf(Unpaid' \cup {t})
    BY <2>1, Zenon
  <2> QED
    BY <2>3, <2>4
<1> DEFINE more == (HeldOf(coins'[d]) + withdrawn'[d]) - (HeldOf(coins[d]) + withdrawn[d])
<1>8. more = 0 \/ more = 0 - n
  <2>1. withdrawn[d] \in Nat
    BY <1>1 DEF TypeOK
  <2> QED
    BY <1>1, <1>3, <1>6, <2>1
<1>9. more * Unit(d) >= 0 - worth /\ more * Unit(d) \in Int
  <2>1. Unit(d) \in Nat
    BY <1>1, Units
  <2>2. (0 - n) * Unit(d) = 0 - n * Unit(d) /\ 0 * Unit(d) = 0
    BY <1>1, <2>1
  <2> HIDE DEF more, worth
  <2>3. CASE more = 0
    BY <1>4, <2>2, <2>3
  <2>4. CASE more = 0 - n
    BY <1>4, <2>2, <2>4 DEF worth
  <2> QED
    BY <1>8, <2>3, <2>4
<1> HIDE DEF more, worth, told
<1>10. OwedOf(Unpaid') - OwedOf(Unpaid) <= more * Unit(d)
  BY <1>4, <1>7, <1>9
<1> QED
  BY <1>1, <1>3, <1>10, CoverKept DEF more

\* A swallowed proposal stays unpaid.
LEMMA ExecuteInvalidCover ==
    ASSUME Funded, NEW t \in deposits, ExecuteInvalid(t)
    PROVE  Funded'
<1>1. Unpaid' = Unpaid /\ coins' = coins /\ withdrawn' = withdrawn
  BY DEF ExecuteInvalid, Unpaid
<1>2. OwedOf(Unpaid') = OwedOf(Unpaid)
  BY <1>1, Zenon
<1>3. CoinsOf(coins', withdrawn') = CoinsOf(coins, withdrawn)
  BY <1>1, Zenon
<1> QED
  BY <1>2, <1>3, ValuesOf DEF Funded

\* What the admin takes from a handler goes to another one, or is counted.
LEMMA AdminWithdrawCover ==
    ASSUME TypeOK, Announced, TypeOK', Announced', Funded, NEW d \in Domains,
           NEW h \in Handlers, NEW to \in WithdrawTo, NEW amount \in Values,
           AdminWithdraw(d, h, to, amount)
    PROVE  Funded'
<1> DEFINE row == Paid(d, h, to, amount)
<1>1. /\ amount \in Nat /\ to \in Holders /\ h \in Holders /\ to # h
      /\ Handlers \subseteq Holders /\ amount <= coins[d][h]
  BY NativeAssumption DEF Holders, AdminWithdraw
<1>2. /\ row \in [Holders -> Nat] /\ coins[d] \in [Holders -> Nat]
      /\ \A x \in Holders \ {h, to} : row[x] = coins[d][x]
      /\ row[h] = coins[d][h] - amount /\ row[to] = coins[d][to] + amount
  BY <1>1, PaidRow
<1>3. /\ coins'[d] = row /\ \A e \in Domains \ {d} : coins'[e] = coins[e]
      /\ deposits' = deposits /\ executed' = executed
      /\ withdrawn' = IF to \in Handlers THEN withdrawn
                      ELSE [withdrawn EXCEPT ![d] = @ + amount]
  BY DEF AdminWithdraw, TypeOK
<1> HIDE DEF row
<1>4. /\ withdrawn[d] \in Nat
      /\ withdrawn'[d] = IF to \in Handlers THEN withdrawn[d] ELSE withdrawn[d] + amount
      /\ \A e \in Domains \ {d} : withdrawn'[e] = withdrawn[e]
  BY <1>3 DEF TypeOK
<1>5. HeldOf(coins[d]) \in Nat
  BY <1>2, HeldSame
<1>6. HeldOf(coins[d]) + withdrawn[d] <= HeldOf(coins'[d]) + withdrawn'[d]
  <2>1. CASE to \in Handlers
    <3>1. \A x \in Handlers \ {h, to} : row[x] = coins[d][x]
      BY <1>1, <1>2
    <3>2. HeldOf(row) = HeldOf(coins[d])
      BY <1>1, <1>2, <2>1, <3>1, HeldMoved
    <3> QED
      BY <1>3, <1>4, <1>5, <2>1, <3>2
  <2>2. CASE to \notin Handlers
    <3>1. (\A x \in Handlers \ {h} : row[x] = coins[d][x]) /\ coins[d][h] \in Nat
      BY <1>1, <1>2, <2>2
    <3>2. HeldOf(row) = HeldOf(coins[d]) + (row[h] - coins[d][h])
      BY <1>2, <3>1, HeldChanged
    <3> QED
      BY <1>1, <1>2, <1>3, <1>4, <1>5, <2>2, <3>1, <3>2
  <2> QED
    BY <2>1, <2>2
<1> QED
  BY <1>3, <1>4, <1>6, CoverNotLess

\* The other payments are made by people and contracts that are no handlers.
LEMMA DepositOtherCover ==
    ASSUME TypeOK, Announced, TypeOK', Announced', Funded, NEW d \in Domains,
           NEW user \in Users, NEW value \in Values \cup {0}, DepositOther(d, user, value)
    PROVE  Funded'
<1>1. value \in Nat /\ value <= coins[d][user]
  <2>1. Values \subseteq Nat
    BY NativeAssumption
  <2>2. Values \cup {0} \subseteq Nat
    BY <2>1
  <2> QED
    BY <2>2 DEF DepositOther
<1> DEFINE kept == Quote(d, user)
<1>2. value - Excess(d, user, value) = kept /\ kept \in Nat /\ kept <= value
  BY <1>1, QuoteKept DEF DepositOther
<1>3. coins' = [coins EXCEPT ![d] = Paid(d, user, FeeHandler, kept)]
      /\ UNCHANGED <<deposits, executed, withdrawn>>
  BY <1>2 DEF DepositOther
<1>4. user \in Holders \ Handlers /\ FeeHandler \in Holders /\ coins[d][user] \in Nat
  BY Distinct DEF Holders, TypeOK
<1> HIDE DEF kept
<1>5. kept <= coins[d][user]
  BY <1>1, <1>2, <1>4
<1> QED
  BY <1>2, <1>3, <1>4, <1>5, PaymentCover

LEMMA SendCover ==
    ASSUME TypeOK, Announced, TypeOK', Announced', Funded, NEW d \in Domains,
           NEW user \in Users, NEW to \in Handlers \cup {Adapter}, NEW value \in Values,
           Send(d, user, to, value)
    PROVE  Funded'
<1>1. /\ user \in Holders \ Handlers /\ to \in Holders
      /\ value \in Nat /\ value <= coins[d][user]
  BY Distinct, NativeAssumption DEF Holders, Send
<1>2. coins' = [coins EXCEPT ![d] = Paid(d, user, to, value)]
      /\ UNCHANGED <<deposits, executed, withdrawn>>
  BY DEF Send
<1> QED
  BY <1>1, <1>2, PaymentCover

LEMMA TransferFeeCover ==
    ASSUME TypeOK, Announced, TypeOK', Announced', Funded, NEW d \in Domains,
           NEW amount \in Values, TransferFee(d, amount)
    PROVE  Funded'
<1>1. /\ FeeHandler \in Holders \ Handlers /\ Treasury \in Holders
      /\ amount \in Nat /\ amount <= coins[d][FeeHandler]
  BY NativeAssumption DEF Holders, TransferFee
<1>2. coins' = [coins EXCEPT ![d] = Paid(d, FeeHandler, Treasury, amount)]
      /\ UNCHANGED <<deposits, executed, withdrawn>>
  BY DEF TransferFee
<1> QED
  BY <1>1, <1>2, PaymentCover

\* The other steps change neither deposits nor coins.
LEMMA CoverUnchanged ==
    ASSUME Funded, UNCHANGED <<coins, deposits, executed, withdrawn>>
    PROVE  Funded'
<1>1. Unpaid' = Unpaid /\ coins' = coins /\ withdrawn' = withdrawn
  BY DEF Unpaid
<1>2. OwedOf(Unpaid') = OwedOf(Unpaid)
  BY <1>1, Zenon
<1>3. CoinsOf(coins', withdrawn') = CoinsOf(coins, withdrawn)
  BY <1>1, Zenon
<1> QED
  BY <1>2, <1>3, ValuesOf DEF Funded

\* At the start nothing is owed.
LEMMA CoverAtStart == Init => Funded
<1> SUFFICES ASSUME Init PROVE Funded
  OBVIOUS
<1>1. Unpaid = {}
  BY DEF Init, Unpaid
<1>2. UnpaidValue = 0
  <2>1. UnpaidValue = SumFunctionOnSet([t \in Unpaid |-> t.amount * ProposalUnit], {})
    BY <1>1, ValuesOf DEF OwedOf
  <2> QED
    BY <2>1, SumEmpty
<1>3. CoinsValue \in Nat
  <2>1. coins \in [Domains -> [Holders -> Nat]] /\ withdrawn \in [Domains -> Nat]
    BY TypesAtStart DEF TypeOK
  <2>2. CASE Domains = {}
    <3>1. CoinsValue = SumFunctionOnSet(
              [d \in Domains |-> (HeldOf(coins[d]) + withdrawn[d]) * Unit(d)], {})
      BY <2>2, ValuesOf DEF CoinsOf
    <3> QED
      BY <3>1, SumEmpty
  <2>3. CASE Domains # {}
    <3>1. PICK d \in Domains : TRUE
      BY <2>3
    <3>2. CoinsOf(coins, withdrawn) \in Nat
      BY <2>1, <3>1, CoinsChanged
    <3> QED
      BY <3>2, ValuesOf
  <2> QED
    BY <2>2, <2>3
<1> QED
  BY <1>2, <1>3 DEF Funded

\* On any number of domains, with any decimals, fees, exemptions and handlers, what
\* deposits announce and nobody was paid is covered by the coins of the handlers
\* and what the admin took from them.
THEOREM DepositsFunded == Spec => []Funded
<1>1. Init => Funded
  BY CoverAtStart
<1>2. ASSUME TypeOK, Announced, FeesAsQuoted, Funded, [Next]_vars
      PROVE  Funded'
  <2>1. TypeOK' /\ Announced'
    BY <1>2, TypesInductive
  <2>2. ASSUME NEW d \in Domains, NEW dest \in Domains, NEW u \in Users, NEW n \in Values,
               NEW r \in Recipients, NEW m \in Messages, NEW refuses \in BOOLEAN,
               DepositGeneral(d, u, dest, n, r, m, refuses)
        PROVE  Funded'
    BY <1>2, <2>1, <2>2, DepositGeneralCover
  <2>3. ASSUME NEW d \in Domains, NEW u \in Users, NEW n \in Values \cup {0},
               DepositOther(d, u, n)
        PROVE  Funded'
    BY <1>2, <2>1, <2>3, DepositOtherCover
  <2>4. ASSUME NEW d \in Domains, NEW u \in Users, NEW a \in Handlers \cup {Adapter},
               NEW n \in Values, Send(d, u, a, n)
        PROVE  Funded'
    BY <1>2, <2>1, <2>4, SendCover
  <2>5. ASSUME NEW t \in deposits, ExecutePays(t) \/ ExecuteInvalid(t)
        PROVE  Funded'
    BY <1>2, <2>1, <2>5, ExecutePaysCover, ExecuteInvalidCover
  <2>6. ASSUME NEW u \in Upgrades, AdminSetResource(u[1], u[2])
        PROVE  Funded'
    BY <1>2, <2>6, CoverUnchanged DEF AdminSetResource
  <2>7. ASSUME NEW d \in Domains, NEW h \in Handlers, NEW a \in WithdrawTo,
               NEW n \in Values, AdminWithdraw(d, h, a, n)
        PROVE  Funded'
    BY <1>2, <2>1, <2>7, AdminWithdrawCover
  <2>8. ASSUME NEW d \in Domains, NEW n \in Fees, ChangeFee(d, n)
        PROVE  Funded'
    BY <1>2, <2>8, CoverUnchanged DEF ChangeFee
  <2>9. ASSUME NEW d \in Domains, NEW a \in Users \cup {Adapter}, NEW b \in BOOLEAN,
               AdminSetWhitelist(d, a, b)
        PROVE  Funded'
    BY <1>2, <2>9, CoverUnchanged DEF AdminSetWhitelist
  <2>10. ASSUME NEW d \in Domains, NEW n \in Values, TransferFee(d, n)
         PROVE  Funded'
    BY <1>2, <2>1, <2>10, TransferFeeCover
  <2>11. CASE UNCHANGED vars
    BY <1>2, <2>11, CoverUnchanged DEF vars
  <2> QED
    BY <1>2, <2>2, <2>3, <2>4, <2>5, <2>6, <2>7, <2>8, <2>9, <2>10, <2>11 DEF Next
<1> QED
  BY <1>1, <1>2, TypesKept, PTL DEF Spec
==============================================================================
