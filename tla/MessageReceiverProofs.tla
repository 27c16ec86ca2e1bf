------------------------ MODULE MessageReceiverProofs ------------------------
(***************************************************************************)
(* Proofs about MessageReceiver, for all messages and actions, any amounts *)
(* of gas, and any number of calls of handleSygmaMessage in each other.    *)
(***************************************************************************)
EXTENDS MessageReceiver, RecursionTheorems, SequenceTheorems

-----------------------------------------------------------------------------
(* The inductive invariant.  It says of the store, and of every store that  *)
(* a frame can bring back, how it relates to the calls that are in progress *)
(* when the store is the current one.                                       *)

\* The messages of the first n frames, those of them that are being recovered,
\* what they have yet to forward, and the allowances they have yet to end or, if
\* their actions gave them themselves, to answer for.
InProgress(fs, n) == {fs[k].message : k \in 1 .. n}

Recovering(fs, n) == {fs[k].message : k \in {j \in 1 .. n : fs[j].phase = "recovering"}}

ToForward(f) ==
    LET named == {f.message.tokenSent} \cup ActionTokens(f.message)
    IN  CASE f.phase \in {"performing", "calling"} -> named \cup {Native}
          [] f.phase = "returning" -> named \ {Native}
          [] f.phase = "recovering" -> {}

Forwarding(fs, n) == UNION {ToForward(fs[k]) : k \in 1 .. n}

ToRevoke(f) ==
    IF f.phase = "recovering" THEN {}
    ELSE AllowanceTokens(f.message) \cup ApprovedTokens(f.message)

Revoking(fs, n) == UNION {ToRevoke(fs[k]) : k \in 1 .. n}

\* No asset comes into being or is lost; there are no more strays than there is of
\* the asset.
Conserved(s) ==
    \A a \in Assets : /\ SumFunctionOnSet(s.owns[a], Holders) = Supply(a)
                      /\ s.strays[a] <= Supply(a)

\* The handlers have paid for the messages handled, and those in progress.
HandledOf(s, P, a) ==
    {m \in {l \in Messages : s.outcome[l] # "none"} \cup P : m.tokenSent = a}

PaidFor(s, P) ==
    /\ \A m \in P : s.outcome[m] = "none"
    /\ \A a \in Assets :
        InitiallyOwned[a][Handler] - s.owns[a][Handler] = Amount(HandledOf(s, P, a))

\* Receivers have got what came with the messages recovered, and being so.
DuesOf(s, R, a, r) ==
    {m \in {l \in Messages : s.outcome[l] = "recovered"} \cup R :
        m.tokenSent = a /\ m.receiver = r}

DuesPaid(s, R) ==
    \A a \in Assets, r \in Receivers : Amount(DuesOf(s, R, a, r)) <= s.owns[a][r]

\* What is there and not to be forwarded is strays.
OnlyStrays(s, N) == \A a \in Assets \ N : s.owns[a][Self] <= s.strays[a]

Sound(s, P, R, N, A) ==
    /\ s \in Store
    /\ Conserved(s)
    /\ PaidFor(s, P)
    /\ DuesPaid(s, R)
    /\ OnlyStrays(s, N)
    /\ s.allowed \subseteq A \cup SelfApproved(s)

SoundAt(s, fs, n) ==
    Sound(s, InProgress(fs, n), Recovering(fs, n), Forwarding(fs, n), Revoking(fs, n))

\* The store after the handler has paid for m.
PaidStore(s, m) == Move(s, m.tokenSent, Handler, Self, m.amount)

\* No strays were there that are not counted any more.
StraysKept(s, t) == \A a \in Assets : s.strays[a] <= t.strays[a]

\* What a frame remembers is what was there when its message came.
FrameSound(fs, k) ==
    LET f == fs[k]
        m == f.message
    IN  /\ SoundAt(f.entered, fs, k - 1)
        /\ m \notin InProgress(fs, k - 1)
        /\ f.entered.outcome[m] = "none"
        /\ f.entered.owns[m.tokenSent][Handler] >= m.amount
        /\ f.before = PaidStore(f.entered, m)
        /\ f.startingNativeBalance = f.entered.owns[Native][Self]
        /\ k > 1 => StraysKept(fs[k - 1].entered, f.entered)

Consistent(s, fs) ==
    /\ SoundAt(s, fs, Len(fs))
    /\ fs # <<>> => StraysKept(fs[Len(fs)].entered, s)
    /\ \A k \in 1 .. Len(fs) : FrameSound(fs, k)

Inv == TypeOK /\ Consistent(store, frames)

-----------------------------------------------------------------------------
(* Stores. *)

\* The contracts and the receivers are different holders, of which there are
\* finitely many.
LEMMA DifferentHolders ==
    /\ Self \in Holders /\ Handler \in Holders /\ Outside \in Holders
    /\ Self # Handler /\ Self # Outside /\ Handler # Outside
    /\ \A r \in Receivers : r \in Holders /\ r # Self /\ r # Handler /\ r # Outside
    /\ IsFiniteSet(Holders)
    /\ Native \in Assets /\ Tokens \subseteq Assets /\ Native \notin Tokens
    /\ NoToken \notin Assets
<1>1. IsFiniteSet({Self, Handler, Outside})
  <2>1. IsFiniteSet({Self}) /\ IsFiniteSet({Handler}) /\ IsFiniteSet({Outside})
    BY FS_Singleton
  <2>2. IsFiniteSet({Self} \cup {Handler})
    BY <2>1, FS_Union
  <2>3. IsFiniteSet(({Self} \cup {Handler}) \cup {Outside})
    BY <2>1, <2>2, FS_Union
  <2>4. {Self, Handler, Outside} = ({Self} \cup {Handler}) \cup {Outside}
    OBVIOUS
  <2> QED
    BY <2>3, <2>4
<1>2. IsFiniteSet(Receivers \cup {Self, Handler, Outside})
  BY <1>1, HolderAssumption, FS_Union
<1> QED
  BY <1>2, HolderAssumption DEF Holders, Assets

\* What a message consists of.
LEMMA MessageType ==
    ASSUME NEW m \in Messages
    PROVE  /\ m.tokenSent \in Assets /\ m.amount \in Nat /\ m.receiver \in Receivers
           /\ m.actions \in Seq(Action) /\ m.gas \in Nat
BY MessageAssumption

\* Moving some of what a holder owns to another one.
LEMMA Moved ==
    ASSUME NEW s \in Store, NEW a \in Assets, NEW from \in Holders, NEW to \in Holders,
           from # to, NEW n \in Nat, n <= s.owns[a][from], NEW t, t = Move(s, a, from, to, n)
    PROVE  /\ t \in Store
           /\ t.allowed = s.allowed /\ t.outcome = s.outcome /\ t.strays = s.strays
           /\ t.owns[a][from] = s.owns[a][from] - n
           /\ t.owns[a][to] = s.owns[a][to] + n
           /\ \A b \in Assets, x \in Holders :
                  ~ (b = a /\ x \in {from, to}) => t.owns[b][x] = s.owns[b][x]
           /\ \A b \in Assets :
                  SumFunctionOnSet(t.owns[b], Holders) = SumFunctionOnSet(s.owns[b], Holders)
<1> DEFINE row == [s.owns[a] EXCEPT ![from] = @ - n, ![to] = @ + n]
<1>1. s.owns[a] \in [Holders -> Nat] /\ s.owns \in [Assets -> [Holders -> Nat]]
  BY DEF Store
<1>2. row \in [Holders -> Nat]
  BY <1>1
<1>3. /\ row[from] = s.owns[a][from] - n
      /\ row[to] = s.owns[a][to] + n
      /\ \A x \in Holders \ {from, to} : row[x] = s.owns[a][x]
  BY <1>1
<1> HIDE DEF row
<1>4. /\ t.allowed = s.allowed /\ t.outcome = s.outcome /\ t.strays = s.strays
      /\ t.owns = [s.owns EXCEPT ![a] = row]
      /\ t = [s EXCEPT !.owns = [s.owns EXCEPT ![a] = row]]
  BY <1>1 DEF Move, row, Store
<1>5. t \in Store
  <2>1. [s.owns EXCEPT ![a] = row] \in [Assets -> [Holders -> Nat]]
    BY <1>1, <1>2
  <2> QED
    BY <1>4, <2>1 DEF Store
<1>6. t.owns[a] = row /\ \A b \in Assets \ {a} : t.owns[b] = s.owns[b]
  BY <1>1, <1>4
<1>7. SumFunctionOnSet(row, Holders) = SumFunctionOnSet(s.owns[a], Holders)
  <2>1. \A x \in Holders : s.owns[a][x] \in Int
    BY <1>1
  <2> QED
    BY <1>3, <2>1, DifferentHolders, SumMoved
<1> QED
  BY <1>3, <1>4, <1>5, <1>6, <1>7

\* What came with some messages is a natural number.
LEMMA AmountType ==
    ASSUME NEW ms \in SUBSET Messages
    PROVE  Amount(ms) \in Nat
<1> DEFINE f == [m \in ms |-> m.amount]
<1>1. IsFiniteSet(ms)
  BY HolderAssumption, FS_Subset
<1>2. \A m \in ms : f[m] \in Nat
  BY MessageType
<1> HIDE DEF f
<1>3. SumFunctionOnSet(f, ms) \in Nat
  BY <1>1, <1>2, SumIsNat
<1> QED
  BY <1>3 DEF Amount, SumFunction, f

\* And with one more it is more by what came with that one.
LEMMA AmountWithOne ==
    ASSUME NEW ms \in SUBSET Messages, NEW m \in Messages, m \notin ms
    PROVE  Amount(ms \cup {m}) = Amount(ms) + m.amount
<1> DEFINE f == [l \in ms |-> l.amount]
           g == [l \in ms \cup {m} |-> l.amount]
<1>1. IsFiniteSet(ms)
  BY HolderAssumption, FS_Subset
<1>2. /\ \A l \in ms \cup {m} : g[l] \in Int
      /\ \A l \in ms : f[l] = g[l]
      /\ g[m] = m.amount
  BY MessageType
<1>3. Amount(ms \cup {m}) = SumFunctionOnSet(g, ms \cup {m})
      /\ Amount(ms) = SumFunctionOnSet(f, ms)
  BY DEF Amount, SumFunction
<1> HIDE DEF f, g
<1>4. SumFunctionOnSet(g, ms \cup {m}) = g[m] + SumFunctionOnSet(g, ms)
  BY <1>1, <1>2, SumWithOne
<1>5. SumFunctionOnSet(f, ms) = SumFunctionOnSet(g, ms)
  BY <1>1, <1>2, SumOfSame
<1>6. Amount(ms) \in Nat /\ m.amount \in Nat
  BY AmountType, MessageType
<1> QED
  BY <1>2, <1>3, <1>4, <1>5, <1>6

\* With fewer messages no more came.
LEMMA AmountOfFewer ==
    ASSUME NEW ms \in SUBSET Messages, NEW ns \in SUBSET ms
    PROVE  Amount(ns) <= Amount(ms)
<1> DEFINE f == [l \in ms |-> l.amount]
           g == [l \in ns |-> l.amount]
<1>1. IsFiniteSet(ms) /\ IsFiniteSet(ns)
  BY HolderAssumption, FS_Subset
<1>2. /\ \A l \in ms : f[l] \in Nat
      /\ \A l \in ns : g[l] = f[l]
  BY MessageType
<1>3. Amount(ms) = SumFunctionOnSet(f, ms) /\ Amount(ns) = SumFunctionOnSet(g, ns)
  BY DEF Amount, SumFunction
<1> HIDE DEF f, g
<1>4. SumFunctionOnSet(g, ns) = SumFunctionOnSet(f, ns)
  BY <1>1, <1>2, SumOfSame
<1>5. SumFunctionOnSet(f, ns) <= SumFunctionOnSet(f, ms)
  BY <1>1, <1>2, SumOfSubset
<1> QED
  BY <1>3, <1>4, <1>5

\* t is s after the contract has paid some of what it has to receivers and to
\* code outside; allowances apart.
Pays(s, t) ==
    /\ t \in Store /\ t.outcome = s.outcome /\ t.strays = s.strays
    /\ \A a \in Assets :
        /\ SumFunctionOnSet(t.owns[a], Holders) = SumFunctionOnSet(s.owns[a], Holders)
        /\ t.owns[a][Handler] = s.owns[a][Handler]
        /\ t.owns[a][Self] <= s.owns[a][Self]
        /\ \A r \in Receivers : s.owns[a][r] <= t.owns[a][r]

\* Messages had tokens approved by calling approve if they were executed.
LEMMA SelfApprovedSame ==
    ASSUME NEW s, NEW t, t.outcome = s.outcome
    PROVE  SelfApproved(t) = SelfApproved(s)
BY DEF SelfApproved

\* Such payments keep a store sound.
LEMMA PaysKeeps ==
    ASSUME NEW s, NEW t, NEW P, NEW R \in SUBSET Messages, NEW N, NEW A,
           Sound(s, P, R, N, A), Pays(s, t), t.allowed \subseteq A \cup SelfApproved(s)
    PROVE  Sound(t, P, R, N, A)
<1>1. t \in Store /\ s \in Store
  BY DEF Pays, Sound
<1>2. Conserved(t)
  BY DEF Pays, Sound, Conserved
<1>3. PaidFor(t, P)
  BY DEF Pays, Sound, PaidFor, HandledOf
<1>4. DuesPaid(t, R)
  <2> SUFFICES ASSUME NEW a \in Assets, NEW r \in Receivers
               PROVE  Amount(DuesOf(t, R, a, r)) <= t.owns[a][r]
    BY DEF DuesPaid
  <2>1. DuesOf(t, R, a, r) = DuesOf(s, R, a, r)
    BY DEF Pays, DuesOf
  <2>2. Amount(DuesOf(s, R, a, r)) <= s.owns[a][r] /\ s.owns[a][r] <= t.owns[a][r]
    BY DEF Sound, DuesPaid, Pays
  <2>3. DuesOf(s, R, a, r) \in SUBSET Messages
    BY DEF DuesOf
  <2>4. Amount(DuesOf(s, R, a, r)) \in Nat
    BY <2>3, AmountType
  <2>5. s.owns[a][r] \in Nat /\ t.owns[a][r] \in Nat
    BY <1>1, DifferentHolders DEF Store
  <2> QED
    BY <2>1, <2>2, <2>4, <2>5
<1>5. OnlyStrays(t, N)
  BY <1>1, DifferentHolders DEF Pays, Sound, OnlyStrays, Store
<1>6. t.allowed \subseteq A \cup SelfApproved(t)
  BY SelfApprovedSame DEF Pays
<1> QED
  BY <1>1, <1>2, <1>3, <1>4, <1>5, <1>6 DEF Sound

\* A payment by the contract is one.
LEMMA MovePays ==
    ASSUME NEW s \in Store, NEW a \in Assets, NEW to \in Receivers \cup {Outside},
           NEW n \in Nat, n <= s.owns[a][Self], NEW t, t = Move(s, a, Self, to, n)
    PROVE  Pays(s, t) /\ t.allowed = s.allowed
<1>1. to \in Holders /\ to # Self /\ to # Handler /\ Self # Handler
      /\ Self \in Holders /\ Handler \in Holders
  BY DifferentHolders
<1>2. /\ t \in Store
      /\ t.allowed = s.allowed /\ t.outcome = s.outcome /\ t.strays = s.strays
      /\ t.owns[a][Self] = s.owns[a][Self] - n
      /\ t.owns[a][to] = s.owns[a][to] + n
      /\ \A b \in Assets, x \in Holders :
             ~ (b = a /\ x \in {Self, to}) => t.owns[b][x] = s.owns[b][x]
      /\ \A b \in Assets :
             SumFunctionOnSet(t.owns[b], Holders) = SumFunctionOnSet(s.owns[b], Holders)
  BY <1>1, Moved
<1>3. \A b \in Assets, x \in Holders : s.owns[b][x] \in Nat
  BY DEF Store
<1>4. ASSUME NEW b \in Assets
      PROVE  /\ t.owns[b][Handler] = s.owns[b][Handler]
             /\ t.owns[b][Self] <= s.owns[b][Self]
             /\ \A r \in Receivers : s.owns[b][r] <= t.owns[b][r]
  <2>1. CASE b = a
    BY <1>1, <1>2, <1>3, <2>1, DifferentHolders
  <2>2. CASE b # a
    BY <1>1, <1>2, <1>3, <2>2, DifferentHolders
  <2> QED
    BY <2>1, <2>2
<1> QED
  BY <1>2, <1>4 DEF Pays

\* So is paying twice.
LEMMA PaysTwice ==
    ASSUME NEW s \in Store, NEW t, NEW u, Pays(s, t), Pays(t, u)
    PROVE  Pays(s, u)
<1>1. t \in Store /\ u \in Store
  BY DEF Pays
<1>2. \A a \in Assets, x \in Holders :
          s.owns[a][x] \in Nat /\ t.owns[a][x] \in Nat /\ u.owns[a][x] \in Nat
  BY <1>1 DEF Store
<1> QED
  BY <1>1, <1>2, DifferentHolders DEF Pays

\* Paying nothing is, too.
LEMMA PaysNothing == ASSUME NEW s \in Store PROVE Pays(s, s)
BY DifferentHolders DEF Pays, Store

\* transferBalance leaves none of the asset with the contract, and gives it to the
\* receiver.
LEMMA BalancePays ==
    ASSUME NEW s \in Store, NEW a, NEW to \in Receivers, NEW t, t = TransferBalance(s, a, to)
    PROVE  /\ Pays(s, t) /\ t.allowed = s.allowed
           /\ a \in Assets => /\ t.owns[a][Self] = 0
                              /\ t.owns[a][to] = s.owns[a][to] + s.owns[a][Self]
           /\ \A b \in Assets \ {a} : t.owns[b] = s.owns[b]
<1>1. CASE a \notin Assets
  BY <1>1, PaysNothing DEF TransferBalance
<1>2. CASE a \in Assets
  <2>1. t = Move(s, a, Self, to, s.owns[a][Self])
    BY <1>2 DEF TransferBalance
  <2>2. s.owns[a][Self] \in Nat /\ s.owns[a][Self] <= s.owns[a][Self]
    BY <1>2, DifferentHolders DEF Store
  <2>3. Pays(s, t) /\ t.allowed = s.allowed
    BY <1>2, <2>1, <2>2, MovePays
  <2>4. to \in Holders /\ to # Self /\ Self \in Holders
    BY DifferentHolders
  <2>5. /\ t.owns[a][Self] = s.owns[a][Self] - s.owns[a][Self]
        /\ t.owns[a][to] = s.owns[a][to] + s.owns[a][Self]
    BY <1>2, <2>1, <2>2, <2>4, Moved
  <2>6. \A b \in Assets \ {a} : t.owns[b] = s.owns[b]
    BY <2>1, <1>2 DEF Move, Store
  <2> QED
    BY <2>2, <2>3, <2>5, <2>6
<1> QED
  BY <1>1, <1>2

\* transferBalance of the token that came with the message, which coins are not.
LEMMA TokenSentPays ==
    ASSUME NEW s \in Store, NEW m \in Messages, NEW t, t = TransferTokenSent(s, m)
    PROVE  /\ Pays(s, t) /\ t.allowed = s.allowed
           /\ m.tokenSent = Native => t = s
           /\ m.tokenSent # Native =>
                  /\ t.owns[m.tokenSent][Self] = 0
                  /\ t.owns[m.tokenSent][m.receiver]
                         = s.owns[m.tokenSent][m.receiver] + s.owns[m.tokenSent][Self]
           /\ \A b \in Assets \ {m.tokenSent} : t.owns[b] = s.owns[b]
<1>1. m.tokenSent \in Assets /\ m.receiver \in Receivers
  BY MessageType
<1>2. CASE m.tokenSent = Native
  BY <1>2, PaysNothing DEF TransferTokenSent
<1>3. CASE m.tokenSent # Native
  BY <1>1, <1>3, BalancePays DEF TransferTokenSent
<1> QED
  BY <1>2, <1>3

\* returnLeftOvers pays the balance of each token an action receives, and ends the
\* allowances.
LEMMA LeftOversPay ==
    ASSUME NEW s \in Store, NEW m \in Messages, NEW t, t = ReturnLeftOvers(s, m)
    PROVE  /\ Pays(s, t) /\ t.allowed = s.allowed \ AllowanceTokens(m)
           /\ \A a \in ActionTokens(m) \cap Assets : t.owns[a][Self] = 0
           /\ \A a \in Assets \ ActionTokens(m) : t.owns[a] = s.owns[a]
<1> DEFINE r == m.receiver
           owned == [a \in Assets |->
                        IF a \in ActionTokens(m) THEN TransferBalance(s, a, r).owns[a]
                        ELSE s.owns[a]]
<1>1. r \in Receivers
  BY MessageType
<1>2. /\ t.owns = owned
      /\ t.allowed = s.allowed \ AllowanceTokens(m)
      /\ t.outcome = s.outcome /\ t.strays = s.strays
      /\ t = [owns |-> owned, allowed |-> t.allowed, outcome |-> s.outcome,
              strays |-> s.strays]
  BY DEF ReturnLeftOvers, Store
<1>3. ASSUME NEW a \in Assets
      PROVE  /\ owned[a] \in [Holders -> Nat]
             /\ SumFunctionOnSet(owned[a], Holders) = SumFunctionOnSet(s.owns[a], Holders)
             /\ owned[a][Handler] = s.owns[a][Handler]
             /\ owned[a][Self] <= s.owns[a][Self]
             /\ \A x \in Receivers : s.owns[a][x] <= owned[a][x]
             /\ a \in ActionTokens(m) => owned[a][Self] = 0
             /\ a \notin ActionTokens(m) => owned[a] = s.owns[a]
  <2>1. CASE a \in ActionTokens(m)
    <3> DEFINE u == TransferBalance(s, a, r)
    <3>1. Pays(s, u) /\ u.owns[a][Self] = 0
      BY <1>1, BalancePays
    <3>2. owned[a] = u.owns[a]
      BY <2>1
    <3> HIDE DEF u, owned
    <3>3. u.owns[a] \in [Holders -> Nat]
      BY <3>1 DEF Pays, Store
    <3> QED
      BY <2>1, <3>1, <3>2, <3>3 DEF Pays
  <2>2. CASE a \notin ActionTokens(m)
    <3>1. owned[a] = s.owns[a]
      BY <2>2
    <3>2. s.owns[a] \in [Holders -> Nat]
      BY DEF Store
    <3> HIDE DEF owned
    <3> QED
      BY <2>2, <3>1, <3>2, DifferentHolders
  <2> QED
    BY <2>1, <2>2
<1>4. owned \in [Assets -> [Holders -> Nat]]
  BY <1>3
<1> HIDE DEF owned
<1>5. t \in Store
  BY <1>2, <1>4 DEF Store
<1> QED
  BY <1>2, <1>3, <1>5 DEF Pays

\* A store is as sound for fewer promises: messages whose tokens are to be forwarded
\* and allowances to be ended may be more, and those that are recovered fewer.
LEMMA SoundForMore ==
    ASSUME NEW s, NEW P, NEW R, NEW N, NEW A, NEW M, NEW B,
           Sound(s, P, R, N, A), N \subseteq M, A \subseteq B
    PROVE  Sound(s, P, R, M, B)
BY DEF Sound, OnlyStrays

\* What the handler pays for a message, it does not have any more.
LEMMA PaidMoves ==
    ASSUME NEW s \in Store, NEW m \in Messages, s.owns[m.tokenSent][Handler] >= m.amount,
           NEW t, t = PaidStore(s, m)
    PROVE  /\ t \in Store
           /\ t.allowed = s.allowed /\ t.outcome = s.outcome /\ t.strays = s.strays
           /\ t.owns[m.tokenSent][Self] = s.owns[m.tokenSent][Self] + m.amount
           /\ \A b \in Assets \ {m.tokenSent} : t.owns[b][Self] = s.owns[b][Self]
<1> DEFINE a == m.tokenSent
           n == m.amount
<1>1. a \in Assets /\ n \in Nat
  BY MessageType
<1>2. Handler \in Holders /\ Self \in Holders /\ Self # Handler
  BY DifferentHolders
<1>3. n <= s.owns[a][Handler] /\ t = Move(s, a, Handler, Self, n)
  BY <1>1, <1>2 DEF PaidStore, Store
<1> HIDE DEF a, n
<1>4. /\ t \in Store
      /\ t.allowed = s.allowed /\ t.outcome = s.outcome /\ t.strays = s.strays
      /\ t.owns[a][Self] = s.owns[a][Self] + n
      /\ \A b \in Assets, x \in Holders :
             ~ (b = a /\ x \in {Handler, Self}) => t.owns[b][x] = s.owns[b][x]
  BY <1>1, <1>2, <1>3, Moved
<1> QED
  BY <1>2, <1>4 DEF a, n

\* The handler pays for a message that was not handled: it is in progress, and what
\* came with it is to be forwarded.
LEMMA PaidSound ==
    ASSUME NEW s, NEW P \in SUBSET Messages, NEW R \in SUBSET Messages, NEW N, NEW A,
           Sound(s, P, R, N, A), NEW m \in Messages, m \notin P, s.outcome[m] = "none",
           s.owns[m.tokenSent][Handler] >= m.amount, NEW t, t = PaidStore(s, m)
    PROVE  /\ Sound(t, P \cup {m}, R, N \cup {m.tokenSent}, A)
           /\ t.strays = s.strays /\ t.outcome = s.outcome
           /\ t.owns[m.tokenSent][Self] = s.owns[m.tokenSent][Self] + m.amount
           /\ \A b \in Assets \ {m.tokenSent} : t.owns[b][Self] = s.owns[b][Self]
           /\ t.allowed = s.allowed
<1> DEFINE a == m.tokenSent
           n == m.amount
<1>1. a \in Assets /\ n \in Nat /\ s \in Store
  BY MessageType DEF Sound
<1>2. Handler \in Holders /\ Self \in Holders /\ Self # Handler
      /\ \A r \in Receivers : r \in Holders /\ r # Self /\ r # Handler
  BY DifferentHolders
<1>3. n <= s.owns[a][Handler] /\ t = Move(s, a, Handler, Self, n)
  BY <1>1, <1>2 DEF PaidStore, Store
<1> HIDE DEF a, n
<1>4. /\ t \in Store
      /\ t.allowed = s.allowed /\ t.outcome = s.outcome /\ t.strays = s.strays
      /\ t.owns[a][Handler] = s.owns[a][Handler] - n
      /\ t.owns[a][Self] = s.owns[a][Self] + n
      /\ \A b \in Assets, x \in Holders :
             ~ (b = a /\ x \in {Handler, Self}) => t.owns[b][x] = s.owns[b][x]
      /\ \A b \in Assets :
             SumFunctionOnSet(t.owns[b], Holders) = SumFunctionOnSet(s.owns[b], Holders)
  BY <1>1, <1>2, <1>3, Moved
<1>5. Conserved(t)
  BY <1>4 DEF Sound, Conserved
<1>6. PaidFor(t, P \cup {m})
  <2>1. \A l \in P \cup {m} : t.outcome[l] = "none"
    BY <1>4 DEF Sound, PaidFor
  <2> SUFFICES ASSUME NEW b \in Assets
               PROVE  InitiallyOwned[b][Handler] - t.owns[b][Handler]
                          = Amount(HandledOf(t, P \cup {m}, b))
    BY <2>1 DEF PaidFor
  <2>2. InitiallyOwned[b][Handler] - s.owns[b][Handler] = Amount(HandledOf(s, P, b))
    BY DEF Sound, PaidFor
  <2>3. InitiallyOwned[b][Handler] \in Nat /\ s.owns[b][Handler] \in Nat
    BY <1>1, <1>2, OwnedAssumption DEF Store
  <2>4. CASE b = a
    <3>1. HandledOf(t, P \cup {m}, b) = HandledOf(s, P, b) \cup {m}
      BY <1>4, <2>4 DEF HandledOf, a
    <3>2. m \notin HandledOf(s, P, b) /\ HandledOf(s, P, b) \in SUBSET Messages
      BY DEF HandledOf
    <3>3. Amount(HandledOf(t, P \cup {m}, b)) = Amount(HandledOf(s, P, b)) + n
      BY <3>1, <3>2, AmountWithOne DEF n
    <3>4. t.owns[b][Handler] = s.owns[b][Handler] - n
      BY <1>4, <2>4
    <3>5. Amount(HandledOf(s, P, b)) \in Nat
      BY <3>2, AmountType
    <3> QED
      BY <1>1, <2>2, <2>3, <3>3, <3>4, <3>5
  <2>5. CASE b # a
    <3>1. HandledOf(t, P \cup {m}, b) = HandledOf(s, P, b)
      BY <1>4, <2>5 DEF HandledOf, a
    <3>2. t.owns[b][Handler] = s.owns[b][Handler]
      BY <1>2, <1>4, <2>5
    <3> QED
      BY <2>2, <3>1, <3>2
  <2> QED
    BY <2>4, <2>5
<1>7. DuesPaid(t, R)
  <2> SUFFICES ASSUME NEW b \in Assets, NEW r \in Receivers
               PROVE  Amount(DuesOf(t, R, b, r)) <= t.owns[b][r]
    BY DEF DuesPaid
  <2>1. DuesOf(t, R, b, r) = DuesOf(s, R, b, r)
    BY <1>4 DEF DuesOf
  <2>2. t.owns[b][r] = s.owns[b][r]
    BY <1>2, <1>4
  <2> QED
    BY <2>1, <2>2 DEF Sound, DuesPaid
<1>8. \A b \in Assets \ {a} : t.owns[b][Self] = s.owns[b][Self]
  BY <1>2, <1>4
<1>9. OnlyStrays(t, N \cup {a})
  BY <1>4, <1>8 DEF Sound, OnlyStrays
<1>10. t.allowed \subseteq A \cup SelfApproved(t)
  BY <1>4, SelfApprovedSame DEF Sound
<1> QED
  BY <1>4, <1>5, <1>6, <1>7, <1>8, <1>9, <1>10 DEF Sound, a, n

\* A message in progress, not being recovered, ends as executed.
LEMMA ExecutedSound ==
    ASSUME NEW s, NEW m \in Messages, NEW P \in SUBSET Messages, NEW R \in SUBSET Messages,
           NEW N, NEW A, Sound(s, P \cup {m}, R, N, A \cup ApprovedTokens(m)),
           m \notin P, m \notin R, NEW t, t = [s EXCEPT !.outcome[m] = "executed"]
    PROVE  Sound(t, P, R, N, A)
<1>1. s \in Store /\ s.outcome[m] = "none"
  BY DEF Sound, PaidFor
<1>2. /\ t.owns = s.owns /\ t.allowed = s.allowed /\ t.strays = s.strays
      /\ t.outcome = [s.outcome EXCEPT ![m] = "executed"]
      /\ t \in Store
  BY <1>1 DEF Store
<1>3. t.outcome[m] = "executed" /\ \A l \in Messages \ {m} : t.outcome[l] = s.outcome[l]
  BY <1>1, <1>2 DEF Store
<1>4. \A a \in Assets : HandledOf(t, P, a) = HandledOf(s, P \cup {m}, a)
  BY <1>3 DEF HandledOf
<1>5. \A a \in Assets, r \in Receivers : DuesOf(t, R, a, r) = DuesOf(s, R, a, r)
  BY <1>1, <1>3 DEF DuesOf
<1>6. PaidFor(t, P)
  BY <1>2, <1>3, <1>4 DEF Sound, PaidFor
<1>7. t.allowed \subseteq A \cup SelfApproved(t)
  <2>1. {l \in Messages : t.outcome[l] = "executed"} =
            {l \in Messages : s.outcome[l] = "executed"} \cup {m}
    BY <1>3
  <2>2. SelfApproved(t) = SelfApproved(s) \cup ApprovedTokens(m)
    BY <2>1 DEF SelfApproved
  <2> QED
    BY <1>2, <2>2 DEF Sound
<1> QED
  BY <1>2, <1>5, <1>6, <1>7 DEF Sound, Conserved, DuesPaid, OnlyStrays

\* One that is being recovered ends as recovered.
LEMMA RecoveredSound ==
    ASSUME NEW s, NEW m \in Messages, NEW P \in SUBSET Messages, NEW R \in SUBSET Messages,
           NEW N, NEW A, Sound(s, P \cup {m}, R \cup {m}, N, A), m \notin P,
           NEW t, t = Recovered(s, m)
    PROVE  Sound(t, P, R, N, A)
<1>1. s \in Store /\ s.outcome[m] = "none"
  BY DEF Sound, PaidFor
<1>2. /\ t.owns = s.owns /\ t.allowed = s.allowed /\ t.strays = s.strays
      /\ t.outcome = [s.outcome EXCEPT ![m] = "recovered"]
      /\ t \in Store
  BY <1>1 DEF Store, Recovered
<1>3. t.outcome[m] = "recovered" /\ \A l \in Messages \ {m} : t.outcome[l] = s.outcome[l]
  BY <1>1, <1>2 DEF Store
<1>4. \A a \in Assets : HandledOf(t, P, a) = HandledOf(s, P \cup {m}, a)
  BY <1>3 DEF HandledOf
<1>5. \A a \in Assets, r \in Receivers : DuesOf(t, R, a, r) = DuesOf(s, R \cup {m}, a, r)
  BY <1>1, <1>3 DEF DuesOf
<1>6. PaidFor(t, P)
  BY <1>2, <1>3, <1>4 DEF Sound, PaidFor
<1>7. t.allowed \subseteq A \cup SelfApproved(t)
  <2>1. {l \in Messages : t.outcome[l] = "executed"} =
            {l \in Messages : s.outcome[l] = "executed"}
    BY <1>1, <1>3
  <2>2. SelfApproved(t) = SelfApproved(s)
    BY <2>1 DEF SelfApproved
  <2> QED
    BY <1>2, <2>2 DEF Sound
<1> QED
  BY <1>2, <1>5, <1>6, <1>7 DEF Sound, Conserved, DuesPaid, OnlyStrays

\* A receiver who has got what came with a message is due no more for it.
LEMMA DueSound ==
    ASSUME NEW s, NEW t, NEW m \in Messages, NEW P, NEW R \in SUBSET Messages, NEW N, NEW A,
           Sound(s, P, R, N, A), m \in P, m \notin R, Pays(s, t), t.allowed = s.allowed,
           s.owns[m.tokenSent][m.receiver] + m.amount <= t.owns[m.tokenSent][m.receiver]
    PROVE  Sound(t, P, R \cup {m}, N, A)
<1>1. Sound(t, P, R, N, A)
  BY PaysKeeps DEF Sound
<1>2. s \in Store /\ t \in Store /\ s.outcome[m] = "none" /\ t.outcome = s.outcome
  BY DEF Sound, PaidFor, Pays
<1>3. m.tokenSent \in Assets /\ m.receiver \in Receivers /\ m.amount \in Nat
  BY MessageType
<1>4. DuesPaid(t, R \cup {m})
  <2> SUFFICES ASSUME NEW a \in Assets, NEW r \in Receivers
               PROVE  Amount(DuesOf(t, R \cup {m}, a, r)) <= t.owns[a][r]
    BY DEF DuesPaid
  <2>1. /\ Amount(DuesOf(s, R, a, r)) <= s.owns[a][r]
        /\ Amount(DuesOf(t, R, a, r)) <= t.owns[a][r]
        /\ DuesOf(s, R, a, r) = DuesOf(t, R, a, r)
    BY <1>1, <1>2 DEF Sound, DuesPaid, DuesOf
  <2>2. s.owns[a][r] \in Nat /\ t.owns[a][r] \in Nat
    BY <1>2, DifferentHolders DEF Store
  <2>3. m \notin DuesOf(t, R, a, r) /\ DuesOf(t, R, a, r) \in SUBSET Messages
    BY <1>2 DEF DuesOf
  <2>4. CASE a = m.tokenSent /\ r = m.receiver
    <3>1. DuesOf(t, R \cup {m}, a, r) = DuesOf(t, R, a, r) \cup {m}
      BY <2>4 DEF DuesOf
    <3>2. Amount(DuesOf(t, R \cup {m}, a, r)) = Amount(DuesOf(t, R, a, r)) + m.amount
      BY <2>3, <3>1, AmountWithOne
    <3>3. Amount(DuesOf(t, R, a, r)) \in Nat
      BY <2>3, AmountType
    <3> QED
      BY <1>3, <2>1, <2>2, <2>4, <3>2, <3>3
  <2>5. CASE ~ (a = m.tokenSent /\ r = m.receiver)
    <3>1. DuesOf(t, R \cup {m}, a, r) = DuesOf(t, R, a, r)
      BY <2>5 DEF DuesOf
    <3> QED
      BY <2>1, <3>1
  <2> QED
    BY <2>4, <2>5
<1> QED
  BY <1>1, <1>4 DEF Sound

\* The smaller of two numbers.
LEMMA MinOfTwo ==
    ASSUME NEW x \in Int, NEW y \in Int
    PROVE  Min({x, y}) = IF x <= y THEN x ELSE y
<1> DEFINE z == IF x <= y THEN x ELSE y
<1>1. z \in {x, y} /\ \A w \in {x, y} : z <= w
  OBVIOUS
<1>2. \A v \in {x, y} : (\A w \in {x, y} : v <= w) => v = z
  OBVIOUS
<1> QED
  BY <1>1, <1>2 DEF Min

\* There is as much of an asset as its holders own, and they own natural numbers.
LEMMA SupplyType ==
    ASSUME NEW s \in Store, Conserved(s), NEW a \in Assets
    PROVE  Supply(a) \in Nat /\ \A x \in Holders : s.owns[a][x] <= Supply(a)
<1>1. \A x \in Holders : s.owns[a][x] \in Nat
  BY DEF Store
<1>2. SumFunctionOnSet(s.owns[a], Holders) \in Nat
  BY <1>1, DifferentHolders, SumIsNat
<1>3. \A x \in Holders : s.owns[a][x] <= SumFunctionOnSet(s.owns[a], Holders)
  BY <1>1, DifferentHolders, SumBoundsEach
<1> QED
  BY <1>2, <1>3 DEF Conserved

\* What code outside sends is a stray, unless it is to be forwarded.
Sent(s, a, named) ==
    [Move(s, a, Outside, Self, 1) EXCEPT
        !.strays[a] = IF a \in named THEN @ ELSE Min({@ + 1, Supply(a)})]

LEMMA StraySound ==
    ASSUME NEW s, NEW P, NEW R \in SUBSET Messages, NEW N, NEW A, Sound(s, P, R, N, A),
           NEW a \in Assets, s.owns[a][Outside] >= 1, NEW M, M \subseteq N,
           NEW t, t = Sent(s, a, M)
    PROVE  Sound(t, P, R, N, A) /\ StraysKept(s, t)
<1> DEFINE u == Move(s, a, Outside, Self, 1)
           n == IF a \in M THEN s.strays[a] ELSE Min({s.strays[a] + 1, Supply(a)})
<1>1. Outside \in Holders /\ Self \in Holders /\ Outside # Self /\ Handler \in Holders
      /\ Handler # Outside /\ Handler # Self
      /\ \A r \in Receivers : r \in Holders /\ r # Self /\ r # Outside
  BY DifferentHolders
<1>2. s \in Store /\ Conserved(s)
  BY DEF Sound
<1>3. s.owns[a][Self] \in Nat /\ s.owns[a][Outside] \in Nat /\ s.strays[a] \in Nat
  BY <1>1, <1>2 DEF Store
<1>4. /\ u \in Store
      /\ u.allowed = s.allowed /\ u.outcome = s.outcome /\ u.strays = s.strays
      /\ u.owns[a][Self] = s.owns[a][Self] + 1
      /\ \A b \in Assets, x \in Holders :
             ~ (b = a /\ x \in {Outside, Self}) => u.owns[b][x] = s.owns[b][x]
      /\ \A b \in Assets :
             SumFunctionOnSet(u.owns[b], Holders) = SumFunctionOnSet(s.owns[b], Holders)
  BY <1>1, <1>2, <1>3, Moved
<1>5. Conserved(u)
  BY <1>2, <1>4 DEF Conserved
<1>6. Supply(a) \in Nat /\ u.owns[a][Self] <= Supply(a)
  BY <1>1, <1>4, <1>5, SupplyType
<1>7. s.strays[a] <= Supply(a)
  BY <1>2 DEF Conserved
<1>8. /\ n \in Nat /\ s.strays[a] <= n /\ n <= Supply(a)
      /\ a \notin M /\ s.owns[a][Self] <= s.strays[a] => u.owns[a][Self] <= n
  <2> DEFINE more == s.strays[a] + 1
  <2>1. more \in Int /\ Supply(a) \in Int
    BY <1>3, <1>6
  <2> HIDE DEF more, u
  <2>2. Min({more, Supply(a)}) = IF more <= Supply(a) THEN more ELSE Supply(a)
    BY <2>1, MinOfTwo
  <2>3. n = IF a \in M THEN s.strays[a] ELSE Min({more, Supply(a)})
    BY DEF more
  <2> HIDE DEF n
  <2> QED
    BY <1>3, <1>4, <1>6, <1>7, <2>2, <2>3 DEF more
<1> HIDE DEF u, n
<1>9. /\ t.owns = u.owns /\ t.allowed = u.allowed /\ t.outcome = u.outcome
      /\ t.strays = [s.strays EXCEPT ![a] = n]
      /\ t = [u EXCEPT !.strays = [s.strays EXCEPT ![a] = n]]
  BY <1>4 DEF Store, Sent, u, n
<1>10. t \in Store
  <2>1. [s.strays EXCEPT ![a] = n] \in [Assets -> Nat]
    BY <1>2, <1>8 DEF Store
  <2> QED
    BY <1>4, <1>9, <2>1 DEF Store
<1>11. t.strays[a] = n /\ \A b \in Assets \ {a} : t.strays[b] = s.strays[b]
  BY <1>2, <1>9 DEF Store
<1>12. Conserved(t)
  BY <1>5, <1>4, <1>8, <1>9, <1>11 DEF Conserved
<1>13. PaidFor(t, P)
  <2>1. \A b \in Assets : t.owns[b][Handler] = s.owns[b][Handler]
                          /\ HandledOf(t, P, b) = HandledOf(s, P, b)
    BY <1>1, <1>4, <1>9 DEF HandledOf
  <2> QED
    BY <1>4, <1>9, <2>1 DEF Sound, PaidFor
<1>14. DuesPaid(t, R)
  <2>1. \A b \in Assets, r \in Receivers : t.owns[b][r] = s.owns[b][r]
                                           /\ DuesOf(t, R, b, r) = DuesOf(s, R, b, r)
    BY <1>1, <1>4, <1>9 DEF DuesOf
  <2> QED
    BY <2>1 DEF Sound, DuesPaid
<1>15. OnlyStrays(t, N)
  <2> SUFFICES ASSUME NEW b \in Assets \ N PROVE t.owns[b][Self] <= t.strays[b]
    BY DEF OnlyStrays
  <2>1. s.owns[b][Self] <= s.strays[b]
    BY DEF Sound, OnlyStrays
  <2>2. CASE b = a
    BY <1>8, <1>9, <1>11, <2>1, <2>2
  <2>3. CASE b # a
    BY <1>1, <1>4, <1>9, <1>11, <2>1, <2>3
  <2> QED
    BY <2>2, <2>3
<1>16. StraysKept(s, t)
  <2>1. \A b \in Assets : s.strays[b] \in Nat
    BY <1>2 DEF Store
  <2> QED
    BY <1>8, <1>11, <2>1 DEF StraysKept
<1>17. t.allowed \subseteq A \cup SelfApproved(t)
  BY <1>4, <1>9, SelfApprovedSame DEF Sound
<1> QED
  BY <1>10, <1>12, <1>13, <1>14, <1>15, <1>16, <1>17 DEF Sound

\* Between transactions no strays are counted that are not there any more.
LEMMA SettledSound ==
    ASSUME NEW s, NEW P, NEW R, NEW A, Sound(s, P, R, {}, A),
           NEW t, t = [s EXCEPT !.strays = [a \in Assets |-> Min({@[a], s.owns[a][Self]})]]
    PROVE  Sound(t, P, R, {}, A)
<1> DEFINE left == [a \in Assets |-> Min({s.strays[a], s.owns[a][Self]})]
<1>1. s \in Store /\ Self \in Holders
  BY DifferentHolders DEF Sound
<1>2. \A a \in Assets : left[a] = s.owns[a][Self] /\ left[a] \in Nat
                        /\ left[a] <= s.strays[a]
  <2> SUFFICES ASSUME NEW a \in Assets
               PROVE  Min({s.strays[a], s.owns[a][Self]}) = s.owns[a][Self]
                      /\ s.owns[a][Self] \in Nat /\ s.owns[a][Self] <= s.strays[a]
    OBVIOUS
  <2>1. s.strays[a] \in Nat /\ s.owns[a][Self] \in Nat /\ s.owns[a][Self] <= s.strays[a]
    BY <1>1 DEF Sound, OnlyStrays, Store
  <2> QED
    BY <2>1, MinOfTwo
<1>3. left \in [Assets -> Nat]
  BY <1>2
<1>4. t = [s EXCEPT !.strays = left]
  BY <1>1 DEF Store
<1> HIDE DEF left
<1>5. /\ t.owns = s.owns /\ t.allowed = s.allowed /\ t.outcome = s.outcome
      /\ t.strays = left /\ t \in Store
  BY <1>1, <1>3, <1>4 DEF Store
<1>6. Conserved(t)
  <2> SUFFICES ASSUME NEW a \in Assets PROVE t.strays[a] <= Supply(a)
    BY <1>5 DEF Sound, Conserved
  <2>1. s.strays[a] <= Supply(a) /\ Supply(a) \in Nat /\ s.strays[a] \in Nat
    BY <1>1, SupplyType DEF Sound, Conserved, Store
  <2> QED
    BY <1>2, <1>5, <2>1
<1>7. PaidFor(t, P)
  <2>1. \A a \in Assets : HandledOf(t, P, a) = HandledOf(s, P, a)
    BY <1>5 DEF HandledOf
  <2> QED
    BY <1>5, <2>1 DEF Sound, PaidFor
<1>8. DuesPaid(t, R)
  <2>1. \A a \in Assets, r \in Receivers : DuesOf(t, R, a, r) = DuesOf(s, R, a, r)
    BY <1>5 DEF DuesOf
  <2> QED
    BY <1>5, <2>1 DEF Sound, DuesPaid
<1>9. OnlyStrays(t, {})
  BY <1>2, <1>5 DEF OnlyStrays
<1>10. t.allowed \subseteq A \cup SelfApproved(t)
  BY <1>5, SelfApprovedSame DEF Sound
<1> QED
  BY <1>5, <1>6, <1>7, <1>8, <1>9, <1>10 DEF Sound

-----------------------------------------------------------------------------
(* Frames. *)

\* What the first n frames promise depends on their messages and phases.
LEMMA SamePromises ==
    ASSUME NEW fs, NEW gs, NEW n,
           \A k \in 1 .. n : gs[k].message = fs[k].message /\ gs[k].phase = fs[k].phase
    PROVE  /\ InProgress(gs, n) = InProgress(fs, n)
           /\ Recovering(gs, n) = Recovering(fs, n)
           /\ Forwarding(gs, n) = Forwarding(fs, n)
           /\ Revoking(gs, n) = Revoking(fs, n)
<1>1. \A k \in 1 .. n : ToForward(gs[k]) = ToForward(fs[k]) /\ ToRevoke(gs[k]) = ToRevoke(fs[k])
  BY DEF ToForward, ToRevoke
<1> QED
  BY <1>1 DEF InProgress, Recovering, Forwarding, Revoking

\* No frames promise nothing.
LEMMA NoPromises ==
    ASSUME NEW fs
    PROVE  /\ InProgress(fs, 0) = {} /\ Recovering(fs, 0) = {}
           /\ Forwarding(fs, 0) = {} /\ Revoking(fs, 0) = {}
<1>1. 1 .. 0 = {}
  OBVIOUS
<1> QED
  BY <1>1 DEF InProgress, Recovering, Forwarding, Revoking

\* And n frames promise what n - 1 do, and what the last one does.
LEMMA MorePromises ==
    ASSUME NEW fs, NEW n \in Nat \ {0}
    PROVE  /\ InProgress(fs, n) = InProgress(fs, n - 1) \cup {fs[n].message}
           /\ Recovering(fs, n) = IF fs[n].phase = "recovering"
                                  THEN Recovering(fs, n - 1) \cup {fs[n].message}
                                  ELSE Recovering(fs, n - 1)
           /\ Forwarding(fs, n) = Forwarding(fs, n - 1) \cup ToForward(fs[n])
           /\ Revoking(fs, n) = Revoking(fs, n - 1) \cup ToRevoke(fs[n])
<1>1. 1 .. n = (1 .. (n - 1)) \cup {n}
  OBVIOUS
<1>2. InProgress(fs, n) = InProgress(fs, n - 1) \cup {fs[n].message}
  BY <1>1 DEF InProgress
<1>3. Forwarding(fs, n) = Forwarding(fs, n - 1) \cup ToForward(fs[n])
  BY <1>1 DEF Forwarding
<1>4. Revoking(fs, n) = Revoking(fs, n - 1) \cup ToRevoke(fs[n])
  BY <1>1 DEF Revoking
<1>5. Recovering(fs, n) = IF fs[n].phase = "recovering"
                          THEN Recovering(fs, n - 1) \cup {fs[n].message}
                          ELSE Recovering(fs, n - 1)
  BY <1>1 DEF Recovering
<1> QED
  BY <1>2, <1>3, <1>4, <1>5

\* Messages in progress and being recovered are messages, and the latter among the
\* former.
LEMMA PromisesType ==
    ASSUME NEW fs \in Seq(Frame), NEW n \in 0 .. Len(fs)
    PROVE  /\ InProgress(fs, n) \in SUBSET Messages
           /\ Recovering(fs, n) \in SUBSET Messages
           /\ Recovering(fs, n) \subseteq InProgress(fs, n)
<1>1. \A k \in 1 .. n : fs[k].message \in Messages
  <2>1. \A k \in 1 .. n : k \in 1 .. Len(fs)
    OBVIOUS
  <2>2. \A k \in 1 .. Len(fs) : fs[k] \in Frame
    OBVIOUS
  <2> QED
    BY <2>1, <2>2 DEF Frame
<1> QED
  BY <1>1 DEF InProgress, Recovering

\* What is said of a frame depends on what it remembers, on the promises of those
\* below it, and on the strays there were when the next one came.
LEMMA SameFrames ==
    ASSUME NEW fs, NEW gs, NEW k \in Nat \ {0}, FrameSound(fs, k),
           \A j \in 1 .. (k - 1) : /\ gs[j].message = fs[j].message
                                   /\ gs[j].phase = fs[j].phase
                                   /\ gs[j].entered = fs[j].entered,
           gs[k].message = fs[k].message, gs[k].entered = fs[k].entered,
           gs[k].before = fs[k].before,
           gs[k].startingNativeBalance = fs[k].startingNativeBalance
    PROVE  FrameSound(gs, k)
<1>1. /\ InProgress(gs, k - 1) = InProgress(fs, k - 1)
      /\ Recovering(gs, k - 1) = Recovering(fs, k - 1)
      /\ Forwarding(gs, k - 1) = Forwarding(fs, k - 1)
      /\ Revoking(gs, k - 1) = Revoking(fs, k - 1)
  BY SamePromises
<1>2. k > 1 => gs[k - 1].entered = fs[k - 1].entered
  OBVIOUS
<1> QED
  BY <1>1, <1>2 DEF FrameSound, SoundAt

\* A step of the top frame keeps all consistent, if it keeps what it remembers and
\* the store is sound for the promises it then has.
LEMMA TopStep ==
    ASSUME NEW s, NEW fs \in Seq(Frame), fs # <<>>, Consistent(s, fs),
           NEW t, NEW g, NEW gs, gs = [fs EXCEPT ![Len(fs)] = g],
           g.message = fs[Len(fs)].message, g.entered = fs[Len(fs)].entered,
           g.before = fs[Len(fs)].before,
           g.startingNativeBalance = fs[Len(fs)].startingNativeBalance,
           Sound(t, InProgress(fs, Len(fs) - 1) \cup {g.message},
                 IF g.phase = "recovering"
                 THEN Recovering(fs, Len(fs) - 1) \cup {g.message}
                 ELSE Recovering(fs, Len(fs) - 1),
                 Forwarding(fs, Len(fs) - 1) \cup ToForward(g),
                 Revoking(fs, Len(fs) - 1) \cup ToRevoke(g)),
           StraysKept(g.entered, t)
    PROVE  Consistent(t, gs)
<1> DEFINE n == Len(fs)
<1>1. n \in Nat \ {0} /\ Len(gs) = n /\ gs # <<>> /\ gs[n] = g
      /\ \A k \in 1 .. n : k # n => gs[k] = fs[k]
  OBVIOUS
<1> HIDE DEF n
<1>2. \A k \in 1 .. (n - 1) : gs[k] = fs[k]
  BY <1>1
<1>3. /\ InProgress(gs, n - 1) = InProgress(fs, n - 1)
      /\ Recovering(gs, n - 1) = Recovering(fs, n - 1)
      /\ Forwarding(gs, n - 1) = Forwarding(fs, n - 1)
      /\ Revoking(gs, n - 1) = Revoking(fs, n - 1)
  BY <1>2 DEF InProgress, Recovering, Forwarding, Revoking
<1>4. SoundAt(t, gs, n)
  <2>1. /\ InProgress(gs, n) = InProgress(fs, n - 1) \cup {g.message}
        /\ Recovering(gs, n) = IF g.phase = "recovering"
                               THEN Recovering(fs, n - 1) \cup {g.message}
                               ELSE Recovering(fs, n - 1)
        /\ Forwarding(gs, n) = Forwarding(fs, n - 1) \cup ToForward(g)
        /\ Revoking(gs, n) = Revoking(fs, n - 1) \cup ToRevoke(g)
    <3>1. /\ InProgress(gs, n) = InProgress(gs, n - 1) \cup {gs[n].message}
          /\ Recovering(gs, n) = IF gs[n].phase = "recovering"
                                 THEN Recovering(gs, n - 1) \cup {gs[n].message}
                                 ELSE Recovering(gs, n - 1)
          /\ Forwarding(gs, n) = Forwarding(gs, n - 1) \cup ToForward(gs[n])
          /\ Revoking(gs, n) = Revoking(gs, n - 1) \cup ToRevoke(gs[n])
      <4>1. n \in Nat \ {0}
        BY <1>1
      <4> QED
        BY <4>1, MorePromises, Zenon
    <3>2. gs[n] = g
      BY <1>1
    <3> QED
      BY <1>3, <3>1, <3>2, Zenon
  <2> QED
    BY <2>1 DEF SoundAt, n
<1>5. ASSUME NEW k \in 1 .. n PROVE FrameSound(gs, k)
  <2>1. FrameSound(fs, k) /\ k \in Nat \ {0}
    BY DEF Consistent, n
  <2>2. \A j \in 1 .. (k - 1) : gs[j] = fs[j]
    BY <1>1, <1>2
  <2>3. /\ gs[k].message = fs[k].message /\ gs[k].entered = fs[k].entered
        /\ gs[k].before = fs[k].before
        /\ gs[k].startingNativeBalance = fs[k].startingNativeBalance
    BY <1>1 DEF n
  <2> QED
    BY <2>1, <2>2, <2>3, SameFrames
<1> QED
  BY <1>1, <1>4, <1>5 DEF Consistent

\* A new frame keeps all consistent, if what it remembers is what is there.
LEMMA NewFrame ==
    ASSUME NEW s, NEW fs \in Seq(Frame), Consistent(s, fs), NEW g \in Frame,
           g.entered = s, g.phase # "recovering",
           g.message \notin InProgress(fs, Len(fs)), s.outcome[g.message] = "none",
           s.owns[g.message.tokenSent][Handler] >= g.message.amount,
           g.before = PaidStore(s, g.message),
           g.startingNativeBalance = s.owns[Native][Self],
           NEW t,
           Sound(t, InProgress(fs, Len(fs)) \cup {g.message}, Recovering(fs, Len(fs)),
                 Forwarding(fs, Len(fs)) \cup ToForward(g),
                 Revoking(fs, Len(fs)) \cup ToRevoke(g)),
           StraysKept(s, t), NEW gs, gs = Append(fs, g)
    PROVE  Consistent(t, gs)
<1> DEFINE n == Len(fs)
<1>1. /\ n \in Nat /\ Len(gs) = n + 1 /\ gs # <<>> /\ gs[n + 1] = g
      /\ \A k \in 1 .. n : gs[k] = fs[k]
      /\ (n + 1) - 1 = n /\ n + 1 \in Nat \ {0}
  OBVIOUS
<1> HIDE DEF n
<1>2. /\ InProgress(gs, n) = InProgress(fs, n)
      /\ Recovering(gs, n) = Recovering(fs, n)
      /\ Forwarding(gs, n) = Forwarding(fs, n)
      /\ Revoking(gs, n) = Revoking(fs, n)
  <2>1. \A k \in 1 .. n : gs[k] = fs[k]
    BY <1>1
  <2>2. InProgress(gs, n) = InProgress(fs, n)
    BY <2>1 DEF InProgress
  <2>3. Recovering(gs, n) = Recovering(fs, n)
    BY <2>1 DEF Recovering
  <2>4. Forwarding(gs, n) = Forwarding(fs, n)
    BY <2>1 DEF Forwarding
  <2>5. Revoking(gs, n) = Revoking(fs, n)
    BY <2>1 DEF Revoking
  <2> QED
    BY <2>2, <2>3, <2>4, <2>5
<1>3. SoundAt(t, gs, n + 1)
  <2>1. /\ InProgress(gs, n + 1) = InProgress(fs, n) \cup {g.message}
        /\ Recovering(gs, n + 1) = Recovering(fs, n)
        /\ Forwarding(gs, n + 1) = Forwarding(fs, n) \cup ToForward(g)
        /\ Revoking(gs, n + 1) = Revoking(fs, n) \cup ToRevoke(g)
    <3> DEFINE l == n + 1
    <3>1. l \in Nat \ {0} /\ l - 1 = n /\ gs[l] = g
      BY <1>1
    <3> HIDE DEF l
    <3>2. /\ InProgress(gs, l) = InProgress(gs, l - 1) \cup {gs[l].message}
          /\ Recovering(gs, l) = IF gs[l].phase = "recovering"
                                 THEN Recovering(gs, l - 1) \cup {gs[l].message}
                                 ELSE Recovering(gs, l - 1)
          /\ Forwarding(gs, l) = Forwarding(gs, l - 1) \cup ToForward(gs[l])
          /\ Revoking(gs, l) = Revoking(gs, l - 1) \cup ToRevoke(gs[l])
      BY <3>1, MorePromises
    <3> QED
      BY <1>2, <3>1, <3>2 DEF l
  <2> QED
    BY <2>1 DEF SoundAt, n
<1>4. FrameSound(gs, n + 1)
  <2>1. SoundAt(s, gs, n)
    BY <1>2 DEF Consistent, SoundAt, n
  <2>2. n + 1 > 1 => StraysKept(gs[n].entered, s)
    <3>1. CASE n = 0
      BY <3>1
    <3>2. CASE n # 0
      <4>1. gs[n] = fs[n]
        BY <1>1, <3>2
      <4>2. fs # <<>>
        BY <3>2 DEF n
      <4> QED
        BY <4>1, <4>2 DEF Consistent, n
    <3> QED
      BY <3>1, <3>2
  <2> QED
    BY <1>1, <1>2, <2>1, <2>2 DEF FrameSound, n
<1>5. ASSUME NEW k \in 1 .. n PROVE FrameSound(gs, k)
  <2>1. FrameSound(fs, k) /\ k \in Nat \ {0}
    BY DEF Consistent, n
  <2>2. gs[k] = fs[k] /\ \A j \in 1 .. (k - 1) : gs[j] = fs[j]
    BY <1>1
  <2>3. \A j \in 1 .. (k - 1) : /\ gs[j].message = fs[j].message
                               /\ gs[j].phase = fs[j].phase
                               /\ gs[j].entered = fs[j].entered
    BY <2>2, Zenon
  <2> QED
    BY <2>1, <2>2, <2>3, SameFrames, Zenon
<1>6. \A k \in 1 .. (n + 1) : FrameSound(gs, k)
  BY <1>1, <1>4, <1>5
<1> QED
  BY <1>1, <1>3, <1>6 DEF Consistent

\* Frames that stay where they are keep what holds of them.
LEMMA LowerFrames ==
    ASSUME NEW fs, NEW gs, NEW n \in Nat,
           \A k \in 1 .. n : gs[k] = fs[k] /\ FrameSound(fs, k)
    PROVE  \A k \in 1 .. n : FrameSound(gs, k)
<1> SUFFICES ASSUME NEW k \in 1 .. n PROVE FrameSound(gs, k)
  OBVIOUS
<1>1. FrameSound(fs, k) /\ k \in Nat \ {0}
  OBVIOUS
<1>2. gs[k] = fs[k] /\ \A j \in 1 .. (k - 1) : gs[j] = fs[j]
  OBVIOUS
<1>3. \A j \in 1 .. (k - 1) : /\ gs[j].message = fs[j].message
                             /\ gs[j].phase = fs[j].phase
                             /\ gs[j].entered = fs[j].entered
  BY <1>2, Zenon
<1> QED
  BY <1>1, <1>2, <1>3, SameFrames, Zenon

\* The top frame ends: the others are left, with a store that is sound for them.
LEMMA FrameEnds ==
    ASSUME NEW s, NEW fs \in Seq(Frame), fs # <<>>, Consistent(s, fs),
           NEW t, SoundAt(t, fs, Len(fs) - 1), Len(fs) > 1 => StraysKept(fs[Len(fs)].entered, t),
           NEW gs, gs = SubSeq(fs, 1, Len(fs) - 1)
    PROVE  Consistent(t, gs) /\ gs \in Seq(Frame) /\ Len(gs) = Len(fs) - 1
<1> DEFINE n == Len(fs)
<1>1. /\ n \in Nat \ {0} /\ Len(gs) = n - 1 /\ gs \in Seq(Frame)
      /\ \A k \in 1 .. (n - 1) : gs[k] = fs[k]
  <2>1. n \in Nat \ {0} /\ \A k \in 1 .. n : fs[k] \in Frame
    OBVIOUS
  <2> HIDE DEF n
  <2>2. n - 1 \in Int /\ \A k \in 1 .. (n - 1) : fs[k] \in Frame
    BY <2>1
  <2>3. /\ gs \in Seq(Frame)
        /\ Len(gs) = IF 1 <= n - 1 THEN (n - 1) - 1 + 1 ELSE 0
        /\ \A k \in 1 .. (n - 1) - 1 + 1 : gs[k] = fs[1 + k - 1]
    BY <2>2, SubSeqProperties DEF n
  <2>4. (n - 1) - 1 + 1 = n - 1 /\ \A k \in 1 .. (n - 1) : 1 + k - 1 = k
    BY <2>1
  <2> QED
    BY <2>1, <2>3, <2>4
<1> HIDE DEF n
<1>2. SoundAt(t, gs, n - 1)
  BY <1>1, SamePromises DEF SoundAt, n
<1>3. \A k \in 1 .. (n - 1) : FrameSound(gs, k)
  <2>1. \A k \in 1 .. (n - 1) : gs[k] = fs[k] /\ FrameSound(fs, k)
    BY <1>1 DEF Consistent, n
  <2>2. n - 1 \in Nat
    BY <1>1
  <2> QED
    BY <2>1, <2>2, LowerFrames, Zenon
<1>4. ASSUME gs # <<>> PROVE StraysKept(gs[n - 1].entered, t)
  <2>1. n > 1
    BY <1>1, <1>4
  <2>2. StraysKept(fs[n - 1].entered, fs[n].entered)
    <3>1. n \in 1 .. Len(fs)
      BY <1>1 DEF n
    <3>2. FrameSound(fs, n)
      BY <3>1 DEF Consistent
    <3> QED
      BY <2>1, <3>2 DEF FrameSound
  <2>3. StraysKept(fs[n].entered, t)
    BY <2>1 DEF n
  <2>4. fs[n - 1].entered \in Store /\ fs[n].entered \in Store /\ t \in Store
    <3>1. n \in 1 .. Len(fs) /\ n - 1 \in 1 .. Len(fs)
      BY <1>1, <2>1 DEF n
    <3>2. fs[n] \in Frame /\ fs[n - 1] \in Frame
      BY <3>1
    <3> QED
      BY <3>2 DEF Frame, SoundAt, Sound
  <2>5. gs[n - 1] = fs[n - 1]
    BY <1>1, <2>1
  <2>6. \A a \in Assets :
            /\ fs[n - 1].entered.strays[a] \in Nat /\ fs[n].entered.strays[a] \in Nat
            /\ t.strays[a] \in Nat
            /\ fs[n - 1].entered.strays[a] <= fs[n].entered.strays[a]
            /\ fs[n].entered.strays[a] <= t.strays[a]
    BY <2>2, <2>3, <2>4 DEF StraysKept, Store
  <2>7. \A a \in Assets : fs[n - 1].entered.strays[a] <= t.strays[a]
    BY <2>6
  <2> QED
    BY <2>5, <2>7 DEF StraysKept
<1> QED
  BY <1>1, <1>2, <1>3, <1>4 DEF Consistent, n
\* What the top frame and the store have to do with each other.
LEMMA TopFacts ==
    ASSUME NEW s, NEW fs \in Seq(Frame), fs # <<>>, Consistent(s, fs),
           NEW f, f = fs[Len(fs)], NEW m, m = f.message, NEW n, n = Len(fs) - 1
    PROVE  /\ f \in Frame /\ m \in Messages /\ n \in Nat /\ Len(fs) = n + 1
           /\ InProgress(fs, n) \in SUBSET Messages /\ Recovering(fs, n) \in SUBSET Messages
           /\ m \notin InProgress(fs, n) /\ m \notin Recovering(fs, n)
           /\ Sound(s, InProgress(fs, n) \cup {m},
                    IF f.phase = "recovering" THEN Recovering(fs, n) \cup {m}
                    ELSE Recovering(fs, n),
                    Forwarding(fs, n) \cup ToForward(f), Revoking(fs, n) \cup ToRevoke(f))
           /\ SoundAt(f.entered, fs, n) /\ f.entered.outcome[m] = "none"
           /\ f.entered.owns[m.tokenSent][Handler] >= m.amount
           /\ f.before = PaidStore(f.entered, m)
           /\ f.startingNativeBalance = f.entered.owns[Native][Self]
           /\ StraysKept(f.entered, s)
<1>1. n \in Nat /\ Len(fs) = n + 1 /\ n + 1 \in 1 .. Len(fs) /\ f = fs[n + 1]
  OBVIOUS
<1>2. f \in Frame
  BY <1>1
<1>3. m \in Messages
  BY <1>2 DEF Frame
<1>4. FrameSound(fs, n + 1)
  BY <1>1 DEF Consistent
<1>5. (n + 1) - 1 = n
  BY <1>1
<1>6. /\ SoundAt(f.entered, fs, n) /\ f.entered.outcome[m] = "none"
      /\ m \notin InProgress(fs, n)
      /\ f.entered.owns[m.tokenSent][Handler] >= m.amount
      /\ f.before = PaidStore(f.entered, m)
      /\ f.startingNativeBalance = f.entered.owns[Native][Self]
  BY <1>1, <1>4, <1>5 DEF FrameSound
<1>7. /\ InProgress(fs, n) \in SUBSET Messages /\ Recovering(fs, n) \in SUBSET Messages
      /\ Recovering(fs, n) \subseteq InProgress(fs, n)
  <2>1. n \in 0 .. Len(fs)
    BY <1>1
  <2> QED
    BY <2>1, PromisesType
<1>8. Sound(s, InProgress(fs, n) \cup {m},
            IF f.phase = "recovering" THEN Recovering(fs, n) \cup {m} ELSE Recovering(fs, n),
            Forwarding(fs, n) \cup ToForward(f), Revoking(fs, n) \cup ToRevoke(f))
  <2> DEFINE l == n + 1
  <2>1. l \in Nat \ {0} /\ l - 1 = n /\ fs[l] = f /\ Len(fs) = l
    BY <1>1
  <2> HIDE DEF l
  <2>2. /\ InProgress(fs, l) = InProgress(fs, l - 1) \cup {fs[l].message}
        /\ Recovering(fs, l) = IF fs[l].phase = "recovering"
                               THEN Recovering(fs, l - 1) \cup {fs[l].message}
                               ELSE Recovering(fs, l - 1)
        /\ Forwarding(fs, l) = Forwarding(fs, l - 1) \cup ToForward(fs[l])
        /\ Revoking(fs, l) = Revoking(fs, l - 1) \cup ToRevoke(fs[l])
    BY <2>1, MorePromises
  <2>3. SoundAt(s, fs, l)
    BY <2>1 DEF Consistent
  <2> QED
    BY <2>1, <2>2, <2>3 DEF SoundAt
<1>9. StraysKept(f.entered, s)
  BY DEF Consistent
<1> QED
  BY <1>1, <1>2, <1>3, <1>6, <1>7, <1>8, <1>9

\* What none is left of, but strays, is not to be forwarded any more; the same of
\* allowances that are gone.
LEMMA SoundForLess ==
    ASSUME NEW s, NEW P, NEW R, NEW N, NEW A, NEW M, NEW B,
           Sound(s, P, R, N, A), s.allowed \subseteq B \cup SelfApproved(s),
           \A a \in Assets : a \in N /\ a \notin M => s.owns[a][Self] <= s.strays[a]
    PROVE  Sound(s, P, R, M, B)
BY DEF Sound, OnlyStrays

\* The top frame ends with a store that is sound for the others: between
\* transactions the strays are counted anew.
LEMMA Leaves ==
    ASSUME frames \in Seq(Frame), frames # <<>>, Consistent(store, frames),
           Len(frames) <= MaxDepth,
           NEW s, SoundAt(s, frames, Len(frames) - 1), StraysKept(Top.entered, s), Leave(s)
    PROVE  Inv'
<1> DEFINE n == Len(frames) - 1
           t == Settled(s)
<1>1. n \in Nat /\ Len(frames) = n + 1
  OBVIOUS
<1>2. SoundAt(t, frames, n) /\ (Len(frames) > 1 => StraysKept(Top.entered, t))
  <2>1. CASE Len(frames) > 1
    BY <2>1 DEF Settled
  <2>2. CASE ~ (Len(frames) > 1)
    <3>1. n = 0
      BY <1>1, <2>2
    <3> HIDE DEF n
    <3>2. Sound(s, {}, {}, {}, {})
      BY <3>1, NoPromises DEF SoundAt, n
    <3>3. t = [s EXCEPT !.strays = [a \in Assets |-> Min({@[a], s.owns[a][Self]})]]
      BY <2>2 DEF Settled
    <3> HIDE DEF t
    <3>4. Sound(t, {}, {}, {}, {})
      BY <3>2, <3>3, SettledSound
    <3>5. SoundAt(t, frames, 0)
      BY <3>4, NoPromises DEF SoundAt
    <3> QED
      BY <2>2, <3>1, <3>5
  <2> QED
    BY <2>1, <2>2
<1> HIDE DEF t
<1>3. store' = t /\ frames' = SubSeq(frames, 1, Len(frames) - 1)
  BY DEF Leave, t
<1>4. Consistent(t, frames') /\ frames' \in Seq(Frame) /\ Len(frames') = Len(frames) - 1
  BY <1>2, <1>3, FrameEnds DEF Top, n
<1>5. t \in Store
  BY <1>2 DEF SoundAt, Sound
<1>6. Len(frames') <= MaxDepth
  BY <1>1, <1>4, HolderAssumption
<1> QED
  BY <1>3, <1>4, <1>5, <1>6 DEF Inv, TypeOK

\* So does a step of the top frame, with the conditions of TopStep.
LEMMA StepsInPlace ==
    ASSUME frames \in Seq(Frame), frames # <<>>, Len(frames) <= MaxDepth,
           NEW g \in Frame, frames' = WithTop(g), Consistent(store', frames')
    PROVE  Inv'
<1>1. /\ frames' \in Seq(Frame) /\ Len(frames') = Len(frames) /\ frames' # <<>>
  BY DEF WithTop
<1>2. store' \in Store
  BY DEF Consistent, SoundAt, Sound
<1> QED
  BY <1>1, <1>2 DEF Inv, TypeOK

\* A payment while the top frame performs its actions keeps the invariant.
LEMMA PaysInPlace ==
    ASSUME Inv, frames # <<>>, Top.phase \in {"performing", "calling"},
           NEW g \in Frame, g.phase \in {"performing", "calling"}, g.message = Top.message,
           g.entered = Top.entered, g.before = Top.before,
           g.startingNativeBalance = Top.startingNativeBalance, frames' = WithTop(g),
           Pays(store, store'),
           store'.allowed \subseteq store.allowed \cup AllowanceTokens(Top.message)
                                      \cup ApprovedTokens(Top.message)
    PROVE  Inv'
<1> DEFINE n == Len(frames) - 1
           m == Top.message
           P == InProgress(frames, n) \cup {m}
           R == Recovering(frames, n)
           N == Forwarding(frames, n) \cup ToForward(Top)
           A == Revoking(frames, n) \cup ToRevoke(Top)
<1>1. frames \in Seq(Frame) /\ Consistent(store, frames) /\ Len(frames) <= MaxDepth
  BY DEF Inv, TypeOK
<1>2. Top = frames[Len(frames)] /\ frames' = [frames EXCEPT ![Len(frames)] = g]
  BY DEF Top, WithTop
<1>3. /\ Recovering(frames, n) \in SUBSET Messages
      /\ Sound(store, P, IF Top.phase = "recovering" THEN R \cup {m} ELSE R, N, A)
      /\ StraysKept(Top.entered, store)
  BY <1>1, <1>2, TopFacts
<1>4. Sound(store, P, R, N, A)
  BY <1>3
<1>5. ToForward(g) = ToForward(Top)
  BY DEF ToForward
<1>6. ToRevoke(g) = ToRevoke(Top) /\ ToRevoke(Top) = AllowanceTokens(m) \cup ApprovedTokens(m)
  BY DEF ToRevoke
<1>7. store'.allowed \subseteq A \cup SelfApproved(store)
  BY <1>4, <1>6 DEF Sound
<1> HIDE DEF n, m, P, R, N, A
<1>8. Sound(store', P, R, N, A)
  BY <1>3, <1>4, <1>7, PaysKeeps DEF R
<1>9. StraysKept(g.entered, store')
  BY <1>3 DEF Pays, StraysKept
<1>10. Sound(store', InProgress(frames, Len(frames) - 1) \cup {g.message},
             IF g.phase = "recovering"
             THEN Recovering(frames, Len(frames) - 1) \cup {g.message}
             ELSE Recovering(frames, Len(frames) - 1),
             Forwarding(frames, Len(frames) - 1) \cup ToForward(g),
             Revoking(frames, Len(frames) - 1) \cup ToRevoke(g))
  BY <1>5, <1>6, <1>8 DEF n, m, P, R, N, A
<1>11. Consistent(store', frames')
  <2>1. /\ g.message = frames[Len(frames)].message /\ g.entered = frames[Len(frames)].entered
        /\ g.before = frames[Len(frames)].before
        /\ g.startingNativeBalance = frames[Len(frames)].startingNativeBalance
    BY <1>2
  <2> QED
    BY <1>1, <1>2, <1>9, <1>10, <2>1, TopStep
<1> QED
  BY <1>1, <1>11, StepsInPlace

\* With its next action a frame remembers the same.
LEMMA NextInFrame ==
    ASSUME NEW f \in Frame, NEW g, g = [f EXCEPT !.phase = "performing", !.i = @ + 1]
    PROVE  /\ g \in Frame /\ g.phase = "performing" /\ g.message = f.message
           /\ g.entered = f.entered /\ g.before = f.before
           /\ g.startingNativeBalance = f.startingNativeBalance
<1> DEFINE j == f.i + 1
<1>1. j \in Nat \ {0}
  BY DEF Frame
<1>2. g = [f EXCEPT !.phase = "performing", !.i = j]
  BY DEF Frame
<1> HIDE DEF j
<1> QED
  BY <1>1, <1>2 DEF Frame

\* What an action may be.
LEMMA ActionType ==
    ASSUME NEW m \in Messages, NEW i \in Nat \ {0}, i <= Len(m.actions)
    PROVE  m.actions[i] \in Action /\ i \in DOMAIN m.actions
BY MessageType

LEMMA CallOutsideKeeps == Inv /\ CallOutside => Inv'
<1> SUFFICES ASSUME Inv, CallOutside PROVE Inv'
  OBVIOUS
<1> DEFINE m == Top.message
           action == NextAction
           s == Approve(store, action)
           g == [Top EXCEPT !.phase = "calling"]
<1>1. /\ frames \in Seq(Frame) /\ frames # <<>> /\ Consistent(store, frames)
      /\ Len(frames) <= MaxDepth /\ store \in Store /\ Top.phase = "performing"
  BY DEF Inv, TypeOK, CallOutside, Performing, Running
<1>2. Top \in Frame /\ m \in Messages
  BY <1>1, TopFacts DEF Top
<1>3. action \in Action /\ Top.i \in DOMAIN m.actions /\ action = m.actions[Top.i]
  BY <1>2, ActionType DEF CallOutside, NextAction, Frame
<1>4. action.nativeValue \in Nat /\ action.tokenSend \in Tokens \cup {NoToken}
  BY <1>3 DEF Action
<1>5. {action.tokenSend} \ {NoToken} \subseteq AllowanceTokens(m)
  BY <1>3 DEF AllowanceTokens
<1>6. /\ s \in Store /\ s.owns = store.owns /\ s.outcome = store.outcome
      /\ s.strays = store.strays
      /\ s.allowed = store.allowed \cup ({action.tokenSend} \ {NoToken})
  BY <1>1, <1>4 DEF Approve, Store
<1>7. /\ store' = Move(s, Native, Self, Outside, action.nativeValue)
      /\ frames' = WithTop(g) /\ action.nativeValue <= store.owns[Native][Self]
  BY DEF CallOutside
<1> HIDE DEF s
<1>8. Pays(s, store') /\ store'.allowed = s.allowed
  <2>1. Native \in Assets
    BY DifferentHolders
  <2> QED
    BY <1>4, <1>6, <1>7, <2>1, MovePays
<1>9. Pays(store, store')
  BY <1>6, <1>8 DEF Pays
<1>10. /\ g \in Frame /\ g.phase = "calling" /\ g.message = Top.message
       /\ g.entered = Top.entered /\ g.before = Top.before
       /\ g.startingNativeBalance = Top.startingNativeBalance
  BY <1>2 DEF Frame
<1> HIDE DEF g, m, action
<1>11. store'.allowed \subseteq store.allowed \cup AllowanceTokens(Top.message)
  BY <1>5, <1>6, <1>8 DEF m
<1> QED
  BY <1>1, <1>7, <1>9, <1>10, <1>11, PaysInPlace

LEMMA CallTokenKeeps == Inv /\ CallToken => Inv'
<1> SUFFICES ASSUME Inv, CallToken PROVE Inv'
  OBVIOUS
<1> DEFINE action == NextAction
           g == [Top EXCEPT !.i = @ + 1]
<1>1. /\ frames \in Seq(Frame) /\ frames # <<>> /\ Consistent(store, frames)
      /\ Len(frames) <= MaxDepth /\ store \in Store /\ Top.phase = "performing"
  BY DEF Inv, TypeOK, CallToken, Performing, Running
<1>2. Top \in Frame /\ Top.message \in Messages
  BY <1>1, TopFacts DEF Top
<1>3. action \in Action /\ action.callTo = "token"
  BY <1>2, ActionType DEF CallToken, NextAction, Frame
<1>4. action.asset \in Assets /\ action.to \in Receivers
  BY <1>3 DEF Action
<1>5. /\ store' = Move(store, action.asset, Self, action.to, 1)
      /\ frames' = WithTop(g) /\ 1 <= store.owns[action.asset][Self]
  <2>1. store.owns[action.asset][Self] \in Nat
    BY <1>1, <1>4, DifferentHolders DEF Store
  <2> QED
    BY <2>1 DEF CallToken
<1> HIDE DEF action
<1>6. Pays(store, store') /\ store'.allowed = store.allowed
  BY <1>1, <1>4, <1>5, MovePays
<1>7. /\ g \in Frame /\ g.phase = "performing" /\ g.message = Top.message
      /\ g.entered = Top.entered /\ g.before = Top.before
      /\ g.startingNativeBalance = Top.startingNativeBalance
  <2>1. g = [Top EXCEPT !.phase = "performing", !.i = @ + 1]
    BY <1>1, <1>2 DEF Frame
  <2> HIDE DEF g
  <2> QED
    BY <1>2, <2>1, NextInFrame
<1> HIDE DEF g
<1> QED
  BY <1>1, <1>5, <1>6, <1>7, PaysInPlace

LEMMA CallApproveKeeps == Inv /\ CallApprove => Inv'
<1> SUFFICES ASSUME Inv, CallApprove PROVE Inv'
  OBVIOUS
<1> DEFINE m == Top.message
           action == NextAction
           given == (store.allowed \ {action.asset}) \cup
                        {t \in {action.asset} : action.amount > 0}
           g == [Top EXCEPT !.i = @ + 1]
<1>1. /\ frames \in Seq(Frame) /\ frames # <<>> /\ Consistent(store, frames)
      /\ Len(frames) <= MaxDepth /\ store \in Store /\ Top.phase = "performing"
  BY DEF Inv, TypeOK, CallApprove, Performing, Running
<1>2. Top \in Frame /\ m \in Messages
  BY <1>1, TopFacts DEF Top
<1>3. /\ action \in Action /\ Top.i \in DOMAIN m.actions /\ action = m.actions[Top.i]
      /\ action.callTo = "approve"
  BY <1>2, ActionType DEF CallApprove, NextAction, Frame
<1>4. action.asset \in Tokens
  BY <1>3 DEF Action
<1>5. action.amount > 0 => action.asset \in ApprovedTokens(m)
  BY <1>3 DEF ApprovedTokens
<1>6. store' = [store EXCEPT !.allowed = given] /\ frames' = WithTop(g)
  BY <1>1 DEF CallApprove, Store
<1>7. given \in SUBSET Tokens /\ given \subseteq store.allowed \cup ApprovedTokens(m)
  BY <1>1, <1>4, <1>5 DEF Store
<1> HIDE DEF given
<1>8. /\ store' \in Store /\ store'.owns = store.owns /\ store'.outcome = store.outcome
      /\ store'.strays = store.strays /\ store'.allowed = given
  BY <1>1, <1>6, <1>7 DEF Store
<1>9. Pays(store, store')
  BY <1>1, <1>8, PaysNothing DEF Pays
<1>10. /\ g \in Frame /\ g.phase = "performing" /\ g.message = Top.message
       /\ g.entered = Top.entered /\ g.before = Top.before
       /\ g.startingNativeBalance = Top.startingNativeBalance
  <2>1. g = [Top EXCEPT !.phase = "performing", !.i = @ + 1]
    BY <1>1, <1>2 DEF Frame
  <2> HIDE DEF g
  <2> QED
    BY <1>2, <2>1, NextInFrame
<1> HIDE DEF g, m, action
<1>11. store'.allowed \subseteq store.allowed \cup AllowanceTokens(Top.message)
                                  \cup ApprovedTokens(Top.message)
  BY <1>7, <1>8 DEF m
<1> QED
  BY <1>1, <1>6, <1>9, <1>10, <1>11, PaysInPlace

LEMMA TransferBalanceActionKeeps == Inv /\ TransferBalanceAction => Inv'
<1> SUFFICES ASSUME Inv, TransferBalanceAction PROVE Inv'
  OBVIOUS
<1> DEFINE action == NextAction
           g == IF action.asset = Native THEN [Top EXCEPT !.phase = "calling"]
                ELSE [Top EXCEPT !.i = @ + 1]
<1>1. /\ frames \in Seq(Frame) /\ frames # <<>> /\ Consistent(store, frames)
      /\ Len(frames) <= MaxDepth /\ store \in Store /\ Top.phase = "performing"
  BY DEF Inv, TypeOK, TransferBalanceAction, Performing, Running
<1>2. Top \in Frame /\ Top.message \in Messages
  BY <1>1, TopFacts DEF Top
<1>3. action \in Action /\ action.callTo = "transferBalanceAction"
  BY <1>2, ActionType DEF TransferBalanceAction, NextAction, Frame
<1>4. action.to \in Receivers
  BY <1>3 DEF Action
<1>5. store' = TransferBalance(store, action.asset, action.to) /\ frames' = WithTop(g)
  BY DEF TransferBalanceAction
<1>6. Pays(store, store') /\ store'.allowed = store.allowed
  BY <1>1, <1>4, <1>5, BalancePays
<1>7. /\ g \in Frame /\ g.phase \in {"performing", "calling"} /\ g.message = Top.message
      /\ g.entered = Top.entered /\ g.before = Top.before
      /\ g.startingNativeBalance = Top.startingNativeBalance
  <2>1. CASE action.asset = Native
    BY <1>2, <2>1 DEF Frame
  <2>2. CASE action.asset # Native
    <3>1. g = [Top EXCEPT !.phase = "performing", !.i = @ + 1]
      BY <1>1, <1>2, <2>2 DEF Frame
    <3> HIDE DEF g
    <3> QED
      BY <1>2, <3>1, NextInFrame
  <2> QED
    BY <2>1, <2>2
<1> HIDE DEF g, action
<1> QED
  BY <1>1, <1>5, <1>6, <1>7, PaysInPlace

LEMMA ActionReturnsKeeps == Inv /\ ActionReturns => Inv'
<1> SUFFICES ASSUME Inv, ActionReturns PROVE Inv'
  OBVIOUS
<1> DEFINE g == [Top EXCEPT !.phase = "performing", !.i = @ + 1]
<1>1. /\ frames \in Seq(Frame) /\ frames # <<>> /\ Consistent(store, frames)
      /\ Len(frames) <= MaxDepth /\ store \in Store /\ Top.phase = "calling"
      /\ store' = store /\ frames' = WithTop(g)
  BY DEF Inv, TypeOK, ActionReturns, Running
<1>2. Top \in Frame
  BY <1>1, TopFacts DEF Top
<1>3. Pays(store, store') /\ store'.allowed = store.allowed
  BY <1>1, PaysNothing
<1>4. /\ g \in Frame /\ g.phase = "performing" /\ g.message = Top.message
      /\ g.entered = Top.entered /\ g.before = Top.before
      /\ g.startingNativeBalance = Top.startingNativeBalance
  <2>1. g = [Top EXCEPT !.phase = "performing", !.i = @ + 1]
    BY <1>1, <1>2 DEF Frame
  <2> HIDE DEF g
  <2> QED
    BY <1>2, <2>1, NextInFrame
<1> HIDE DEF g
<1> QED
  BY <1>1, <1>3, <1>4, PaysInPlace
LEMMA ReturnNativeKeeps == Inv /\ ReturnNative => Inv'
<1> SUFFICES ASSUME Inv, ReturnNative PROVE Inv'
  OBVIOUS
<1> DEFINE n == Len(frames) - 1
           m == Top.message
           P == InProgress(frames, n) \cup {m}
           R == Recovering(frames, n)
           N == Forwarding(frames, n)
           A == Revoking(frames, n)
           g == [Top EXCEPT !.phase = "returning"]
<1>1. /\ frames \in Seq(Frame) /\ frames # <<>> /\ Consistent(store, frames)
      /\ Len(frames) <= MaxDepth /\ store \in Store /\ Top.phase = "performing"
      /\ Top = frames[Len(frames)]
  BY DEF Inv, TypeOK, ReturnNative, PerformedAll, Performing, Running, Top
<1>2. /\ Top \in Frame /\ m \in Messages /\ R \in SUBSET Messages
      /\ Sound(store, P, IF Top.phase = "recovering" THEN R \cup {m} ELSE R,
               N \cup ToForward(Top), A \cup ToRevoke(Top))
      /\ StraysKept(Top.entered, store)
  BY <1>1, TopFacts
<1>3. store' = TransferBalance(store, Native, m.receiver) /\ frames' = WithTop(g)
  BY DEF ReturnNative
<1>4. Pays(store, store') /\ store'.allowed = store.allowed /\ store'.owns[Native][Self] = 0
  <2>1. m.receiver \in Receivers /\ Native \in Assets
    BY <1>2, MessageType, DifferentHolders
  <2> QED
    BY <1>1, <1>3, <2>1, BalancePays
<1>5. /\ g \in Frame /\ g.phase = "returning" /\ g.message = Top.message
      /\ g.entered = Top.entered /\ g.before = Top.before
      /\ g.startingNativeBalance = Top.startingNativeBalance
  BY <1>2 DEF Frame
<1> HIDE DEF g
<1>6. ToRevoke(g) = ToRevoke(Top)
  BY <1>1, <1>5 DEF ToRevoke
<1>7. \A a \in ToForward(Top) : a # Native => a \in ToForward(g)
  BY <1>1, <1>5 DEF ToForward
<1>8. Sound(store', P, R, N \cup ToForward(g), A \cup ToRevoke(g))
  <2>1. Sound(store, P, R, N \cup ToForward(Top), A \cup ToRevoke(Top))
    BY <1>1, <1>2
  <2> HIDE DEF P, R, N, A
  <2>2. /\ store'.allowed \subseteq A \cup ToRevoke(Top) \cup SelfApproved(store)
        /\ SelfApproved(store') = SelfApproved(store)
    BY <1>4, <2>1, SelfApprovedSame DEF Sound, Pays
  <2>3. Sound(store', P, R, N \cup ToForward(Top), A \cup ToRevoke(Top))
    BY <1>2, <1>4, <2>1, <2>2, PaysKeeps
  <2>4. store' \in Store
    BY <2>3 DEF Sound
  <2>5. 0 <= store'.strays[Native]
    BY <2>4, DifferentHolders DEF Store
  <2>6. \A a \in Assets : a \in N \cup ToForward(Top) /\ a \notin N \cup ToForward(g) =>
            store'.owns[a][Self] <= store'.strays[a]
    BY <1>4, <1>7, <2>5
  <2> QED
    BY <1>6, <2>2, <2>3, <2>6, SoundForLess
<1>9. StraysKept(g.entered, store')
  BY <1>2, <1>4, <1>5 DEF Pays, StraysKept
<1>10. Sound(store', InProgress(frames, Len(frames) - 1) \cup {g.message},
             IF g.phase = "recovering"
             THEN Recovering(frames, Len(frames) - 1) \cup {g.message}
             ELSE Recovering(frames, Len(frames) - 1),
             Forwarding(frames, Len(frames) - 1) \cup ToForward(g),
             Revoking(frames, Len(frames) - 1) \cup ToRevoke(g))
  BY <1>5, <1>8
<1>11. Consistent(store', frames')
  <2>1. /\ g.message = frames[Len(frames)].message /\ g.entered = frames[Len(frames)].entered
        /\ g.before = frames[Len(frames)].before
        /\ g.startingNativeBalance = frames[Len(frames)].startingNativeBalance
    BY <1>1, <1>5
  <2>2. frames' = [frames EXCEPT ![Len(frames)] = g]
    BY <1>3 DEF WithTop
  <2> QED
    BY <1>1, <1>9, <1>10, <2>1, <2>2, TopStep
<1> QED
  BY <1>1, <1>3, <1>5, <1>11, StepsInPlace

LEMMA FinishKeeps == Inv /\ Finish => Inv'
<1> SUFFICES ASSUME Inv, Finish PROVE Inv'
  OBVIOUS
<1> DEFINE n == Len(frames) - 1
           m == Top.message
           Q == InProgress(frames, n)
           R == Recovering(frames, n)
           N == Forwarding(frames, n)
           A == Revoking(frames, n)
           sent == TransferTokenSent(store, m)
           left == ReturnLeftOvers(sent, m)
           done == Executed(store, m)
<1>1. /\ frames \in Seq(Frame) /\ frames # <<>> /\ Consistent(store, frames)
      /\ Len(frames) <= MaxDepth /\ store \in Store
      /\ \/ Top.phase = "performing" /\ ~ReceivedNative(store, Top)
         \/ Top.phase = "returning"
      /\ Top = frames[Len(frames)]
  BY DEF Inv, TypeOK, Finish, PerformedAll, Performing, Running, Top
<1>2. /\ Top \in Frame /\ m \in Messages /\ R \in SUBSET Messages /\ Q \in SUBSET Messages
      /\ m \notin Q /\ m \notin R
      /\ Sound(store, Q \cup {m}, IF Top.phase = "recovering" THEN R \cup {m} ELSE R,
               N \cup ToForward(Top), A \cup ToRevoke(Top))
      /\ StraysKept(Top.entered, store) /\ SoundAt(Top.entered, frames, n)
      /\ Top.startingNativeBalance = Top.entered.owns[Native][Self]
  <2>1. m = Top.message /\ n = Len(frames) - 1
    OBVIOUS
  <2> HIDE DEF m, n
  <2>2. /\ Top \in Frame /\ m \in Messages /\ R \in SUBSET Messages
        /\ Q \in SUBSET Messages /\ m \notin Q /\ m \notin R
    BY <1>1, <2>1, TopFacts
  <2>3. Sound(store, Q \cup {m}, IF Top.phase = "recovering" THEN R \cup {m} ELSE R,
              N \cup ToForward(Top), A \cup ToRevoke(Top))
    BY <1>1, <2>1, TopFacts
  <2>4. StraysKept(Top.entered, store)
    BY <1>1, <2>1, TopFacts
  <2>5. SoundAt(Top.entered, frames, n)
    BY <1>1, <2>1, TopFacts
  <2>6. Top.startingNativeBalance = Top.entered.owns[Native][Self]
    BY <1>1, <2>1, TopFacts
  <2> QED
    BY <2>2, <2>3, <2>4, <2>5, <2>6
<1>3. Sound(store, Q \cup {m}, R, N \cup ToForward(Top), A \cup ToRevoke(Top))
  BY <1>1, <1>2
<1>4. /\ Pays(store, sent) /\ sent.allowed = store.allowed
      /\ m.tokenSent # Native => sent.owns[m.tokenSent][Self] = 0
  BY <1>1, <1>2, TokenSentPays
<1>5. sent \in Store
  BY <1>4 DEF Pays
<1> HIDE DEF sent
<1>6. /\ Pays(sent, left) /\ left.allowed = sent.allowed \ AllowanceTokens(m)
      /\ \A a \in ActionTokens(m) \cap Assets : left.owns[a][Self] = 0
  BY <1>2, <1>5, LeftOversPay
<1>7. left = ReturnLeftOvers(sent, m) /\ done = [left EXCEPT !.outcome[m] = "executed"]
  BY DEF Executed, sent
<1> HIDE DEF left, done
<1>8. Pays(store, left)
  BY <1>1, <1>4, <1>6, PaysTwice
<1>9. left \in Store /\ left.strays = store.strays
  BY <1>8 DEF Pays
<1>10. /\ left.allowed \subseteq A \cup ApprovedTokens(m) \cup SelfApproved(store)
       /\ left.allowed \subseteq A \cup ToRevoke(Top) \cup SelfApproved(store)
       /\ SelfApproved(left) = SelfApproved(store)
  <2>1. ToRevoke(Top) = AllowanceTokens(m) \cup ApprovedTokens(m)
    BY <1>1 DEF ToRevoke
  <2>2. SelfApproved(left) = SelfApproved(store)
    BY <1>8, SelfApprovedSame DEF Pays
  <2> QED
    BY <1>3, <1>4, <1>6, <2>1, <2>2 DEF Sound
<1>11. Sound(left, Q \cup {m}, R, N \cup ToForward(Top), A \cup ToRevoke(Top))
  <2> DEFINE P == Q \cup {m}
             M == N \cup ToForward(Top)
             B == A \cup ToRevoke(Top)
  <2>1. Sound(store, P, R, M, B) /\ left.allowed \subseteq B \cup SelfApproved(store)
    BY <1>3, <1>10
  <2> HIDE DEF P, M, B
  <2>2. Sound(left, P, R, M, B)
    BY <1>2, <1>8, <2>1, PaysKeeps
  <2> QED
    BY <2>2 DEF P, M, B
<1>12. \A a \in Assets : a \in N \cup ToForward(Top) /\ a \notin N =>
           left.owns[a][Self] <= left.strays[a]
  <2> SUFFICES ASSUME NEW a \in Assets, a \in ToForward(Top), a \notin N
               PROVE  left.owns[a][Self] <= left.strays[a]
    OBVIOUS
  <2>1. /\ left.owns[a][Self] \in Nat /\ sent.owns[a][Self] \in Nat
        /\ store.owns[a][Self] \in Nat /\ left.strays[a] \in Nat
    BY <1>1, <1>5, <1>9, DifferentHolders DEF Store
  <2>2. CASE a \in ActionTokens(m)
    BY <1>6, <2>1, <2>2
  <2>3. CASE a = m.tokenSent /\ a # Native
    <3>1. left.owns[a][Self] <= sent.owns[a][Self]
      BY <1>6 DEF Pays
    <3> QED
      BY <1>4, <2>1, <2>3, <3>1
  <2>4. CASE a = Native
    <3>1. Top.phase = "performing" /\ ~ReceivedNative(store, Top)
      BY <1>1, <2>4 DEF ToForward
    <3>2. ~ (store.owns[Native][Self] > Top.entered.owns[Native][Self])
      BY <1>2, <3>1 DEF ReceivedNative
    <3>3. Top.entered.owns[Native][Self] <= Top.entered.strays[Native]
      BY <1>2, <2>4 DEF SoundAt, Sound, OnlyStrays, n
    <3>4. Top.entered.strays[Native] <= store.strays[Native]
      BY <1>2, <2>4 DEF StraysKept
    <3>5. left.owns[Native][Self] <= store.owns[Native][Self]
      BY <1>8, <2>4 DEF Pays
    <3>6. Top.entered.owns[Native][Self] \in Nat /\ Top.entered.strays[Native] \in Nat
      BY <1>2, <2>4, DifferentHolders DEF SoundAt, Sound, Store
    <3> QED
      BY <1>9, <2>1, <2>4, <3>2, <3>3, <3>4, <3>5, <3>6
  <2>5. a \in ActionTokens(m) \/ a = m.tokenSent \/ a = Native
    BY <1>1 DEF ToForward
  <2> QED
    BY <2>2, <2>3, <2>4, <2>5
<1> HIDE DEF n, m, Q, R, N, A
<1>13. Sound(left, Q \cup {m}, R, N, A \cup ApprovedTokens(m))
  BY <1>10, <1>11, <1>12, SoundForLess
<1>14. Sound(done, Q, R, N, A)
  BY <1>2, <1>7, <1>13, ExecutedSound
<1>15. done.strays = store.strays
  BY <1>7, <1>9 DEF Store
<1>16. SoundAt(done, frames, Len(frames) - 1) /\ StraysKept(Top.entered, done)
  BY <1>2, <1>14, <1>15 DEF SoundAt, StraysKept, n, Q, R, N, A
<1>17. Leave(done)
  BY DEF Finish, done, m
<1> QED
  BY <1>1, <1>16, <1>17, Leaves
\* What is paid to the receiver of a message whose actions have failed: the balance
\* of the token that came with it, and after that the coins, if there are more than
\* before.
Repaid(e, m) ==
    LET s == TransferTokenSent(PaidStore(e, m), m)
    IN  IF s.owns[Native][Self] > e.owns[Native][Self]
        THEN TransferBalance(s, Native, m.receiver) ELSE s

LEMMA RepaidSound ==
    ASSUME NEW e, NEW P \in SUBSET Messages, NEW R \in SUBSET Messages, NEW N, NEW A,
           Sound(e, P, R, N, A), NEW m \in Messages, m \notin P, m \notin R,
           e.outcome[m] = "none", e.owns[m.tokenSent][Handler] >= m.amount
    PROVE  /\ Sound(Repaid(e, m), P \cup {m}, R \cup {m}, N, A)
           /\ StraysKept(e, Repaid(e, m))
<1> DEFINE s == TransferTokenSent(PaidStore(e, m), m)
           t == Repaid(e, m)
<1>a. \/ /\ s.owns[Native][Self] > e.owns[Native][Self]
         /\ t = TransferBalance(s, Native, m.receiver)
      \/ ~ (s.owns[Native][Self] > e.owns[Native][Self]) /\ t = s
  BY DEF Repaid
<1>b. s = TransferTokenSent(PaidStore(e, m), m)
  OBVIOUS
<1> HIDE DEF s, t
<1> DEFINE b == PaidStore(e, m)
           a == m.tokenSent
           r == m.receiver
           Q == P \cup {m}
           M == N \cup {a}
<1>1. a \in Assets /\ r \in Receivers /\ m.amount \in Nat /\ Native \in Assets /\ e \in Store
      /\ Q \in SUBSET Messages
  BY MessageType, DifferentHolders DEF Sound
<1>2. /\ Sound(b, Q, R, M, A) /\ b.strays = e.strays /\ b.outcome = e.outcome
      /\ b.owns[a][Self] = e.owns[a][Self] + m.amount
      /\ \A c \in Assets \ {a} : b.owns[c][Self] = e.owns[c][Self]
      /\ b.allowed = e.allowed
  <2>1. b = PaidStore(e, m)
    OBVIOUS
  <2> HIDE DEF b
  <2>2. Sound(b, P \cup {m}, R, N \cup {m.tokenSent}, A)
    BY <2>1, PaidSound
  <2>3. /\ b.strays = e.strays /\ b.outcome = e.outcome /\ b.allowed = e.allowed
        /\ b.owns[m.tokenSent][Self] = e.owns[m.tokenSent][Self] + m.amount
        /\ \A c \in Assets \ {m.tokenSent} : b.owns[c][Self] = e.owns[c][Self]
    BY <1>1, <2>1, PaidMoves
  <2> QED
    BY <2>2, <2>3
<1> HIDE DEF b, Q, M
<1>3. s = TransferTokenSent(b, m)
  BY <1>b DEF b
<1>4. b \in Store
  BY <1>2 DEF Sound
<1>5. /\ Pays(b, s) /\ s.allowed = b.allowed
      /\ a = Native => s = b
      /\ a # Native => /\ s.owns[a][Self] = 0
                       /\ s.owns[a][r] = b.owns[a][r] + b.owns[a][Self]
      /\ \A c \in Assets \ {a} : s.owns[c] = b.owns[c]
  BY <1>3, <1>4, TokenSentPays
<1>6. s \in Store
  BY <1>5 DEF Pays
<1>7. /\ Pays(s, t) /\ t.allowed = s.allowed
      /\ s.owns[Native][Self] > e.owns[Native][Self] =>
             /\ t.owns[Native][Self] = 0
             /\ t.owns[Native][r] = s.owns[Native][r] + s.owns[Native][Self]
      /\ \A c \in Assets \ {Native} : t.owns[c] = s.owns[c]
  <2>1. CASE t = TransferBalance(s, Native, r)
    BY <1>1, <1>6, <2>1, BalancePays
  <2>2. CASE ~ (s.owns[Native][Self] > e.owns[Native][Self]) /\ t = s
    BY <1>6, <2>2, PaysNothing
  <2> QED
    BY <1>a, <2>1, <2>2
<1>8. Pays(b, t) /\ t.allowed = b.allowed
  BY <1>4, <1>5, <1>7, PaysTwice
<1>9. t \in Store /\ t.strays = e.strays
  BY <1>2, <1>8 DEF Pays
<1>10. /\ b.owns[a][r] \in Nat /\ b.owns[a][Self] \in Nat /\ e.owns[a][Self] \in Nat
       /\ s.owns[a][r] \in Nat /\ t.owns[a][r] \in Nat /\ t.owns[a][Self] \in Nat
       /\ e.strays[a] \in Nat
  BY <1>1, <1>4, <1>6, <1>9, DifferentHolders DEF Store
<1>11. /\ b.owns[a][r] + m.amount <= t.owns[a][r]
       /\ t.owns[a][Self] = 0 \/ t.owns[a][Self] <= e.owns[a][Self]
  <2>1. CASE a # Native
    <3>1. t.owns[a] = s.owns[a]
      BY <1>1, <1>7, <2>1
    <3>2. s.owns[a][Self] = 0 /\ s.owns[a][r] = b.owns[a][r] + b.owns[a][Self]
      BY <1>5, <2>1
    <3> QED
      BY <1>1, <1>2, <1>10, <3>1, <3>2
  <2>2. CASE a = Native
    <3>1. s = b
      BY <1>5, <2>2
    <3>2. CASE b.owns[a][Self] > e.owns[a][Self]
      <4>1. t.owns[a][Self] = 0 /\ t.owns[a][r] = b.owns[a][r] + b.owns[a][Self]
        BY <1>7, <2>2, <3>1, <3>2
      <4> QED
        BY <1>1, <1>2, <1>10, <4>1
    <3>3. CASE ~ (b.owns[a][Self] > e.owns[a][Self])
      <4>1. t = b
        BY <1>a, <2>2, <3>1, <3>3
      <4>2. m.amount = 0
        BY <1>1, <1>2, <1>10, <3>3
      <4> QED
        BY <1>2, <1>10, <4>1, <4>2
    <3> QED
      BY <3>2, <3>3
  <2> QED
    BY <2>1, <2>2
<1>12. Sound(t, Q \cup {}, R \cup {m}, M, A)
  <2>1. m \in Q
    BY DEF Q
  <2>2. Sound(t, Q, R \cup {m}, M, A)
    BY <1>2, <1>8, <1>11, <2>1, DueSound
  <2> QED
    BY <2>2
<1>13. Sound(t, Q, R \cup {m}, N, A)
  <2>1. \A c \in Assets : c \in M /\ c \notin N => t.owns[c][Self] <= t.strays[c]
    <3> SUFFICES ASSUME a \notin N PROVE t.owns[a][Self] <= t.strays[a]
      BY DEF M
    <3>1. e.owns[a][Self] <= e.strays[a]
      BY <1>1 DEF Sound, OnlyStrays
    <3> QED
      BY <1>9, <1>10, <1>11, <3>1
  <2>2. t.allowed \subseteq A \cup SelfApproved(t)
    BY <1>2, <1>8, SelfApprovedSame DEF Sound, Pays
  <2>3. Q \cup {} = Q
    OBVIOUS
  <2> HIDE DEF a
  <2> QED
    BY <1>12, <2>1, <2>2, <2>3, SoundForLess
<1>14. StraysKept(e, t)
  BY <1>1, <1>9 DEF StraysKept, Store
<1> QED
  BY <1>13, <1>14 DEF Q, t

LEMMA RecoverKeeps == Inv /\ Recover => Inv'
<1> SUFFICES ASSUME Inv, Recover PROVE Inv'
  OBVIOUS
<1> DEFINE n == Len(frames) - 1
           m == Top.message
           e == Top.entered
           P == InProgress(frames, n)
           R == Recovering(frames, n)
           N == Forwarding(frames, n)
           A == Revoking(frames, n)
           s == TransferTokenSent(Undone(Top), m)
           t == IF ReceivedNative(s, Top) THEN TransferBalance(s, Native, m.receiver) ELSE s
           g == [Top EXCEPT !.phase = "recovering"]
<1>1. /\ frames \in Seq(Frame) /\ frames # <<>> /\ Consistent(store, frames)
      /\ Len(frames) <= MaxDepth /\ store \in Store /\ Top = frames[Len(frames)]
  BY DEF Inv, TypeOK, Recover, CanFail, Running, Top
<1>2. m = Top.message /\ n = Len(frames) - 1
  OBVIOUS
<1> HIDE DEF m, n
<1>3. /\ Top \in Frame /\ m \in Messages /\ R \in SUBSET Messages
      /\ P \in SUBSET Messages /\ m \notin P /\ m \notin R
  BY <1>1, <1>2, TopFacts
<1>4. SoundAt(e, frames, n)
  BY <1>1, <1>2, TopFacts
<1>5. FrameSound(frames, Len(frames))
  BY <1>1 DEF Consistent
<1>6. /\ e.outcome[m] = "none" /\ e.owns[m.tokenSent][Handler] >= m.amount
      /\ Top.before = PaidStore(e, m)
  BY <1>1, <1>5 DEF FrameSound, m
<1>7. Top.startingNativeBalance = e.owns[Native][Self]
  BY <1>1, <1>2, TopFacts
<1> HIDE DEF e, s
<1>8. Sound(e, P, R, N, A)
  BY <1>4 DEF SoundAt
<1>9. t = Repaid(e, m)
  BY <1>6, <1>7 DEF s, Undone, ReceivedNative, Repaid
<1> HIDE DEF P, R, N, A, t
<1>10. Sound(Repaid(e, m), P \cup {m}, R \cup {m}, N, A) /\ StraysKept(e, Repaid(e, m))
  BY <1>3, <1>6, <1>8, RepaidSound
<1>11. Sound(t, P \cup {m}, R \cup {m}, N, A)
  BY <1>9, <1>10
<1>12. StraysKept(e, t)
  BY <1>9, <1>10
<1>13. CASE ReceivedNative(s, Top)
  <2>1. store' = t /\ frames' = WithTop(g)
    BY <1>13 DEF Recover, s, t, m
  <2>2. /\ g \in Frame /\ g.phase = "recovering" /\ g.message = Top.message
        /\ g.entered = Top.entered /\ g.before = Top.before
        /\ g.startingNativeBalance = Top.startingNativeBalance
    BY <1>3 DEF Frame
  <2> HIDE DEF g
  <2>3. ToForward(g) = {} /\ ToRevoke(g) = {}
    BY <2>2 DEF ToForward, ToRevoke
  <2>4. Sound(store', InProgress(frames, Len(frames) - 1) \cup {g.message},
              IF g.phase = "recovering"
              THEN Recovering(frames, Len(frames) - 1) \cup {g.message}
              ELSE Recovering(frames, Len(frames) - 1),
              Forwarding(frames, Len(frames) - 1) \cup ToForward(g),
              Revoking(frames, Len(frames) - 1) \cup ToRevoke(g))
    <3>1. N \cup {} = N /\ A \cup {} = A
      OBVIOUS
    <3> QED
      BY <1>2, <1>11, <2>1, <2>2, <2>3, <3>1 DEF n, m, P, R, N, A
  <2>5. StraysKept(g.entered, store')
    BY <1>12, <2>1, <2>2 DEF e
  <2>6. /\ g.message = frames[Len(frames)].message /\ g.entered = frames[Len(frames)].entered
        /\ g.before = frames[Len(frames)].before
        /\ g.startingNativeBalance = frames[Len(frames)].startingNativeBalance
        /\ frames' = [frames EXCEPT ![Len(frames)] = g]
    BY <1>1, <2>1, <2>2 DEF WithTop
  <2>7. Consistent(store', frames')
    BY <1>1, <2>4, <2>5, <2>6, TopStep
  <2> QED
    BY <1>1, <2>1, <2>2, <2>7, StepsInPlace
<1>14. CASE ~ReceivedNative(s, Top)
  <2> DEFINE u == Recovered(t, m)
  <2>1. Leave(u) /\ t = s
    BY <1>14 DEF Recover, s, t, m
  <2>2. t \in Store
    BY <1>11 DEF Sound
  <2>3. u.strays = t.strays
    BY <2>2 DEF Recovered, Store
  <2>4. u = Recovered(t, m)
    OBVIOUS
  <2> HIDE DEF u
  <2>5. Sound(u, P, R, N, A)
    BY <1>3, <1>11, <2>4, RecoveredSound
  <2>6. SoundAt(u, frames, Len(frames) - 1)
    BY <2>5 DEF SoundAt, P, R, N, A, n
  <2>7. StraysKept(Top.entered, u)
    BY <1>12, <2>3 DEF StraysKept, e
  <2> QED
    BY <1>1, <2>1, <2>6, <2>7, Leaves
<1> QED
  BY <1>13, <1>14
LEMMA FinishRecoveryKeeps == Inv /\ FinishRecovery => Inv'
<1> SUFFICES ASSUME Inv, FinishRecovery PROVE Inv'
  OBVIOUS
<1> DEFINE n == Len(frames) - 1
           m == Top.message
           P == InProgress(frames, n)
           R == Recovering(frames, n)
           N == Forwarding(frames, n)
           A == Revoking(frames, n)
           u == Recovered(store, m)
<1>1. /\ frames \in Seq(Frame) /\ frames # <<>> /\ Consistent(store, frames)
      /\ Len(frames) <= MaxDepth /\ store \in Store /\ Top = frames[Len(frames)]
  BY DEF Inv, TypeOK, FinishRecovery, Running, Top
<1>2. m = Top.message /\ n = Len(frames) - 1
  OBVIOUS
<1> HIDE DEF m, n
<1>3. /\ Top \in Frame /\ m \in Messages /\ R \in SUBSET Messages
      /\ P \in SUBSET Messages /\ m \notin P /\ m \notin R
  BY <1>1, <1>2, TopFacts
<1>4. Top.phase = "recovering" /\ ToForward(Top) = {} /\ ToRevoke(Top) = {}
  BY DEF ToForward, ToRevoke, FinishRecovery
<1>5. StraysKept(Top.entered, store)
  BY <1>1, <1>2, TopFacts
<1>6. /\ InProgress(frames, Len(frames)) = P \cup {m}
      /\ Recovering(frames, Len(frames)) = R \cup {m}
      /\ Forwarding(frames, Len(frames)) = N
      /\ Revoking(frames, Len(frames)) = A
  <2>1. Len(frames) \in Nat \ {0}
    BY <1>1
  <2>2. /\ InProgress(frames, Len(frames))
               = InProgress(frames, Len(frames) - 1) \cup {frames[Len(frames)].message}
        /\ Recovering(frames, Len(frames)) =
               IF frames[Len(frames)].phase = "recovering"
               THEN Recovering(frames, Len(frames) - 1) \cup {frames[Len(frames)].message}
               ELSE Recovering(frames, Len(frames) - 1)
        /\ Forwarding(frames, Len(frames))
               = Forwarding(frames, Len(frames) - 1) \cup ToForward(frames[Len(frames)])
        /\ Revoking(frames, Len(frames))
               = Revoking(frames, Len(frames) - 1) \cup ToRevoke(frames[Len(frames)])
    BY <2>1, MorePromises
  <2>3. Top = frames[Len(frames)]
    BY <1>1
  <2> QED
    BY <1>2, <1>4, <2>2, <2>3
<1>7. SoundAt(store, frames, Len(frames))
  BY <1>1 DEF Consistent
<1> HIDE DEF P, R, N, A
<1>8. Sound(store, P \cup {m}, R \cup {m}, N, A)
  BY <1>6, <1>7 DEF SoundAt
<1>9. Sound(u, P, R, N, A)
  BY <1>3, <1>8, RecoveredSound
<1>10. SoundAt(u, frames, Len(frames) - 1)
  BY <1>2, <1>9 DEF SoundAt, P, R, N, A
<1>11. StraysKept(Top.entered, u)
  BY <1>1, <1>2, <1>5 DEF StraysKept, Recovered, Store
<1>12. Leave(u)
  BY DEF FinishRecovery, u, m
<1> QED
  BY <1>1, <1>10, <1>11, <1>12, Leaves

\* A handler that reverts leaves what was there before it paid.
LEMMA RejectKeeps == Inv /\ (RejectForGas \/ RejectRefused) => Inv'
<1> SUFFICES ASSUME Inv, RejectForGas \/ RejectRefused PROVE Inv'
  OBVIOUS
<1> DEFINE e == Top.entered
<1>1. /\ frames \in Seq(Frame) /\ frames # <<>> /\ Consistent(store, frames)
      /\ Len(frames) <= MaxDepth /\ Top = frames[Len(frames)]
  BY DEF Inv, TypeOK, RejectForGas, RejectRefused, CanFail, Running, Top
<1>2. SoundAt(e, frames, Len(frames) - 1)
  BY <1>1, TopFacts
<1>3. Leave(e)
  BY DEF RejectForGas, RejectRefused, HandlerReverted
<1>4. StraysKept(e, e)
  <2>1. e \in Store
    BY <1>2 DEF SoundAt, Sound
  <2>2. \A a \in Assets : e.strays[a] \in Nat
    BY <2>1 DEF Store
  <2> QED
    BY <2>2 DEF StraysKept
<1> HIDE DEF e
<1>5. StraysKept(Top.entered, e)
  BY <1>4 DEF e
<1> QED
  BY <1>1, <1>2, <1>3, <1>5, Leaves

\* Stores are exchanged below the frames that are in progress.
LEMMA UnderFrames ==
    ASSUME Inv, UNCHANGED frames,
           Sound(store', InProgress(frames, Len(frames)), Recovering(frames, Len(frames)),
                 Forwarding(frames, Len(frames)), Revoking(frames, Len(frames))),
           StraysKept(store, store')
    PROVE  Inv'
<1>1. store \in Store /\ store' \in Store
  BY DEF Inv, TypeOK, Sound
<1>2. SoundAt(store', frames, Len(frames))
  BY DEF SoundAt
<1>3. ASSUME frames # <<>> PROVE StraysKept(Top.entered, store')
  <2>1. StraysKept(Top.entered, store)
    BY <1>3 DEF Inv, Consistent, Top
  <2>2. Top.entered \in Store
    <3>1. Len(frames) \in 1 .. Len(frames) /\ frames \in Seq(Frame)
      BY <1>3 DEF Inv, TypeOK
    <3>2. Top \in Frame
      BY <3>1 DEF Top
    <3> QED
      BY <3>2 DEF Frame
  <2>3. \A a \in Assets : Top.entered.strays[a] \in Nat /\ store.strays[a] \in Nat
                          /\ store'.strays[a] \in Nat
                          /\ Top.entered.strays[a] <= store.strays[a]
                          /\ store.strays[a] <= store'.strays[a]
    BY <1>1, <2>1, <2>2 DEF StraysKept, Store
  <2>4. \A a \in Assets : Top.entered.strays[a] <= store'.strays[a]
    BY <2>3
  <2> QED
    BY <2>4 DEF StraysKept
<1>4. Consistent(store', frames)
  BY <1>2, <1>3 DEF Inv, Consistent, Top
<1> QED
  BY <1>1, <1>4 DEF Inv, TypeOK

LEMMA TakeAllowedKeeps == ASSUME NEW t \in Tokens PROVE Inv /\ TakeAllowed(t) => Inv'
<1> SUFFICES ASSUME Inv, TakeAllowed(t) PROVE Inv'
  OBVIOUS
<1> DEFINE n == Len(frames)
           P == InProgress(frames, n)
           R == Recovering(frames, n)
           N == Forwarding(frames, n)
           A == Revoking(frames, n)
<1>1. store \in Store /\ frames \in Seq(Frame) /\ Sound(store, P, R, N, A)
  BY DEF Inv, TypeOK, Consistent, SoundAt
<1>2. t \in Assets /\ Self \in Holders
  BY DifferentHolders
<1>3. store.owns[t][Self] \in Nat
  BY <1>1, <1>2 DEF Store
<1>4. /\ 1 <= store.owns[t][Self] /\ store' = Move(store, t, Self, Outside, 1)
      /\ UNCHANGED frames
  BY <1>3 DEF TakeAllowed
<1>5. Pays(store, store') /\ store'.allowed = store.allowed
  <2> DEFINE one == 1
             to == Outside
  <2>1. to \in Receivers \cup {Outside} /\ one \in Nat /\ one <= store.owns[t][Self]
        /\ store' = Move(store, t, Self, to, one) /\ store \in Store /\ t \in Assets
    BY <1>1, <1>2, <1>4
  <2> HIDE DEF one, to
  <2> QED
    BY <2>1, MovePays
<1>6. R \in SUBSET Messages
  <2>1. n \in 0 .. Len(frames)
    BY <1>1
  <2> QED
    BY <1>1, <2>1, PromisesType
<1> HIDE DEF n, P, R, N, A
<1>7. store'.allowed \subseteq A \cup SelfApproved(store)
  BY <1>1, <1>5 DEF Sound
<1>8. Sound(store', P, R, N, A)
  BY <1>1, <1>5, <1>6, <1>7, PaysKeeps
<1>9. StraysKept(store, store')
  BY <1>1, <1>5 DEF Pays, StraysKept, Store
<1> QED
  BY <1>4, <1>8, <1>9, UnderFrames DEF n, P, R, N, A

LEMMA SendToReceiverKeeps == ASSUME NEW a \in Assets PROVE Inv /\ SendToReceiver(a) => Inv'
<1> SUFFICES ASSUME Inv, SendToReceiver(a) PROVE Inv'
  OBVIOUS
<1> DEFINE n == Len(frames)
           P == InProgress(frames, n)
           R == Recovering(frames, n)
           N == Forwarding(frames, n)
           A == Revoking(frames, n)
<1>1. store \in Store /\ frames \in Seq(Frame) /\ Sound(store, P, R, N, A)
  BY DEF Inv, TypeOK, Consistent, SoundAt
<1>2. /\ store.owns[a][Outside] >= 1 /\ UNCHANGED frames
      /\ store' = Sent(store, a, Named)
  BY DEF SendToReceiver, Sent
<1>3. R \in SUBSET Messages
  <2>1. n \in 0 .. Len(frames)
    BY <1>1
  <2> QED
    BY <1>1, <2>1, PromisesType
<1>4. Named \subseteq N
  <2>1. CASE Running /\ Top.phase = "calling"
    <3>1. n \in Nat \ {0}
      BY <1>1, <2>1 DEF Running
    <3>2. N = Forwarding(frames, n - 1) \cup ToForward(Top)
      BY <3>1, MorePromises DEF Top
    <3> QED
      BY <2>1, <3>2 DEF Named, ToForward
  <2>2. CASE ~ (Running /\ Top.phase = "calling")
    BY <2>2 DEF Named
  <2> QED
    BY <2>1, <2>2
<1> HIDE DEF n, P, R, N, A
<1>5. Sound(store', P, R, N, A) /\ StraysKept(store, store')
  BY <1>1, <1>2, <1>3, <1>4, StraySound
<1> QED
  BY <1>2, <1>5, UnderFrames DEF n, P, R, N, A
LEMMA HandleSygmaMessageKeeps ==
    ASSUME NEW m \in Messages
    PROVE  Inv /\ HandleSygmaMessage(m) => Inv'
<1> SUFFICES ASSUME Inv, HandleSygmaMessage(m) PROVE Inv'
  OBVIOUS
<1> DEFINE n == Len(frames)
           P == InProgress(frames, n)
           R == Recovering(frames, n)
           N == Forwarding(frames, n)
           A == Revoking(frames, n)
           paid == Move(store, m.tokenSent, Handler, Self, m.amount)
           g == [message |-> m, entered |-> store, before |-> paid,
                 startingNativeBalance |-> StartingNativeBalance(paid, m),
                 i |-> 1, phase |-> "performing"]
<1>1. /\ store \in Store /\ frames \in Seq(Frame) /\ Consistent(store, frames)
      /\ Sound(store, P, R, N, A) /\ n \in Nat
  BY DEF Inv, TypeOK, Consistent, SoundAt
<1>2. /\ n < MaxDepth /\ store.outcome[m] = "none"
      /\ store.owns[m.tokenSent][Handler] >= m.amount
      /\ store' = paid /\ frames' = Append(frames, g)
      /\ \A k \in DOMAIN frames : frames[k].message # m
  BY DEF HandleSygmaMessage
<1>3. R \in SUBSET Messages /\ P \in SUBSET Messages
  <2>1. n \in 0 .. Len(frames)
    BY <1>1
  <2> QED
    BY <1>1, <2>1, PromisesType
<1>4. m \notin P
  BY <1>1, <1>2 DEF InProgress
<1>5. paid = PaidStore(store, m)
  BY DEF PaidStore
<1>6. m.tokenSent \in Assets /\ m.amount \in Nat /\ Native \in Assets /\ Self \in Holders
  BY MessageType, DifferentHolders
<1> HIDE DEF paid, n, P, R, N, A
<1>7. Sound(paid, P \cup {m}, R, N \cup {m.tokenSent}, A)
  BY <1>1, <1>2, <1>3, <1>4, <1>5, PaidSound
<1>8. /\ paid \in Store /\ paid.strays = store.strays
      /\ paid.owns[m.tokenSent][Self] = store.owns[m.tokenSent][Self] + m.amount
      /\ \A b \in Assets \ {m.tokenSent} : paid.owns[b][Self] = store.owns[b][Self]
  BY <1>1, <1>2, <1>5, PaidMoves
<1>9. StartingNativeBalance(paid, m) = store.owns[Native][Self]
      /\ store.owns[Native][Self] \in Nat
  <2>1. store.owns[Native][Self] \in Nat
    BY <1>1, <1>6 DEF Store
  <2>2. CASE m.tokenSent = Native
    BY <1>6, <1>8, <2>1, <2>2 DEF StartingNativeBalance
  <2>3. CASE m.tokenSent # Native
    BY <1>6, <1>8, <2>1, <2>3 DEF StartingNativeBalance
  <2> QED
    BY <2>1, <2>2, <2>3
<1>10. /\ g \in Frame /\ g.message = m /\ g.entered = store /\ g.before = paid
       /\ g.startingNativeBalance = store.owns[Native][Self] /\ g.phase = "performing"
  BY <1>1, <1>8, <1>9 DEF Frame
<1> HIDE DEF g
<1>11. m.tokenSent \in ToForward(g)
  BY <1>10 DEF ToForward
<1>12. Sound(paid, P \cup {m}, R, N \cup ToForward(g), A \cup ToRevoke(g))
  <2>1. N \cup {m.tokenSent} \subseteq N \cup ToForward(g) /\ A \subseteq A \cup ToRevoke(g)
    BY <1>11
  <2> QED
    BY <1>7, <2>1, SoundForMore
<1>13. StraysKept(store, store')
  <2>1. \A a \in Assets : store.strays[a] \in Nat
    BY <1>1 DEF Store
  <2> QED
    BY <1>2, <1>8, <2>1 DEF StraysKept
<1>14. Consistent(store', frames')
  <2>1. Sound(store', InProgress(frames, Len(frames)) \cup {g.message},
              Recovering(frames, Len(frames)),
              Forwarding(frames, Len(frames)) \cup ToForward(g),
              Revoking(frames, Len(frames)) \cup ToRevoke(g))
    BY <1>2, <1>10, <1>12 DEF n, P, R, N, A
  <2>2. /\ g.message \notin InProgress(frames, Len(frames))
        /\ store.outcome[g.message] = "none"
        /\ store.owns[g.message.tokenSent][Handler] >= g.message.amount
        /\ g.before = PaidStore(store, g.message)
        /\ g.phase # "recovering"
    BY <1>2, <1>4, <1>5, <1>10 DEF P, n
  <2> QED
    BY <1>1, <1>2, <1>10, <1>13, <2>1, <2>2, NewFrame
<1>15. /\ frames' \in Seq(Frame) /\ Len(frames') <= MaxDepth /\ store' \in Store
  BY <1>1, <1>2, <1>8, <1>10, HolderAssumption DEF n
<1> QED
  BY <1>14, <1>15 DEF Inv, TypeOK

LEMMA InitInv == Init => Inv
<1> SUFFICES ASSUME Init PROVE Inv
  OBVIOUS
<1>1. /\ store.owns = InitiallyOwned /\ store.allowed = {}
      /\ store.outcome = [m \in Messages |-> "none"]
      /\ store.strays = [a \in Assets |-> InitiallyOwned[a][Self]]
      /\ frames = <<>>
  BY DEF Init
<1>2. store \in Store
  BY OwnedAssumption, DifferentHolders DEF Init, Store
<1>3. frames \in Seq(Frame) /\ Len(frames) = 0 /\ 0 <= MaxDepth
  BY <1>1, HolderAssumption
<1>4. Amount({}) = 0
  BY SumEmpty DEF Amount, SumFunction
<1>5. Conserved(store)
  <2> SUFFICES ASSUME NEW a \in Assets
               PROVE  /\ SumFunctionOnSet(store.owns[a], Holders) = Supply(a)
                      /\ store.strays[a] <= Supply(a)
    BY DEF Conserved
  <2>1. \A x \in Holders : InitiallyOwned[a][x] \in Nat
    BY OwnedAssumption
  <2>2. InitiallyOwned[a][Self] <= SumFunctionOnSet(InitiallyOwned[a], Holders)
    BY <2>1, DifferentHolders, SumBoundsEach
  <2> QED
    BY <1>1, <2>2 DEF Supply
<1>6. PaidFor(store, {})
  <2> SUFFICES ASSUME NEW a \in Assets
               PROVE  InitiallyOwned[a][Handler] - store.owns[a][Handler]
                          = Amount(HandledOf(store, {}, a))
    BY DEF PaidFor
  <2>1. HandledOf(store, {}, a) = {}
    BY <1>1 DEF HandledOf
  <2>2. InitiallyOwned[a][Handler] \in Nat
    BY OwnedAssumption, DifferentHolders
  <2>3. Amount(HandledOf(store, {}, a)) = 0
    BY <1>4, <2>1, Zenon
  <2> DEFINE x == InitiallyOwned[a][Handler]
  <2>4. x \in Nat /\ store.owns[a][Handler] = x
    BY <1>1, <2>2
  <2> HIDE DEF x
  <2>5. x - x = 0
    BY <2>4
  <2> QED
    BY <2>3, <2>4, <2>5 DEF x
<1>7. DuesPaid(store, {})
  <2> SUFFICES ASSUME NEW a \in Assets, NEW r \in Receivers
               PROVE  Amount(DuesOf(store, {}, a, r)) <= store.owns[a][r]
    BY DEF DuesPaid
  <2>1. DuesOf(store, {}, a, r) = {}
    BY <1>1 DEF DuesOf
  <2>2. store.owns[a][r] \in Nat
    BY <1>2, DifferentHolders DEF Store
  <2> QED
    BY <1>4, <2>1, <2>2
<1>8. OnlyStrays(store, {})
  BY <1>1, OwnedAssumption, DifferentHolders DEF OnlyStrays
<1>9. Sound(store, {}, {}, {}, {})
  BY <1>1, <1>2, <1>5, <1>6, <1>7, <1>8 DEF Sound
<1>10. SoundAt(store, frames, 0)
  BY <1>9, NoPromises DEF SoundAt
<1>11. Consistent(store, frames)
  BY <1>1, <1>3, <1>10 DEF Consistent
<1> QED
  BY <1>2, <1>3, <1>11 DEF Inv, TypeOK

LEMMA NextInv == Inv /\ [Next]_vars => Inv'
<1> SUFFICES ASSUME Inv, [Next]_vars PROVE Inv'
  OBVIOUS
<1>1. CASE \E m \in Messages : HandleSygmaMessage(m)
  BY <1>1, HandleSygmaMessageKeeps
<1>2. CASE CallOutside
  BY <1>2, CallOutsideKeeps
<1>3. CASE CallToken
  BY <1>3, CallTokenKeeps
<1>4. CASE TransferBalanceAction
  BY <1>4, TransferBalanceActionKeeps
<1>14. CASE CallApprove
  BY <1>14, CallApproveKeeps
<1>5. CASE ActionReturns
  BY <1>5, ActionReturnsKeeps
<1>6. CASE ReturnNative
  BY <1>6, ReturnNativeKeeps
<1>7. CASE Finish
  BY <1>7, FinishKeeps
<1>8. CASE Recover
  BY <1>8, RecoverKeeps
<1>9. CASE RejectForGas \/ RejectRefused
  BY <1>9, RejectKeeps
<1>10. CASE FinishRecovery
  BY <1>10, FinishRecoveryKeeps
<1>11. CASE \E t \in Tokens : TakeAllowed(t)
  BY <1>11, TakeAllowedKeeps
<1>12. CASE \E a \in Assets : SendToReceiver(a)
  BY <1>12, SendToReceiverKeeps
<1>13. CASE UNCHANGED vars
  BY <1>13 DEF Inv, TypeOK, Consistent, vars
<1> QED
  BY <1>1, <1>2, <1>3, <1>4, <1>5, <1>6, <1>7, <1>8, <1>9, <1>10, <1>11, <1>12, <1>13,
     <1>14 DEF Next

LEMMA InvHolds == Spec => []Inv
BY InitInv, NextInv, PTL DEF Spec

-----------------------------------------------------------------------------
(* The properties. *)

\* The store and the frames are what they are declared to be, however deep the calls
\* of handleSygmaMessage are in each other.
THEOREM TypeCorrect == Spec => []TypeOK
<1>1. Inv => TypeOK
  BY DEF Inv
<1> QED
  BY <1>1, InvHolds, PTL

\* The receiver of messages whose actions failed has all that came with them.
THEOREM AllRecovered == Spec => []RecoveredInFull
<1>1. Inv => RecoveredInFull
  <2> SUFFICES ASSUME Inv, NEW a \in Assets, NEW r \in Receivers
               PROVE  Amount({m \in Outcome("recovered") : m.tokenSent = a /\ m.receiver = r})
                          <= store.owns[a][r]
    BY DEF RecoveredInFull
  <2> DEFINE R == Recovering(frames, Len(frames))
             ms == {m \in Outcome("recovered") : m.tokenSent = a /\ m.receiver = r}
             all == DuesOf(store, R, a, r)
  <2>1. /\ store \in Store /\ frames \in Seq(Frame)
        /\ Amount(all) <= store.owns[a][r]
    BY DEF Inv, TypeOK, Consistent, SoundAt, Sound, DuesPaid
  <2>2. R \in SUBSET Messages
    <3>1. Len(frames) \in Nat /\ Len(frames) \in 0 .. Len(frames)
      BY <2>1
    <3> QED
      BY <2>1, <3>1, PromisesType
  <2>3. all \in SUBSET Messages /\ ms \in SUBSET all
    BY <2>2 DEF DuesOf, Outcome
  <2> HIDE DEF ms, all
  <2>4. Amount(ms) <= Amount(all)
    BY <2>3, AmountOfFewer
  <2>5. Amount(ms) \in Nat /\ Amount(all) \in Nat /\ store.owns[a][r] \in Nat
    BY <2>1, <2>3, AmountType, DifferentHolders DEF Store
  <2> QED
    BY <2>1, <2>4, <2>5 DEF ms
<1> QED
  BY <1>1, InvHolds, PTL

\* Between transactions the contract has nothing but what was sent to it unasked, and
\* has approved nobody but where an executed message had it call approve.
THEOREM NothingIsLeftBehind == Spec => []NothingLeftBehind
<1>1. Inv => NothingLeftBehind
  <2> SUFFICES ASSUME Inv, frames = <<>>
               PROVE  /\ \A a \in Assets : store.owns[a][Self] <= store.strays[a]
                      /\ store.allowed \subseteq SelfApproved(store)
    BY DEF NothingLeftBehind, Running
  <2>1. SoundAt(store, frames, 0)
    BY DEF Inv, Consistent
  <2>2. Sound(store, {}, {}, {}, {})
    BY <2>1, NoPromises DEF SoundAt
  <2> QED
    BY <2>2 DEF Sound, OnlyStrays
<1> QED
  BY <1>1, InvHolds, PTL

\* Between transactions the handlers have paid for the messages that were executed or
\* recovered, and for no other.
THEOREM HandlersPaidForHandled == Spec => []PaidForHandled
<1>1. Inv => PaidForHandled
  <2> SUFFICES ASSUME Inv, frames = <<>>, NEW a \in Assets
               PROVE  InitiallyOwned[a][Handler] - store.owns[a][Handler] =
                          Amount({m \in Messages \ Outcome("none") : m.tokenSent = a})
    BY DEF PaidForHandled, Running
  <2>1. SoundAt(store, frames, 0)
    BY DEF Inv, Consistent
  <2>2. Sound(store, {}, {}, {}, {})
    BY <2>1, NoPromises DEF SoundAt
  <2>3. HandledOf(store, {}, a) = {m \in Messages \ Outcome("none") : m.tokenSent = a}
    BY DEF HandledOf, Outcome
  <2> QED
    BY <2>2, <2>3 DEF Sound, PaidFor
<1> QED
  BY <1>1, InvHolds, PTL

\* Actions that were given enough gas do not take away what it takes to recover.
THEOREM RecoversWhenGivenGas == Spec => RecoversGivenGas
<1> DEFINE gas == Top.message.gas
           Given == CanFail /\ gas >= 64 * (RecoverGas + ReturnCost) + CallCost
<1>1. Inv /\ [Next]_vars => [Given => ~Rejects]_vars
  <2> SUFFICES ASSUME Inv, Next, Given, Rejects PROVE FALSE
    OBVIOUS
  <2>1. frames \in Seq(Frame) /\ frames # <<>> /\ Consistent(store, frames) /\ store \in Store
    BY DEF Inv, TypeOK, CanFail, Running
  <2>2. Top \in Frame /\ Top.message \in Messages
    BY <2>1, TopFacts DEF Top
  <2>3. /\ gas \in Nat /\ RecoverGas \in Nat /\ CallCost \in Nat /\ CallCost <= RecoverGas
        /\ ReturnCost \in Nat
    BY <2>2, MessageType, GasAssumption
  <2>4. gas >= 64 * (RecoverGas + ReturnCost) + CallCost
    OBVIOUS
  <2>5. CanRecover(gas, 0) /\ CanRecover(gas, Forwarded(gas))
    <3> DEFINE q == (gas - CallCost) \div 64
               w == (gas - CallCost) - q
               v == gas - RecoverGas
    <3> HIDE DEF gas
    <3>1. q \in Nat /\ q >= RecoverGas + ReturnCost /\ q <= gas - CallCost
      BY <2>3, <2>4
    <3> HIDE DEF q
    <3>2. w \in Nat /\ v \in Nat
      BY <2>3, <2>4, <3>1
    <3> HIDE DEF v, w
    <3>3. Min({v, w}) = IF v <= w THEN v ELSE w
      BY <3>2, MinOfTwo
    <3>4. Forwarded(gas) = Min({v, w})
      BY DEF Forwarded, AllButOne64th, v, w, q
    <3>5. Forwarded(gas) \in Nat /\ Forwarded(gas) <= w
      BY <3>2, <3>3, <3>4
    <3> DEFINE given == Forwarded(gas)
    <3> HIDE DEF given
    <3>6. gas - CallCost - given >= RecoverGas + ReturnCost
      BY <2>3, <3>1, <3>5 DEF given, w
    <3> QED
      BY <2>3, <3>5, <3>6 DEF CanRecover, Remaining, given
  <2>6. ~RejectForGas
    BY <2>5 DEF RejectForGas
  <2>7. Top.phase # "recovering"
    BY DEF CanFail
  <2>8. Len(frames') < Len(frames) /\ store'.outcome[Top.message] = "none"
    BY DEF Rejects
  <2>9. ASSUME NEW g, frames' = WithTop(g) PROVE FALSE
    BY <2>1, <2>8, <2>9 DEF WithTop
  <2>10. ASSUME NEW m \in Messages, HandleSygmaMessage(m) PROVE FALSE
    BY <2>1, <2>8, <2>10 DEF HandleSygmaMessage
  <2>11. ASSUME UNCHANGED frames PROVE FALSE
    BY <2>1, <2>8, <2>11
  <2>12. ASSUME NEW s \in Store, NEW o \in {"executed", "recovered"},
                store' = Settled([s EXCEPT !.outcome[Top.message] = o])
         PROVE  FALSE
    <3> DEFINE u == [s EXCEPT !.outcome[Top.message] = o]
    <3>1. u.outcome[Top.message] = o
      BY <2>2 DEF Store
    <3>2. Settled(u).outcome = u.outcome
      BY DEF Settled, Store
    <3> QED
      BY <2>8, <2>12, <3>1, <3>2
  <2>13. CASE Finish
    <3> DEFINE s == ReturnLeftOvers(TransferTokenSent(store, Top.message), Top.message)
    <3>1. TransferTokenSent(store, Top.message) \in Store
      BY <2>1, <2>2, TokenSentPays DEF Pays
    <3>2. s \in Store
      BY <2>2, <3>1, LeftOversPay DEF Pays
    <3>3. store' = Settled([s EXCEPT !.outcome[Top.message] = "executed"])
      BY <2>13 DEF Finish, Leave, Executed
    <3> HIDE DEF s
    <3> QED
      BY <2>12, <3>2, <3>3
  <2>14. CASE Recover
    <3> DEFINE s == TransferTokenSent(Undone(Top), Top.message)
    <3>1. Undone(Top) \in Store
      BY <2>2 DEF Undone, Frame
    <3>2. s \in Store
      BY <2>2, <3>1, TokenSentPays DEF Pays
    <3>3. CASE ReceivedNative(s, Top)
      BY <2>9, <2>14, <3>3 DEF Recover
    <3>4. CASE ~ReceivedNative(s, Top)
      <4>1. store' = Settled([s EXCEPT !.outcome[Top.message] = "recovered"])
        BY <2>14, <3>4 DEF Recover, Leave, Recovered
      <4> HIDE DEF s
      <4> QED
        BY <2>12, <3>2, <4>1
    <3> QED
      BY <3>3, <3>4
  <2> QED
    BY <2>6, <2>7, <2>9, <2>10, <2>11, <2>13, <2>14
       DEF Next, CallOutside, CallToken, CallApprove, TransferBalanceAction, ActionReturns, ReturnNative,
           FinishRecovery, RejectRefused, TakeAllowed, SendToReceiver
<1> QED
  BY <1>1, InvHolds, PTL DEF Spec, RecoversGivenGas
=============================================================================
