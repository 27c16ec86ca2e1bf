------------------------- MODULE NftTransfersProofs -------------------------
(***************************************************************************)
(* Proofs about NftTransfers, for any number of domains, users, handlers   *)
(* and tokens.                                                             *)
(***************************************************************************)
EXTENDS NftTransfers, FiniteSetTheorems, SequenceTheorems, TLAPS

-----------------------------------------------------------------------------
(* The inductive invariants. *)

\* The deposits of a domain for another are numbered from one on, and tell a URI.
Announced ==
    /\ IsFiniteSet(deposits)
    /\ \A t \in deposits : /\ t.nonce <= DepositCount(t.origin, t.dest)
                           /\ t.metaData # Deleted

\* What a deposit of the token announces.
NewTransfer(d, dest, id, recipient) ==
    [origin |-> d, dest |-> dest, nonce |-> DepositCount(d, dest) + 1,
     id |-> id, recipient |-> recipient, metaData |-> TokenURI(d, id)]

\* A mapped handler is one of the handlers, and owns tokens like any holder; what
\* it owns is owned by no user, and neither is what does not exist.
LEMMA HandlersAndUsers ==
    /\ Handlers \subseteq Holders /\ Users \subseteq Holders
    /\ Handlers \cap Users = {}
    /\ Nobody \notin Handlers /\ Nobody \notin Users
BY NftAssumption DEF Holders

\* The number of deposits of a domain for another is a natural number.
LEMMA DepositCountType ==
    ASSUME IsFiniteSet(deposits), NEW d, NEW dest
    PROVE  DepositCount(d, dest) \in Nat
<1>1. IsFiniteSet({t \in deposits : t.origin = d /\ t.dest = dest})
  BY FS_Subset
<1> QED
  BY <1>1, FS_CardinalityType DEF DepositCount

\* A token that exists has a URI.
LEMMA TokenURIType ==
    ASSUME TypeOK, NEW d \in Domains, NEW id \in TokenIDs, Exists(d, id)
    PROVE  TokenURI(d, id) \in Seq(STRING) \ {Deleted}
<1>1. BaseURI[d] \in Seq(STRING) /\ storedURI[d][id] \in Seq(STRING)
      /\ storedURI[d][id] # <<>>
  BY NftAssumption DEF TypeOK, Deleted
<1> HIDE NftAssumption
<1> QED
  BY <1>1, ConcatProperties, ConcatEqualIffEmpty DEF TokenURI, Deleted

\* At the start every token that exists has a URI, and nothing is announced.
LEMMA TypesAtStart == Init => TypeOK /\ Announced
<1> SUFFICES ASSUME Init PROVE TypeOK /\ Announced
  OBVIOUS
<1>1. ownerOf \in [Domains -> [TokenIDs -> Holders \cup {Nobody}]]
  BY NftAssumption, HandlersAndUsers DEF Init
<1>2. storedURI \in [Domains -> [TokenIDs -> Seq(STRING)]]
  <2>1. Deleted \in Seq(STRING)
    BY DEF Deleted
  <2>2. \A id \in TokenIDs : FirstURI[id] \in Seq(STRING)
    BY NftAssumption
  <2> QED
    BY <2>1, <2>2 DEF Init
<1>3. \A d \in Domains, id \in TokenIDs : Exists(d, id) <=> storedURI[d][id] # Deleted
  BY NftAssumption DEF Init, Exists, Deleted
<1>4. TypeOK
  BY <1>1, <1>2, <1>3 DEF Init, TypeOK
<1>5. Announced
  BY FS_EmptySet DEF Init, Announced
<1> QED
  BY <1>4, <1>5

\* A mapped handler is a handler.
LEMMA MappedHandler ==
    ASSUME TypeOK, NEW d \in Domains, handlerOf[d] # Unmapped
    PROVE  handlerOf[d] \in Handlers
BY DEF TypeOK

\* Giving a token that exists to a holder keeps the types.
LEMMA TransferredTypes ==
    ASSUME TypeOK, NEW d \in Domains, NEW id \in TokenIDs, NEW to \in Holders,
           Exists(d, id), Transferred(d, id, to)
    PROVE  /\ ownerOf' \in [Domains -> [TokenIDs -> Holders \cup {Nobody}]]
           /\ storedURI' \in [Domains -> [TokenIDs -> Seq(STRING)]]
           /\ \A e \in Domains, i \in TokenIDs : Exists(e, i)' <=> storedURI'[e][i] # Deleted
BY NftAssumption DEF TypeOK, Exists, Transferred

\* Burning one too.
LEMMA BurntTypes ==
    ASSUME TypeOK, NEW d \in Domains, NEW id \in TokenIDs, Burnt(d, id)
    PROVE  /\ ownerOf' \in [Domains -> [TokenIDs -> Holders \cup {Nobody}]]
           /\ storedURI' \in [Domains -> [TokenIDs -> Seq(STRING)]]
           /\ \A e \in Domains, i \in TokenIDs : Exists(e, i)' <=> storedURI'[e][i] # Deleted
<1>1. Deleted \in Seq(STRING)
  BY DEF Deleted
<1> QED
  BY <1>1 DEF TypeOK, Exists, Burnt

\* And minting one with metadata.
LEMMA MintedTypes ==
    ASSUME TypeOK, NEW d \in Domains, NEW id \in TokenIDs, NEW to \in Holders,
           NEW metaData \in Seq(STRING) \ {Deleted}, Minted(d, id, to, metaData)
    PROVE  /\ ownerOf' \in [Domains -> [TokenIDs -> Holders \cup {Nobody}]]
           /\ storedURI' \in [Domains -> [TokenIDs -> Seq(STRING)]]
           /\ \A e \in Domains, i \in TokenIDs : Exists(e, i)' <=> storedURI'[e][i] # Deleted
BY NftAssumption DEF TypeOK, Exists, Minted

\* A deposit keeps the types; its nonce is the next one, so it is a new one.
LEMMA DepositTypes ==
    ASSUME TypeOK, Announced, NEW d \in Domains, NEW dest \in Domains, NEW user \in Users,
           NEW id \in TokenIDs, NEW recipient \in Recipients,
           Deposit(d, user, dest, id, recipient)
    PROVE  /\ TypeOK' /\ Announced'
           /\ NewTransfer(d, dest, id, recipient) \notin deposits
           /\ deposits' = deposits \cup {NewTransfer(d, dest, id, recipient)}
<1> DEFINE t == NewTransfer(d, dest, id, recipient)
<1>1. DepositCount(d, dest) \in Nat /\ DepositCount(d, dest) < MaxNonce
  BY DepositCountType DEF Announced, Deposit
<1>2. ownerOf[d][id] = user /\ user # Nobody /\ Exists(d, id)
      /\ handlerOf[d] \in Handlers
  BY HandlersAndUsers, MappedHandler DEF Deposit, Exists
<1>3. t \in Transfer /\ t.metaData # Deleted
  BY <1>1, <1>2, TokenURIType, NftAssumption DEF NewTransfer, Transfer
<1>4. t \notin deposits
  BY <1>1 DEF Announced, NewTransfer
<1>5. deposits' = deposits \cup {t}
  BY DEF Deposit, NewTransfer
<1>6. TypeOK'
  <2>1. /\ ownerOf' \in [Domains -> [TokenIDs -> Holders \cup {Nobody}]]
        /\ storedURI' \in [Domains -> [TokenIDs -> Seq(STRING)]]
        /\ \A e \in Domains, i \in TokenIDs : Exists(e, i)' <=> storedURI'[e][i] # Deleted
    <3>1. CASE Burnt(d, id)
      BY <3>1, BurntTypes
    <3>2. CASE Transferred(d, id, handlerOf[d])
      BY <1>2, <3>2, TransferredTypes, HandlersAndUsers
    <3> QED
      BY <3>1, <3>2 DEF Deposit
  <2> HIDE DEF t
  <2> QED
    BY <1>3, <1>5, <2>1 DEF TypeOK, Deposit, tokens
<1>7. Announced'
  <2>1. IsFiniteSet(deposits')
    BY <1>5, FS_AddElement DEF Announced
  <2>2. ASSUME NEW s \in deposits' PROVE s.nonce <= DepositCount(s.origin, s.dest)'
    <3> DEFINE old == {u \in deposits : u.origin = s.origin /\ u.dest = s.dest}
               new == {u \in deposits' : u.origin = s.origin /\ u.dest = s.dest}
    <3>1. IsFiniteSet(old) /\ IsFiniteSet(new)
      BY <2>1, FS_Subset DEF Announced
    <3>2. Cardinality(old) \in Nat /\ Cardinality(new) \in Nat
      BY <3>1, FS_CardinalityType
    <3>3. Cardinality(new) = DepositCount(s.origin, s.dest)'
          /\ Cardinality(old) = DepositCount(s.origin, s.dest)
      BY DEF DepositCount
    <3>4. CASE s \in deposits
      <4>1. Cardinality(old) <= Cardinality(new)
        BY <1>5, <3>1, FS_Subset
      <4>2. s.nonce <= Cardinality(old) /\ s.nonce \in Nat
        BY <3>3, <3>4, NftAssumption DEF Announced, TypeOK, Transfer
      <4> QED
        BY <3>2, <3>3, <4>1, <4>2
    <3>5. CASE s = t
      <4>1. t.origin = d /\ t.dest = dest /\ t.nonce = DepositCount(d, dest) + 1
        BY DEF NewTransfer
      <4>2. new = old \cup {t} /\ t \notin old
        BY <1>4, <1>5, <3>5, <4>1
      <4>3. Cardinality(new) = Cardinality(old) + 1
        BY <3>1, <4>2, FS_AddElement
      <4> QED
        BY <3>2, <3>3, <3>5, <4>1, <4>3
    <3> QED
      BY <1>5, <3>4, <3>5
  <2>3. \A s \in deposits' : s.metaData # Deleted
    BY <1>3, <1>5 DEF Announced
  <2> QED
    BY <2>1, <2>2, <2>3 DEF Announced
<1> QED
  BY <1>4, <1>5, <1>6, <1>7

\* An execution keeps the types: what it mints has the URI it had when it was burnt.
LEMMA ExecuteTypes ==
    ASSUME TypeOK, Announced, NEW t \in deposits, ExecuteProposal(t)
    PROVE  TypeOK' /\ Announced'
<1> DEFINE d == t.dest
           h == handlerOf[d]
<1>1. /\ d \in Domains /\ t.id \in TokenIDs /\ t.recipient \in Users
      /\ t.metaData \in Seq(STRING) \ {Deleted}
  BY NftAssumption DEF TypeOK, Transfer, Announced, ExecuteProposal, CanDeliver
<1>2. h \in Handlers
  BY <1>1, MappedHandler DEF ExecuteProposal
<1>3. /\ ownerOf' \in [Domains -> [TokenIDs -> Holders \cup {Nobody}]]
      /\ storedURI' \in [Domains -> [TokenIDs -> Seq(STRING)]]
      /\ \A e \in Domains, i \in TokenIDs : Exists(e, i)' <=> storedURI'[e][i] # Deleted
  <2>1. CASE Minted(d, t.id, t.recipient, t.metaData)
    BY <1>1, <2>1, MintedTypes, HandlersAndUsers
  <2>2. CASE h \notin isBurnable[d] /\ Transferred(d, t.id, t.recipient)
    <3>1. Exists(d, t.id)
      BY <1>2, <2>2, HandlersAndUsers DEF Exists, ExecuteProposal, CanDeliver
    <3> QED
      BY <1>1, <2>2, <3>1, TransferredTypes, HandlersAndUsers
  <2> QED
    BY <2>1, <2>2 DEF ExecuteProposal
<1>4. TypeOK'
  BY <1>3 DEF TypeOK, ExecuteProposal, tokens
<1>5. Announced'
  BY DEF Announced, ExecuteProposal, DepositCount
<1> QED
  BY <1>4, <1>5

\* And the admin's withdrawals.
LEMMA WithdrawTypes ==
    ASSUME TypeOK, Announced, NEW d \in Domains, NEW h \in Handlers, NEW to \in WithdrawTo,
           NEW id \in TokenIDs, AdminWithdraw(d, h, to, id)
    PROVE  TypeOK' /\ Announced'
<1>1. to \in Holders /\ Exists(d, id)
  BY NftAssumption, HandlersAndUsers DEF AdminWithdraw, Exists
<1>2. /\ ownerOf' \in [Domains -> [TokenIDs -> Holders \cup {Nobody}]]
      /\ storedURI' \in [Domains -> [TokenIDs -> Seq(STRING)]]
      /\ \A e \in Domains, i \in TokenIDs : Exists(e, i)' <=> storedURI'[e][i] # Deleted
  BY <1>1, TransferredTypes DEF AdminWithdraw
<1>3. withdrawn' \in Seq(TokenIDs)
  BY DEF AdminWithdraw, TypeOK
<1>4. TypeOK'
  BY <1>2, <1>3 DEF TypeOK, AdminWithdraw, tokens
<1>5. Announced'
  BY DEF Announced, AdminWithdraw, DepositCount
<1> QED
  BY <1>4, <1>5

\* Every step keeps the types and what the deposits announce.
LEMMA TypesInductive == TypeOK /\ Announced /\ [Next]_vars => TypeOK' /\ Announced'
<1> SUFFICES ASSUME TypeOK, Announced, [Next]_vars PROVE TypeOK' /\ Announced'
  OBVIOUS
<1>1. ASSUME NEW d \in Domains, NEW dest \in Domains, NEW u \in Users, NEW id \in TokenIDs,
             NEW r \in Recipients, Deposit(d, u, dest, id, r)
      PROVE  TypeOK' /\ Announced'
  BY <1>1, DepositTypes
<1>2. ASSUME NEW t \in deposits, ExecuteProposal(t) PROVE TypeOK' /\ Announced'
  BY <1>2, ExecuteTypes
<1>3. ASSUME NEW u \in Upgrades, AdminSetResource(u[1], u[2]) PROVE TypeOK' /\ Announced'
  <2>1. u[1] \in Domains /\ u[2] \in Handlers
    BY NftAssumption
  <2> QED
    BY <1>3, <2>1 DEF AdminSetResource, TypeOK, Announced, DepositCount, Exists
<1>4. ASSUME NEW d \in Burnable, NEW h \in Handlers, AdminSetBurnable(d, h)
      PROVE  TypeOK' /\ Announced'
  BY <1>4, NftAssumption DEF AdminSetBurnable, TypeOK, Announced, DepositCount, Exists
<1>5. ASSUME NEW d \in Domains, NEW h \in Handlers, NEW a \in WithdrawTo,
             NEW id \in TokenIDs, AdminWithdraw(d, h, a, id)
      PROVE  TypeOK' /\ Announced'
  BY <1>5, WithdrawTypes
<1>6. CASE UNCHANGED vars
  BY <1>6 DEF vars, tokens, TypeOK, Announced, DepositCount, Exists
<1> QED
  BY <1>1, <1>2, <1>3, <1>4, <1>5, <1>6 DEF Next

\* However domains, handlers and mint/burn flags are set up and changed, a token
\* exists on a domain exactly when it has a URI there, and only announced deposits
\* are executed.
THEOREM TypeCorrect == Spec => [](TypeOK /\ Announced)
<1>1. Init => TypeOK /\ Announced
  BY TypesAtStart
<1>2. TypeOK /\ Announced /\ [Next]_vars => (TypeOK /\ Announced)'
  BY TypesInductive
<1> QED
  BY <1>1, <1>2, PTL DEF Spec

-----------------------------------------------------------------------------
(* Each token has one owner. *)

\* The domains where a user owns the token, given the owners.
UserDomains(owners, id) == {d \in Domains : owners[d][id] \in Users}

\* Transfers of the token, of a set of them.
TransfersOf(P, id) == {t \in P : t.id = id}

\* The withdrawals of the token, in a sequence of them.
PlacesOf(w, id) == {k \in DOMAIN w : w[k] = id}

\* Both are finite, so a step that moves one token from one to the other changes
\* their sizes by one.
LEMMA Finite ==
    ASSUME NEW owners, NEW P, IsFiniteSet(P), NEW w \in Seq(TokenIDs), NEW id
    PROVE  /\ IsFiniteSet(UserDomains(owners, id))
           /\ Cardinality(UserDomains(owners, id)) \in Nat
           /\ IsFiniteSet(TransfersOf(P, id)) /\ Cardinality(TransfersOf(P, id)) \in Nat
           /\ IsFiniteSet(PlacesOf(w, id)) /\ Cardinality(PlacesOf(w, id)) \in Nat
<1>1. IsFiniteSet(UserDomains(owners, id))
  BY NftAssumption, FS_Subset DEF UserDomains
<1>2. IsFiniteSet(TransfersOf(P, id))
  BY FS_Subset DEF TransfersOf
<1>3. IsFiniteSet(DOMAIN w)
  BY FS_Interval, LenProperties
<1>4. IsFiniteSet(PlacesOf(w, id))
  BY <1>3, FS_Subset DEF PlacesOf
<1> QED
  BY <1>1, <1>2, <1>4, FS_CardinalityType

\* A token that a user gets on a domain, and that nobody who is a user had there,
\* has one domain more; one that a user had there and no user gets, one less.
LEMMA UserDomainsChange ==
    ASSUME TypeOK, NEW d \in Domains, NEW id \in TokenIDs, NEW to,
           ownerOf' = [ownerOf EXCEPT ![d][id] = to], NEW i \in TokenIDs
    PROVE  LET old == UserDomains(ownerOf, i)
               new == UserDomains(ownerOf', i)
           IN  /\ i # id => new = old
               /\ (to \in Users <=> ownerOf[d][id] \in Users) => new = old
               /\ i = id /\ to \in Users /\ ownerOf[d][id] \notin Users
                      => Cardinality(new) = Cardinality(old) + 1
               /\ i = id /\ to \notin Users /\ ownerOf[d][id] \in Users
                      => Cardinality(new) = Cardinality(old) - 1
<1> DEFINE old == UserDomains(ownerOf, i)
           new == UserDomains(ownerOf', i)
<1>1. IsFiniteSet(old)
  BY NftAssumption, FS_Subset DEF UserDomains
<1>2. /\ ownerOf'[d][id] = to
      /\ \A e \in Domains : e # d \/ i # id => ownerOf'[e][i] = ownerOf[e][i]
  BY DEF TypeOK
<1>3. i # id => new = old
  BY <1>2 DEF UserDomains
<1>4. (to \in Users <=> ownerOf[d][id] \in Users) => new = old
  BY <1>2 DEF UserDomains
<1>5. ASSUME i = id, to \in Users, ownerOf[d][id] \notin Users
      PROVE  Cardinality(new) = Cardinality(old) + 1
  <2>1. new = old \cup {d} /\ d \notin old
    BY <1>2, <1>5 DEF UserDomains
  <2> QED
    BY <1>1, <2>1, FS_AddElement
<1>6. ASSUME i = id, to \notin Users, ownerOf[d][id] \in Users
      PROVE  Cardinality(new) = Cardinality(old) - 1
  <2>1. new = old \ {d} /\ d \in old
    BY <1>2, <1>6 DEF UserDomains
  <2> QED
    BY <1>1, <2>1, FS_RemoveElement
<1> QED
  BY <1>3, <1>4, <1>5, <1>6

\* The property, in these terms.
OwnersOf(owners, P, w, id) ==
    Cardinality(UserDomains(owners, id)) + Cardinality(TransfersOf(P, id))
        = 1 + Cardinality(PlacesOf(w, id))

\* The property says it of every token, before and after a step.
LEMMA OwnersAre ==
    /\ OneOwner <=> \A id \in TokenIDs :
           OwnersOf(ownerOf, deposits \ executed, withdrawn, id)
    /\ OneOwner' <=> \A id \in TokenIDs :
           OwnersOf(ownerOf', deposits' \ executed', withdrawn', id)
BY DEF OneOwner, OwnersOf, UserDomains, TransfersOf, PlacesOf, Pending, Withdrawals

\* At the start one user has the token.
LEMMA OwnersAtStart == Init => OneOwner
<1> SUFFICES ASSUME Init, NEW id \in TokenIDs
             PROVE  OwnersOf(ownerOf, deposits \ executed, withdrawn, id)
  BY OwnersAre
<1>1. UserDomains(ownerOf, id) = {d \in Domains : FirstOwner[d][id] # Nobody}
  BY NftAssumption, HandlersAndUsers DEF Init, UserDomains
<1>2. TransfersOf(deposits \ executed, id) = {} /\ PlacesOf(withdrawn, id) = {}
  BY DEF Init, TransfersOf, PlacesOf
<1>3. Cardinality({d \in Domains : FirstOwner[d][id] # Nobody}) = 1
  BY NftAssumption
<1> HIDE DEF Init
<1> QED
  BY <1>1, <1>2, <1>3, FS_EmptySet DEF OwnersOf

\* A deposit takes the token from the user and announces its transfer.
LEMMA DepositOwners ==
    ASSUME TypeOK, Announced, OneOwner,
           NEW d \in Domains, NEW dest \in Domains, NEW user \in Users,
           NEW id \in TokenIDs, NEW recipient \in Recipients,
           Deposit(d, user, dest, id, recipient)
    PROVE  OneOwner'
<1> DEFINE t == NewTransfer(d, dest, id, recipient)
           P == deposits \ executed
<1>1. t \notin deposits /\ deposits' = deposits \cup {t} /\ TypeOK' /\ Announced'
  BY DepositTypes
<1>2. t \notin P /\ deposits' \ executed' = P \cup {t} /\ t.id = id /\ withdrawn' = withdrawn
  BY <1>1 DEF TypeOK, Deposit, NewTransfer
<1>3. PICK to : to \notin Users /\ ownerOf' = [ownerOf EXCEPT ![d][id] = to]
  BY HandlersAndUsers, MappedHandler DEF Deposit, Burnt, Transferred
<1>4. ownerOf[d][id] \in Users
  BY DEF Deposit
<1> SUFFICES ASSUME NEW i \in TokenIDs
             PROVE  OwnersOf(ownerOf', deposits' \ executed', withdrawn', i)
  BY OwnersAre
<1>5. OwnersOf(ownerOf, P, withdrawn, i)
  BY OwnersAre
<1>6. IsFiniteSet(P) /\ withdrawn \in Seq(TokenIDs)
  BY FS_Subset DEF Announced, TypeOK
<1> HIDE DEF t, P
<1>7. /\ IsFiniteSet(TransfersOf(P, i)) /\ Cardinality(TransfersOf(P, i)) \in Nat
      /\ Cardinality(UserDomains(ownerOf, i)) \in Nat
      /\ Cardinality(PlacesOf(withdrawn, i)) \in Nat
  BY <1>6, Finite
<1>8. CASE i = id
  <2>1. Cardinality(UserDomains(ownerOf', i)) = Cardinality(UserDomains(ownerOf, i)) - 1
    BY <1>3, <1>4, <1>8, UserDomainsChange
  <2>2. TransfersOf(P \cup {t}, i) = TransfersOf(P, i) \cup {t} /\ t \notin TransfersOf(P, i)
    BY <1>2, <1>8 DEF TransfersOf
  <2>3. Cardinality(TransfersOf(P \cup {t}, i)) = Cardinality(TransfersOf(P, i)) + 1
    BY <1>7, <2>2, FS_AddElement
  <2>4. OwnersOf(ownerOf', P \cup {t}, withdrawn, i)
    BY <1>5, <1>7, <2>1, <2>3 DEF OwnersOf
  <2> QED
    BY <1>2, <2>4
<1>9. CASE i # id
  <2>1. UserDomains(ownerOf', i) = UserDomains(ownerOf, i)
    BY <1>3, <1>9, UserDomainsChange
  <2>2. TransfersOf(P \cup {t}, i) = TransfersOf(P, i)
    BY <1>2, <1>9 DEF TransfersOf
  <2> QED
    BY <1>2, <1>5, <2>1, <2>2 DEF OwnersOf
<1> QED
  BY <1>8, <1>9

\* An execution gives it to its recipient, and the transfer is under way no more.
LEMMA ExecuteOwners ==
    ASSUME TypeOK, Announced, OneOwner, NEW t \in deposits, ExecuteProposal(t)
    PROVE  OneOwner'
<1> DEFINE d == t.dest
           id == t.id
           P == deposits \ executed
<1>1. d \in Domains /\ id \in TokenIDs /\ t.recipient \in Users
  BY NftAssumption DEF TypeOK, Transfer, ExecuteProposal, CanDeliver
<1>2. t \in P /\ deposits' \ executed' = P \ {t} /\ withdrawn' = withdrawn
  BY DEF TypeOK, ExecuteProposal, IsExecuted
<1>3. ownerOf' = [ownerOf EXCEPT ![d][id] = t.recipient]
  BY DEF ExecuteProposal, Minted, Transferred
<1>4. ownerOf[d][id] \notin Users
  BY <1>1, HandlersAndUsers, MappedHandler DEF ExecuteProposal, CanDeliver, Exists
<1> SUFFICES ASSUME NEW i \in TokenIDs
             PROVE  OwnersOf(ownerOf', deposits' \ executed', withdrawn', i)
  BY OwnersAre
<1>5. OwnersOf(ownerOf, P, withdrawn, i)
  BY OwnersAre
<1>6. IsFiniteSet(P) /\ withdrawn \in Seq(TokenIDs)
  BY FS_Subset DEF Announced, TypeOK
<1>7. id = t.id
  OBVIOUS
<1> HIDE DEF d, id, P
<1>8. /\ IsFiniteSet(TransfersOf(P, i)) /\ Cardinality(TransfersOf(P, i)) \in Nat
      /\ Cardinality(UserDomains(ownerOf, i)) \in Nat
      /\ Cardinality(PlacesOf(withdrawn, i)) \in Nat
  BY <1>6, Finite
<1>9. CASE i = id
  <2>1. Cardinality(UserDomains(ownerOf', i)) = Cardinality(UserDomains(ownerOf, i)) + 1
    BY <1>1, <1>3, <1>4, <1>9, UserDomainsChange
  <2>2. TransfersOf(P \ {t}, i) = TransfersOf(P, i) \ {t} /\ t \in TransfersOf(P, i)
    BY <1>2, <1>7, <1>9 DEF TransfersOf
  <2>3. Cardinality(TransfersOf(P \ {t}, i)) = Cardinality(TransfersOf(P, i)) - 1
    BY <1>8, <2>2, FS_RemoveElement
  <2> QED
    BY <1>2, <1>5, <1>8, <2>1, <2>3 DEF OwnersOf
<1>10. CASE i # id
  <2>1. UserDomains(ownerOf', i) = UserDomains(ownerOf, i)
    BY <1>1, <1>3, <1>10, UserDomainsChange
  <2>2. TransfersOf(P \ {t}, i) = TransfersOf(P, i)
    BY <1>2, <1>7, <1>10 DEF TransfersOf
  <2> QED
    BY <1>2, <1>5, <2>1, <2>2 DEF OwnersOf
<1> QED
  BY <1>9, <1>10

\* One more withdrawal of a token has one more place in the sequence.
LEMMA OneMoreWithdrawal ==
    ASSUME NEW w \in Seq(TokenIDs), NEW id \in TokenIDs, NEW i \in TokenIDs
    PROVE  Cardinality(PlacesOf(Append(w, id), i))
               = IF i = id THEN Cardinality(PlacesOf(w, i)) + 1 ELSE Cardinality(PlacesOf(w, i))
<1> DEFINE n == Len(w) + 1
<1>1. /\ Len(w) \in Nat /\ DOMAIN w = 1 .. Len(w)
      /\ DOMAIN Append(w, id) = 1 .. n
      /\ Append(w, id)[n] = id
      /\ \A k \in 1 .. Len(w) : Append(w, id)[k] = w[k]
  OBVIOUS
<1>2. IsFiniteSet(PlacesOf(w, i))
  <2>1. IsFiniteSet(DOMAIN w)
    BY <1>1, FS_Interval
  <2> QED
    BY <2>1, FS_Subset DEF PlacesOf
<1>3. n \notin PlacesOf(w, i)
  BY <1>1 DEF PlacesOf
<1>4. 1 .. n = (1 .. Len(w)) \cup {n}
  BY <1>1
<1>5. PlacesOf(Append(w, id), i) = IF i = id THEN PlacesOf(w, i) \cup {n} ELSE PlacesOf(w, i)
  BY <1>1, <1>4 DEF PlacesOf
<1> QED
  BY <1>2, <1>3, <1>5, FS_AddElement

\* A withdrawal to a user gives the token one more owner, and is counted; one to a
\* handler gives it none.
LEMMA WithdrawOwners ==
    ASSUME TypeOK, Announced, OneOwner,
           NEW d \in Domains, NEW h \in Handlers, NEW to \in WithdrawTo, NEW id \in TokenIDs,
           AdminWithdraw(d, h, to, id)
    PROVE  OneOwner'
<1> DEFINE P == deposits \ executed
<1>1. to \in Holders /\ ownerOf[d][id] \notin Users
      /\ ownerOf' = [ownerOf EXCEPT ![d][id] = to]
  BY NftAssumption, HandlersAndUsers DEF AdminWithdraw, Transferred
<1>2. deposits' \ executed' = P
  BY DEF AdminWithdraw
<1> SUFFICES ASSUME NEW i \in TokenIDs
             PROVE  OwnersOf(ownerOf', P, withdrawn', i)
  BY <1>2, OwnersAre
<1>3. OwnersOf(ownerOf, P, withdrawn, i)
  BY OwnersAre
<1>4. IsFiniteSet(P) /\ withdrawn \in Seq(TokenIDs)
  BY FS_Subset DEF Announced, TypeOK
<1> HIDE DEF P
<1>5. /\ Cardinality(TransfersOf(P, i)) \in Nat /\ Cardinality(UserDomains(ownerOf, i)) \in Nat
      /\ Cardinality(PlacesOf(withdrawn, i)) \in Nat
  BY <1>4, Finite
<1>6. CASE to \in Handlers
  <2>1. withdrawn' = withdrawn /\ to \notin Users
    BY <1>6, HandlersAndUsers DEF AdminWithdraw
  <2>2. UserDomains(ownerOf', i) = UserDomains(ownerOf, i)
    BY <1>1, <2>1, UserDomainsChange
  <2> QED
    BY <1>3, <2>1, <2>2 DEF OwnersOf
<1>7. CASE to \notin Handlers
  <2>1. withdrawn' = Append(withdrawn, id) /\ to \in Users
    BY <1>1, <1>7 DEF AdminWithdraw, Holders
  <2>2. Cardinality(UserDomains(ownerOf', i))
            = IF i = id THEN Cardinality(UserDomains(ownerOf, i)) + 1
              ELSE Cardinality(UserDomains(ownerOf, i))
    BY <1>1, <2>1, UserDomainsChange
  <2>3. Cardinality(PlacesOf(withdrawn', i))
            = IF i = id THEN Cardinality(PlacesOf(withdrawn, i)) + 1
              ELSE Cardinality(PlacesOf(withdrawn, i))
    BY <1>4, <2>1, OneMoreWithdrawal
  <2> QED
    BY <1>3, <1>5, <2>2, <2>3 DEF OwnersOf
<1> QED
  BY <1>6, <1>7

\* The other steps move no token and no transfer.
LEMMA OwnersKept ==
    ASSUME OneOwner, UNCHANGED <<ownerOf, deposits, executed, withdrawn>>
    PROVE  OneOwner'
BY OwnersAre

\* However handlers and mint/burn flags of any number of domains change, deposits
\* and executions neither lose a token nor give it a second owner: what the admin
\* gave away out of a handler is all that is owned twice.
THEOREM OneOwnerOnly == Spec => []OneOwner
<1>1. Init => OneOwner
  BY OwnersAtStart
<1>2. TypeOK /\ Announced /\ OneOwner /\ [Next]_vars => OneOwner'
  <2> SUFFICES ASSUME TypeOK, Announced, OneOwner, [Next]_vars PROVE OneOwner'
    OBVIOUS
  <2>1. ASSUME NEW d \in Domains, NEW dest \in Domains, NEW u \in Users, NEW id \in TokenIDs,
               NEW r \in Recipients, Deposit(d, u, dest, id, r)
        PROVE  OneOwner'
    BY <2>1, DepositOwners
  <2>2. ASSUME NEW t \in deposits, ExecuteProposal(t) PROVE OneOwner'
    BY <2>2, ExecuteOwners
  <2>3. ASSUME NEW u \in Upgrades, AdminSetResource(u[1], u[2]) PROVE OneOwner'
    BY <2>3, OwnersKept DEF AdminSetResource
  <2>4. ASSUME NEW d \in Burnable, NEW h \in Handlers, AdminSetBurnable(d, h) PROVE OneOwner'
    BY <2>4, OwnersKept DEF AdminSetBurnable
  <2>5. ASSUME NEW d \in Domains, NEW h \in Handlers, NEW a \in WithdrawTo,
               NEW id \in TokenIDs, AdminWithdraw(d, h, a, id)
        PROVE  OneOwner'
    BY <2>5, WithdrawOwners
  <2>6. CASE UNCHANGED vars
    BY <2>6, OwnersKept DEF vars
  <2> QED
    BY <2>1, <2>2, <2>3, <2>4, <2>5, <2>6 DEF Next
<1> QED
  BY <1>1, <1>2, TypeCorrect, PTL DEF Spec

-----------------------------------------------------------------------------
(* The URI of a token. *)

\* uri is the token's first one, after the base URIs of domains.
StillItsURI(uri, id) ==
    \E parts \in 0 .. Len(uri) :
        /\ SubSeq(uri, parts + 1, Len(uri)) = FirstURI[id]
        /\ parts > 0 => \E e \in Domains : BaseURI[e] # <<>>

\* What deposits tell of their tokens is, too.
TellsURI == \A t \in deposits : StillItsURI(t.metaData, t.id)

\* The property says so of the tokens that exist, before and after a step.
LEMMA URIsAre ==
    /\ MetadataKept <=> \A d \in Domains, id \in TokenIDs :
           Exists(d, id) => StillItsURI(storedURI[d][id], id)
    /\ MetadataKept' <=> \A d \in Domains, id \in TokenIDs :
           Exists(d, id)' => StillItsURI(storedURI'[d][id], id)
BY DEF MetadataKept, StillItsURI

\* The first URI is.
LEMMA FirstIsItsURI ==
    ASSUME NEW id \in TokenIDs PROVE StillItsURI(FirstURI[id], id)
<1> DEFINE uri == FirstURI[id]
<1>1. uri \in Seq(STRING) /\ Len(uri) \in Nat
  BY NftAssumption
<1>2. SubSeq(uri, 0 + 1, Len(uri)) = uri /\ 0 \in 0 .. Len(uri)
  BY <1>1, SubSeqFull
<1> QED
  BY <1>2 DEF StillItsURI

\* A base URI put before it keeps it.
LEMMA BaseKeepsURI ==
    ASSUME NEW d \in Domains, NEW id \in TokenIDs, NEW uri \in Seq(STRING),
           StillItsURI(uri, id)
    PROVE  StillItsURI(BaseURI[d] \o uri, id)
<1> DEFINE base == BaseURI[d]
           long == base \o uri
<1>1. base \in Seq(STRING) /\ FirstURI[id] # <<>>
  BY NftAssumption
<1>2. PICK parts \in 0 .. Len(uri) :
          /\ SubSeq(uri, parts + 1, Len(uri)) = FirstURI[id]
          /\ parts > 0 => \E e \in Domains : BaseURI[e] # <<>>
  BY DEF StillItsURI
<1> HIDE DEF base, long
<1>3. /\ Len(uri) \in Nat /\ Len(base) \in Nat /\ parts \in Nat
      /\ long \in Seq(STRING) /\ Len(long) = Len(base) + Len(uri)
  BY <1>1, ConcatProperties DEF long
<1>4. parts < Len(uri)
  <2>1. Len(uri) < parts + 1 => SubSeq(uri, parts + 1, Len(uri)) = <<>>
    BY <1>3, SubSeqEmpty
  <2> QED
    BY <1>1, <1>2, <1>3, <2>1
<1>5. SubSeq(long, (Len(base) + parts) + 1, Len(long)) = FirstURI[id]
  <2> DEFINE m == (Len(base) + parts) + 1
             n == Len(base) + Len(uri)
  <2>1. /\ m \in Len(base) + 1 .. Len(base) + Len(uri)
        /\ n \in Len(base) + 1 .. Len(base) + Len(uri)
        /\ m - Len(base) = parts + 1 /\ n - Len(base) = Len(uri)
    BY <1>3, <1>4
  <2> HIDE DEF m, n
  <2>2. SubSeq(long, m, n) = SubSeq(uri, m - Len(base), n - Len(base))
    BY <1>1, <2>1, SubSeqOfConcat2 DEF long
  <2> QED
    BY <1>2, <1>3, <2>1, <2>2 DEF m, n
<1>6. Len(base) + parts \in 0 .. Len(long)
  BY <1>3, <1>4
<1>7. Len(base) + parts > 0 => \E e \in Domains : BaseURI[e] # <<>>
  <2>1. CASE parts > 0
    BY <1>2, <2>1
  <2>2. CASE Len(base) > 0
    <3>1. base # <<>>
      BY <1>1, <2>2
    <3> QED
      BY <3>1 DEF base
  <2> QED
    BY <1>3, <2>1, <2>2
<1>8. StillItsURI(long, id)
  BY <1>5, <1>6, <1>7 DEF StillItsURI
<1> QED
  BY <1>8 DEF long, base

\* At the start tokens have their first URI.
LEMMA URIsAtStart == Init => MetadataKept /\ TellsURI
<1> SUFFICES ASSUME Init PROVE MetadataKept /\ TellsURI
  OBVIOUS
<1>1. ASSUME NEW d \in Domains, NEW id \in TokenIDs, Exists(d, id)
      PROVE  StillItsURI(storedURI[d][id], id)
  <2>1. storedURI[d][id] = FirstURI[id]
    BY <1>1 DEF Init, Exists
  <2> QED
    BY <2>1, FirstIsItsURI
<1> QED
  BY <1>1, URIsAre DEF Init, TellsURI

\* A deposit tells the token's URI, with the domain's base URI before it, and deletes
\* the token and its URI, or leaves both.
LEMMA DepositURIs ==
    ASSUME TypeOK, Announced, MetadataKept, TellsURI,
           NEW d \in Domains, NEW dest \in Domains, NEW user \in Users,
           NEW id \in TokenIDs, NEW recipient \in Recipients,
           Deposit(d, user, dest, id, recipient)
    PROVE  MetadataKept' /\ TellsURI'
<1> DEFINE t == NewTransfer(d, dest, id, recipient)
<1>1. deposits' = deposits \cup {t} /\ TypeOK'
  BY DepositTypes
<1>2. Exists(d, id) /\ handlerOf[d] \in Handlers
  BY HandlersAndUsers, MappedHandler DEF Deposit, Exists
<1>3. StillItsURI(t.metaData, t.id)
  <2>1. storedURI[d][id] \in Seq(STRING) /\ StillItsURI(storedURI[d][id], id)
    BY <1>2, URIsAre DEF TypeOK
  <2>2. StillItsURI(TokenURI(d, id), id)
    BY <2>1, BaseKeepsURI DEF TokenURI
  <2> QED
    BY <2>2 DEF NewTransfer
<1> HIDE DEF t
<1>4. TellsURI'
  BY <1>1, <1>3 DEF TellsURI
<1>5. ASSUME NEW e \in Domains, NEW i \in TokenIDs, Exists(e, i)'
      PROVE  Exists(e, i) /\ storedURI'[e][i] = storedURI[e][i]
  <2>1. CASE Burnt(d, id)
    BY <1>5, <2>1 DEF Burnt, Exists, TypeOK
  <2>2. CASE Transferred(d, id, handlerOf[d])
    BY <1>2, <1>5, <2>2 DEF Transferred, Exists, TypeOK
  <2> QED
    BY <2>1, <2>2 DEF Deposit
<1>6. MetadataKept'
  BY <1>5, URIsAre
<1> QED
  BY <1>4, <1>6

\* An execution gives a minted token the URI its deposit told, and leaves that of one
\* it releases.
LEMMA ExecuteURIs ==
    ASSUME TypeOK, Announced, MetadataKept, TellsURI, NEW t \in deposits, ExecuteProposal(t)
    PROVE  MetadataKept' /\ TellsURI'
<1> DEFINE d == t.dest
           h == handlerOf[d]
<1>1. d \in Domains /\ t.id \in TokenIDs
  BY DEF TypeOK, Transfer
<1>2. h \in Handlers
  BY <1>1, MappedHandler DEF ExecuteProposal
<1>3. TellsURI'
  BY DEF TellsURI, ExecuteProposal
<1>4. ASSUME NEW e \in Domains, NEW i \in TokenIDs, Exists(e, i)'
      PROVE  StillItsURI(storedURI'[e][i], i)
  <2>1. CASE Minted(d, t.id, t.recipient, t.metaData)
    <3>1. CASE e = d /\ i = t.id
      <4>1. storedURI'[e][i] = t.metaData
        BY <1>1, <2>1, <3>1 DEF Minted, TypeOK
      <4> QED
        BY <3>1, <4>1 DEF TellsURI
    <3>2. CASE ~ (e = d /\ i = t.id)
      <4>1. Exists(e, i) /\ storedURI'[e][i] = storedURI[e][i]
        BY <1>1, <1>4, <2>1, <3>2 DEF Minted, TypeOK, Exists
      <4> QED
        BY <4>1, URIsAre
    <3> QED
      BY <3>1, <3>2
  <2>2. CASE h \notin isBurnable[d] /\ Transferred(d, t.id, t.recipient)
    <3>1. Exists(d, t.id)
      BY <1>2, <2>2, HandlersAndUsers DEF Exists, ExecuteProposal, CanDeliver
    <3>2. Exists(e, i) /\ storedURI'[e][i] = storedURI[e][i]
      BY <1>1, <1>4, <2>2, <3>1 DEF Transferred, TypeOK, Exists
    <3> QED
      BY <3>2, URIsAre
  <2> QED
    BY <2>1, <2>2 DEF ExecuteProposal
<1>5. MetadataKept'
  BY <1>4, URIsAre
<1> QED
  BY <1>3, <1>5

\* The other steps create no token, and change no URI.
LEMMA URIsKept ==
    ASSUME MetadataKept, TellsURI, UNCHANGED <<storedURI, deposits>>,
           \A d \in Domains, id \in TokenIDs : Exists(d, id)' => Exists(d, id)
    PROVE  MetadataKept' /\ TellsURI'
BY URIsAre DEF TellsURI

\* However often a token is locked, released, burnt and minted on any number of
\* domains, with or without base URIs, it never loses the URI it began with.
THEOREM URIKept == Spec => []MetadataKept
<1>1. Init => MetadataKept /\ TellsURI
  BY URIsAtStart
<1>2. TypeOK /\ Announced /\ MetadataKept /\ TellsURI /\ [Next]_vars
          => MetadataKept' /\ TellsURI'
  <2> SUFFICES ASSUME TypeOK, Announced, MetadataKept, TellsURI, [Next]_vars
               PROVE  MetadataKept' /\ TellsURI'
    OBVIOUS
  <2>1. ASSUME NEW d \in Domains, NEW dest \in Domains, NEW u \in Users, NEW id \in TokenIDs,
               NEW r \in Recipients, Deposit(d, u, dest, id, r)
        PROVE  MetadataKept' /\ TellsURI'
    BY <2>1, DepositURIs
  <2>2. ASSUME NEW t \in deposits, ExecuteProposal(t) PROVE MetadataKept' /\ TellsURI'
    BY <2>2, ExecuteURIs
  <2>3. ASSUME NEW u \in Upgrades, AdminSetResource(u[1], u[2])
        PROVE  MetadataKept' /\ TellsURI'
    BY <2>3, URIsKept DEF AdminSetResource, Exists
  <2>4. ASSUME NEW d \in Burnable, NEW h \in Handlers, AdminSetBurnable(d, h)
        PROVE  MetadataKept' /\ TellsURI'
    BY <2>4, URIsKept DEF AdminSetBurnable, Exists
  <2>5. ASSUME NEW d \in Domains, NEW h \in Handlers, NEW a \in WithdrawTo,
               NEW id \in TokenIDs, AdminWithdraw(d, h, a, id)
        PROVE  MetadataKept' /\ TellsURI'
    <3>1. ownerOf[d][id] # Nobody
      BY <2>5, HandlersAndUsers DEF AdminWithdraw
    <3>2. \A e \in Domains, i \in TokenIDs : Exists(e, i)' => Exists(e, i)
      BY <2>5, <3>1 DEF AdminWithdraw, Transferred, TypeOK, Exists
    <3> QED
      BY <2>5, <3>2, URIsKept DEF AdminWithdraw, Transferred
  <2>6. CASE UNCHANGED vars
    BY <2>6, URIsKept DEF vars, Exists
  <2> QED
    BY <2>1, <2>2, <2>3, <2>4, <2>5, <2>6 DEF Next
<1> QED
  BY <1>1, <1>2, TypeCorrect, PTL DEF Spec
=============================================================================
