---------------------------- MODULE BridgeProofs ----------------------------
(***************************************************************************)
(* Theorems about Bridge for every set of proposals, every assignment of   *)
(* signatures, every nonce and every depth of re-entrancy.                 *)
(***************************************************************************)
EXTENDS Bridge, SequenceTheorems, TLAPS

-----------------------------------------------------------------------------
(* The bitmap *)

LEMMA BitInRange ==
    ASSUME NEW n \in Nat
    PROVE  Bit(n) \in Bits
BY DEF Bit, Bits, WordBits

LEMMA SameWordAndBit ==
    ASSUME NEW n \in Nat, NEW m \in Nat, Word(n) = Word(m), Bit(n) = Bit(m)
    PROVE  n = m
BY DEF Word, Bit, WordBits

-----------------------------------------------------------------------------
(* Typing of storages and frames *)

LEMMA ProposalType ==
    ASSUME NEW p \in Proposals
    PROVE  /\ p.origin \in Origins
           /\ p.nonce \in Nat
           /\ Word(p.nonce) \in Words
           /\ Bit(p.nonce) \in Bits
           /\ p.resource \in Resources
BY ProposalAssumption, BitInRange DEF Origins, Words

LEMMA InitialStoreType == Init => store \in Store
BY DomainAssumption DEF Init, Store, DepositNonces

Bitmaps == [Origins -> [Words -> SUBSET Bits]]

LEMMA BitmapType ==
    ASSUME NEW b \in Bitmaps, NEW p \in Proposals
    PROVE  /\ Mark(b, p.origin, p.nonce) \in Bitmaps
           /\ Clear(b, p.origin, p.nonce) \in Bitmaps
<1> DEFINE o == p.origin
           w == Word(p.nonce)
           i == Bit(p.nonce)
<1>1. o \in Origins /\ w \in Words /\ i \in Bits
  BY ProposalType
<1> HIDE DEF o, w, i
<1>2. [b EXCEPT ![o][w] = @ \cup {i}] \in Bitmaps
  BY <1>1 DEF Bitmaps
<1>3. [b EXCEPT ![o][w] = @ \ {i}] \in Bitmaps
  BY <1>1 DEF Bitmaps
<1> QED BY <1>2, <1>3 DEF Mark, Clear, o, w, i

LEMMA MarkType ==
    ASSUME NEW s \in Store, NEW p \in Proposals
    PROVE  BeforeCall(s, p) \in Store /\ AfterFailure(s, p) \in Store
<1>1. s.usedNonces \in Bitmaps
  BY DEF Store, Bitmaps
<1>2. \A b \in Bitmaps : [s EXCEPT !.usedNonces = b] \in Store
  BY DEF Store, Bitmaps
<1> QED BY <1>1, <1>2, BitmapType DEF BeforeCall, Marked, AfterFailure

LEMMA SuccessType ==
    ASSUME NEW s \in Store, NEW p \in Proposals
    PROVE  AfterSuccess(s, p) \in Store
<1>1. s.delivered \in [Proposals -> Nat]
  BY DEF Store
<1>2. [s.delivered EXCEPT ![p] = @ + 1] \in [Proposals -> Nat]
  BY <1>1
<1>3. \A f \in [Proposals -> Nat] : [s EXCEPT !.delivered = f] \in Store
  BY DEF Store
<1>4. AfterSuccess(s, p) = [s EXCEPT !.delivered = [s.delivered EXCEPT ![p] = @ + 1]]
  BY DEF AfterSuccess, Store
<1> QED BY <1>2, <1>3, <1>4

LEMMA AnnounceType ==
    ASSUME NEW s \in Store, NEW d \in Destinations, NEW n
    PROVE  [s EXCEPT !.announced[d][n] = @ + 1] \in Store
<1> DEFINE g == [s.announced EXCEPT ![d] = [s.announced[d] EXCEPT ![n] = @ + 1]]
<1>1. s.announced \in [Destinations -> [DepositNonces -> Nat]]
  BY DEF Store
<1>2. [s.announced[d] EXCEPT ![n] = @ + 1] \in [DepositNonces -> Nat]
  <2>1. s.announced[d] \in [DepositNonces -> Nat]
    BY <1>1
  <2>2. \A h \in [DepositNonces -> Nat] :
            [h EXCEPT ![n] = h[n] + 1] \in [DepositNonces -> Nat]
    <3>1. CASE n \in DepositNonces
      BY <3>1
    <3>2. CASE n \notin DepositNonces
      BY <3>2
    <3> QED BY <3>1, <3>2
  <2> QED BY <2>1, <2>2
<1>3. g \in [Destinations -> [DepositNonces -> Nat]]
  BY <1>1, <1>2
<1> HIDE DEF g
<1>4. [s EXCEPT !.announced = g] \in Store
  BY <1>3 DEF Store
<1> QED BY <1>4 DEF g

LEMMA CountType ==
    ASSUME NEW s \in Store, NEW d \in Destinations, NEW n \in 0 .. MaxDepositNonce
    PROVE  [s EXCEPT !.depositCounts[d] = n] \in Store
<1>1. [s.depositCounts EXCEPT ![d] = n] \in [Destinations -> 0 .. MaxDepositNonce]
  BY DEF Store
<1>2. \A f \in [Destinations -> 0 .. MaxDepositNonce] :
          [s EXCEPT !.depositCounts = f] \in Store
  BY DEF Store
<1> QED BY <1>1, <1>2

LEMMA FrameKinds ==
    ASSUME NEW f \in DepositFrame \cup ExecuteFrame
    PROVE  /\ f.pc \in {"loop", "call"} => f \in ExecuteFrame
           /\ f.pc \in {"fee", "allocate", "handler"} => f \in DepositFrame
           /\ f.entry \in Store
BY DEF DepositFrame, ExecuteFrame

LEMMA DepthType ==
    ASSUME TypeOK
    PROVE  /\ Depth \in Nat
           /\ \A j \in 1 .. Depth : stack[j] \in DepositFrame \cup ExecuteFrame
           /\ Depth > 0 => Top \in DepositFrame \cup ExecuteFrame
BY DEF TypeOK, Depth, Top

LEMMA NextProposalType ==
    ASSUME NEW f \in ExecuteFrame
    PROVE  [f EXCEPT !.pc = "loop", !.i = @ + 1] \in ExecuteFrame
<1>1. f.i \in Nat \ {0} /\ f.i + 1 \in Nat \ {0}
  BY DEF ExecuteFrame
<1>2. \A k \in Nat \ {0} : [f EXCEPT !.pc = "loop", !.i = k] \in ExecuteFrame
  BY DEF ExecuteFrame
<1> QED BY <1>1, <1>2

LEMMA LeaveType ==
    ASSUME TypeOK, Depth > 0, Leave
    PROVE  stack' \in Seq(DepositFrame \cup ExecuteFrame)
BY DepthType DEF TypeOK, Leave, Depth

LEMMA ContinueType ==
    ASSUME TypeOK, Depth > 0, NEW f \in DepositFrame \cup ExecuteFrame, Continue(f)
    PROVE  stack' \in Seq(DepositFrame \cup ExecuteFrame)
BY DepthType DEF TypeOK, Continue, Depth

LEMMA EnterType ==
    ASSUME TypeOK, NEW f \in DepositFrame \cup ExecuteFrame, Enter(f)
    PROVE  stack' \in Seq(DepositFrame \cup ExecuteFrame)
BY DEF TypeOK, Enter

LEMMA RunningKind ==
    ASSUME TypeOK, NEW pc, Running(pc)
    PROVE  /\ Depth > 0
           /\ Top.pc = pc
           /\ pc \in {"loop", "call"} => Top \in ExecuteFrame
           /\ pc \in {"fee", "allocate", "handler"} => Top \in DepositFrame
BY DepthType, FrameKinds DEF Running

LEMMA CurrentType ==
    ASSUME Top \in ExecuteFrame, Top.i <= Len(Top.batch)
    PROVE  Current \in Proposals
BY DEF ExecuteFrame, Current

-----------------------------------------------------------------------------
(* Type correctness *)

LEMMA DepositStepType == TypeOK /\ DepositStep => TypeOK'
<1> SUFFICES ASSUME TypeOK, DepositStep
             PROVE  TypeOK'
  OBVIOUS
<1>1. CASE \E d \in Requests : Deposit(d.dest, d.resource, d.value)
  <2>1. PICK d \in Requests : Deposit(d.dest, d.resource, d.value)
    BY <1>1
  <2> DEFINE f == [pc |-> IF store.feeHandler = Zero THEN "allocate" ELSE "fee",
                   dest |-> d.dest, resource |-> d.resource, nonce |-> 0,
                   entry |-> store]
  <2>2. f \in DepositFrame
    BY <2>1, RequestAssumption, DomainAssumption
    DEF DepositFrame, Deposit, Destinations, TypeOK
  <2>3. Enter(f) /\ store' = store
    BY <2>1 DEF Deposit
  <2> QED BY <2>2, <2>3, EnterType DEF TypeOK
<1>2. CASE FeeCollected
  <2>1. Depth > 0 /\ Top \in DepositFrame
    BY <1>2, RunningKind DEF FeeCollected
  <2>2. [Top EXCEPT !.pc = "allocate"] \in DepositFrame
    BY <2>1 DEF DepositFrame
  <2> QED BY <1>2, <2>1, <2>2, ContinueType DEF FeeCollected, TypeOK
<1>3. CASE AllocateNonce
  <2>1. Depth > 0 /\ Top \in DepositFrame
    BY <1>3, RunningKind DEF AllocateNonce
  <2> DEFINE n == store.depositCounts[Top.dest] + 1
  <2>2. Top.dest \in Destinations /\ n \in 0 .. MaxDepositNonce
    BY <1>3, <2>1, DomainAssumption DEF AllocateNonce, DepositFrame, TypeOK, Store
  <2>3. [Top EXCEPT !.pc = "handler", !.nonce = n] \in DepositFrame
    BY <2>1, <2>2 DEF DepositFrame
  <2>4. store' = [store EXCEPT !.depositCounts[Top.dest] = n]
    BY <1>3 DEF AllocateNonce
  <2>5. store' \in Store
    BY <2>2, <2>4, CountType DEF TypeOK
  <2> QED BY <1>3, <2>1, <2>3, <2>5, ContinueType DEF AllocateNonce, TypeOK
<1>4. CASE DepositHandled
  <2>1. Depth > 0 /\ Top \in DepositFrame
    BY <1>4, RunningKind DEF DepositHandled
  <2>2. store' \in Store
    BY <1>4, <2>1, AnnounceType DEF DepositHandled, DepositFrame, TypeOK
  <2> QED BY <1>4, <2>1, <2>2, LeaveType DEF DepositHandled, TypeOK
<1> QED BY <1>1, <1>2, <1>3, <1>4 DEF DepositStep

\* A frame that waits for a handler points at a proposal of its batch.
CallsInRange ==
    \A j \in 1 .. Depth :
        stack[j].pc = "call" => stack[j].i <= Len(stack[j].batch)

TypeInv == TypeOK /\ CallsInRange

LEMMA ExecuteStepType == TypeInv /\ ExecuteStep => TypeOK'
<1> SUFFICES ASSUME TypeInv, ExecuteStep
             PROVE  TypeOK'
  OBVIOUS
<1> USE DEF TypeInv
<1>1. CASE \E a \in Accounts : \E batch \in Signed[a] : ExecuteProposals(batch, a)
  <2>1. PICK a \in Accounts : \E batch \in Signed[a] : ExecuteProposals(batch, a)
    BY <1>1
  <2>2. PICK batch \in Signed[a] : ExecuteProposals(batch, a)
    BY <2>1
  <2> DEFINE f == [pc |-> "loop", batch |-> batch, i |-> 1,
                   entry |-> store, before |-> store]
  <2>3. f \in ExecuteFrame
    BY <2>2, SignedAssumption DEF ExecuteFrame, TypeOK
  <2>4. Enter(f) /\ store' = store
    BY <2>2 DEF ExecuteProposals
  <2> QED BY <2>3, <2>4, EnterType DEF TypeOK
<1>2. CASE SkipExecuted
  <2>1. Depth > 0 /\ Top \in ExecuteFrame
    BY <1>2, RunningKind DEF SkipExecuted, InBatch
  <2>2. [Top EXCEPT !.i = @ + 1] \in ExecuteFrame
    BY <2>1 DEF ExecuteFrame
  <2> QED BY <1>2, <2>1, <2>2, ContinueType DEF SkipExecuted, TypeOK
<1>3. CASE CallHandler
  <2>1. Depth > 0 /\ Top \in ExecuteFrame /\ Current \in Proposals
    BY <1>3, RunningKind, CurrentType DEF CallHandler, InBatch
  <2>2. store' \in Store
    BY <1>3, <2>1, MarkType DEF CallHandler, TypeOK
  <2>3. [Top EXCEPT !.pc = "call", !.before = store'] \in ExecuteFrame
    BY <2>1, <2>2 DEF ExecuteFrame
  <2> QED BY <1>3, <2>1, <2>2, <2>3, ContinueType DEF CallHandler, TypeOK
<1>4. ASSUME Running("call"), NEW t \in {AfterSuccess(store, Current), AfterFailure(Top.before, Current)},
             store' = t, Continue([Top EXCEPT !.pc = "loop", !.i = @ + 1])
      PROVE  TypeOK'
  <2>1. Depth > 0 /\ Top \in ExecuteFrame /\ Current \in Proposals
    BY <1>4, RunningKind, CurrentType, DepthType DEF CallsInRange, Top
  <2>2. store' \in Store
    BY <1>4, <2>1, SuccessType, MarkType DEF TypeOK, ExecuteFrame
  <2>3. [Top EXCEPT !.pc = "loop", !.i = @ + 1] \in ExecuteFrame
    BY <2>1, NextProposalType
  <2> QED BY <1>4, <2>1, <2>2, <2>3, ContinueType DEF TypeOK
<1>5. CASE ReturnFromExecute
  BY <1>5, LeaveType, RunningKind DEF ReturnFromExecute, TypeOK
<1> QED BY <1>1, <1>2, <1>3, <1>4, <1>5
        DEF ExecuteStep, HandlerSucceeds, HandlerReverts

LEMMA AdminStepType == TypeOK /\ AdminStep => TypeOK'
<1> SUFFICES ASSUME TypeOK, AdminStep
             PROVE  TypeOK'
  OBVIOUS
<1>1. stack' = stack
  BY DEF AdminStep, AdminPauseTransfers, AdminUnpauseTransfers, AdminSetResource,
         AdminSetDepositNonce, AdminChangeFeeHandler, EndKeygen
<1>2. CASE AdminPauseTransfers \/ AdminUnpauseTransfers
  BY <1>1, <1>2 DEF AdminPauseTransfers, AdminUnpauseTransfers, TypeOK, Store
<1>3. CASE \E h \in Handlers, r \in Resources : AdminSetResource(h, r)
  <2>1. PICK h \in Handlers, r \in Resources : AdminSetResource(h, r)
    BY <1>3
  <2>2. [store.handlerOf EXCEPT ![r] = h] \in [Resources -> Handlers \cup {Zero}]
    BY DEF TypeOK, Store
  <2> QED BY <1>1, <2>1, <2>2 DEF AdminSetResource, TypeOK, Store
<1>4. CASE \E d \in Destinations, n \in NonceJumps \cap DepositNonces :
               AdminSetDepositNonce(d, n)
  <2>1. PICK d \in Destinations, n \in NonceJumps \cap DepositNonces :
            AdminSetDepositNonce(d, n)
    BY <1>4
  <2>2. n \in 0 .. MaxDepositNonce
    BY DomainAssumption DEF DepositNonces
  <2>3. (store.depositCounts[d] + 1) .. n \subseteq DepositNonces
    BY <2>2, DomainAssumption DEF DepositNonces, TypeOK, Store
  <2> DEFINE c == [store.depositCounts EXCEPT ![d] = n]
             k == [store.skipped EXCEPT ![d] = @ \cup (store.depositCounts[d] + 1) .. n]
  <2>4. c \in [Destinations -> 0 .. MaxDepositNonce]
    BY <2>2 DEF TypeOK, Store
  <2>5. k \in [Destinations -> SUBSET DepositNonces]
    BY <2>3 DEF TypeOK, Store
  <2>6. store' = [store EXCEPT !.depositCounts = c, !.skipped = k]
    BY <2>1 DEF AdminSetDepositNonce
  <2> HIDE DEF c, k
  <2> QED BY <1>1, <2>4, <2>5, <2>6 DEF TypeOK, Store
<1>5. CASE \E f \in FeeHandlers \cup {Zero} : AdminChangeFeeHandler(f)
  BY <1>1, <1>5 DEF AdminChangeFeeHandler, TypeOK, Store
<1>6. CASE \E a \in Accounts : EndKeygen(a)
  BY <1>1, <1>6 DEF EndKeygen, TypeOK, Store
<1> QED BY <1>2, <1>3, <1>4, <1>5, <1>6 DEF AdminStep

LEMMA RevertType == TypeOK /\ Revert => TypeOK'
BY DepthType, FrameKinds, LeaveType DEF Revert, TypeOK

-----------------------------------------------------------------------------
(* How the steps change the stack *)

LEMMA LeaveFrames ==
    ASSUME TypeOK, Depth > 0, Leave
    PROVE  /\ Depth' = Depth - 1
           /\ \A j \in 1 .. Depth - 1 : stack'[j] = stack[j]
<1> DEFINE F == DepositFrame \cup ExecuteFrame
           n == Len(stack) - 1
<1>1. n \in Nat /\ \A j \in 1 .. n : stack[j] \in F
  BY DEF TypeOK, Depth
<1>2. stack' = SubSeq(stack, 1, n)
  BY DEF Leave, Depth
<1> HIDE DEF F, n
<1>3. /\ Len(SubSeq(stack, 1, n)) = IF 1 <= n THEN n - 1 + 1 ELSE 0
      /\ \A j \in 1 .. n - 1 + 1 : SubSeq(stack, 1, n)[j] = stack[1 + j - 1]
  BY <1>1, SubSeqProperties
<1>4. Len(stack') = n /\ \A j \in 1 .. n : stack'[j] = stack[j]
  <2>1. n = 0 \/ 1 <= n
    BY <1>1
  <2>2. Len(SubSeq(stack, 1, n)) = n
    BY <1>1, <1>3, <2>1
  <2>3. ASSUME NEW j \in 1 .. n
        PROVE  SubSeq(stack, 1, n)[j] = stack[j]
    <3>1. j \in 1 .. n - 1 + 1 /\ 1 + j - 1 = j
      BY <1>1
    <3> QED BY <1>3, <3>1
  <2> QED BY <1>2, <2>2, <2>3
<1> QED BY <1>4 DEF Depth, n

LEMMA ContinueFrames ==
    ASSUME TypeOK, Depth > 0, NEW f, Continue(f)
    PROVE  /\ Depth' = Depth
           /\ stack'[Depth] = f
           /\ \A j \in 1 .. Depth - 1 : stack'[j] = stack[j]
BY DepthType DEF TypeOK, Continue, Depth

LEMMA EnterFrames ==
    ASSUME TypeOK, NEW f, Enter(f)
    PROVE  /\ Depth' = Depth + 1
           /\ stack'[Depth + 1] = f
           /\ \A j \in 1 .. Depth : stack'[j] = stack[j]
BY DepthType DEF TypeOK, Enter, Depth

LEMMA TypeStep == TypeInv /\ [Next]_vars => TypeInv'
<1> SUFFICES ASSUME TypeInv, [Next]_vars
             PROVE  TypeInv'
  OBVIOUS
<1>1. TypeOK'
  <2>1. CASE UNCHANGED vars
    BY <2>1 DEF vars, TypeInv, TypeOK
  <2> QED BY <2>1, DepositStepType, ExecuteStepType, AdminStepType, RevertType
          DEF Next, TypeInv
<1>2. CallsInRange'
  <2> USE DEF TypeInv
  <2>1. CASE stack' = stack
    BY <2>1 DEF CallsInRange, Depth
  <2>2. ASSUME Depth > 0, Leave
        PROVE  CallsInRange'
    BY <2>2, LeaveFrames, DepthType DEF CallsInRange
  <2>3. ASSUME NEW f, Enter(f), f.pc # "call"
        PROVE  CallsInRange'
    BY <2>3, EnterFrames, DepthType DEF CallsInRange
  <2>4. ASSUME Depth > 0, NEW f, Continue(f), f.pc = "call" => f.i <= Len(f.batch)
        PROVE  CallsInRange'
    BY <2>4, ContinueFrames, DepthType DEF CallsInRange
  <2>5. CASE DepositStep
    <3>1. ASSUME NEW d \in Requests, Deposit(d.dest, d.resource, d.value)
          PROVE  CallsInRange'
      BY <3>1, <2>3 DEF Deposit
    <3>2. CASE FeeCollected
      BY <3>2, <2>4, RunningKind DEF FeeCollected, DepositFrame
    <3>3. CASE AllocateNonce
      BY <3>3, <2>4, RunningKind DEF AllocateNonce, DepositFrame
    <3>4. CASE DepositHandled
      BY <3>4, <2>2 DEF DepositHandled, Running
    <3> QED BY <2>5, <3>1, <3>2, <3>3, <3>4 DEF DepositStep
  <2>6. CASE ExecuteStep
    <3>1. ASSUME NEW batch, NEW a, ExecuteProposals(batch, a)
          PROVE  CallsInRange'
      BY <3>1, <2>3 DEF ExecuteProposals
    <3>2. CASE SkipExecuted
      BY <3>2, <2>4, RunningKind DEF SkipExecuted, InBatch, ExecuteFrame
    <3>3. CASE CallHandler
      BY <3>3, <2>4, RunningKind DEF CallHandler, InBatch, ExecuteFrame
    <3>4. CASE HandlerSucceeds \/ HandlerReverts
      BY <3>4, <2>4, RunningKind DEF HandlerSucceeds, HandlerReverts, ExecuteFrame
    <3>5. CASE ReturnFromExecute
      BY <3>5, <2>2 DEF ReturnFromExecute, Running
    <3> QED BY <2>6, <3>1, <3>2, <3>3, <3>4, <3>5 DEF ExecuteStep
  <2>7. CASE AdminStep
    BY <2>1, <2>7
    DEF AdminStep, AdminPauseTransfers, AdminUnpauseTransfers, AdminSetResource,
        AdminSetDepositNonce, AdminChangeFeeHandler, EndKeygen
  <2>8. CASE Revert
    BY <2>2, <2>8 DEF Revert
  <2>9. CASE UNCHANGED vars
    BY <2>1, <2>9 DEF vars
  <2> QED BY <2>5, <2>6, <2>7, <2>8, <2>9 DEF Next
<1> QED BY <1>1, <1>2 DEF TypeInv

\* The storage and the calls in progress always have the types of the
\* contract's fields, for every instance; CallsInRange is what it takes to
\* prove it.
THEOREM TypeCorrect == Spec => []TypeOK
<1>1. Init => TypeInv
  BY InitialStoreType DEF Init, TypeInv, TypeOK, CallsInRange, Depth
<1>2. TypeInv => TypeOK
  BY DEF TypeInv
<1> QED BY <1>1, <1>2, TypeStep, PTL DEF Spec

-----------------------------------------------------------------------------
(* The bitmap answers for each deposit separately *)

LEMMA ExecutedAfter ==
    ASSUME NEW s \in Store, NEW p \in Proposals, NEW q \in Proposals
    PROVE  /\ Executed(BeforeCall(s, p), q) <=> Executed(s, q) \/ Key(q) = Key(p)
           /\ Executed(AfterFailure(s, p), q) <=> Executed(s, q) /\ Key(q) # Key(p)
<1> DEFINE b == s.usedNonces
           o == p.origin
           w == Word(p.nonce)
           i == Bit(p.nonce)
           o2 == q.origin
           w2 == Word(q.nonce)
           i2 == Bit(q.nonce)
<1>1. b \in Bitmaps /\ o \in Origins /\ w \in Words /\ o2 \in Origins /\ w2 \in Words
  BY ProposalType DEF Store, Bitmaps
<1>2. Key(q) = Key(p) <=> o2 = o /\ w2 = w /\ i2 = i
  BY ProposalType, SameWordAndBit DEF Key
<1>3. /\ BeforeCall(s, p).usedNonces = [b EXCEPT ![o][w] = @ \cup {i}]
      /\ AfterFailure(s, p).usedNonces = [b EXCEPT ![o][w] = @ \ {i}]
  BY DEF BeforeCall, Marked, AfterFailure, Mark, Clear, Store
<1> HIDE DEF b, o, w, i, o2, w2, i2
<1>4. /\ i2 \in [b EXCEPT ![o][w] = @ \cup {i}][o2][w2]
           <=> i2 \in b[o2][w2] \/ (o2 = o /\ w2 = w /\ i2 = i)
      /\ i2 \in [b EXCEPT ![o][w] = @ \ {i}][o2][w2]
           <=> i2 \in b[o2][w2] /\ ~(o2 = o /\ w2 = w /\ i2 = i)
  BY <1>1 DEF Bitmaps
<1> QED BY <1>2, <1>3, <1>4 DEF Executed, IsExecuted, b, o2, w2, i2

LEMMA DeliveredAfter ==
    ASSUME NEW s \in Store, NEW p \in Proposals
    PROVE  /\ BeforeCall(s, p).delivered = s.delivered
           /\ AfterFailure(s, p).delivered = s.delivered
           /\ AfterSuccess(s, p).usedNonces = s.usedNonces
           /\ AfterSuccess(s, p).delivered[p] = s.delivered[p] + 1
           /\ \A q \in Proposals \ {p} :
                  AfterSuccess(s, p).delivered[q] = s.delivered[q]
           /\ Delivered(AfterSuccess(s, p)) = Delivered(s) \cup {p}
<1>1. s.delivered \in [Proposals -> Nat]
  BY DEF Store
<1>2. /\ BeforeCall(s, p).delivered = s.delivered
      /\ AfterFailure(s, p).delivered = s.delivered
      /\ AfterSuccess(s, p).usedNonces = s.usedNonces
  BY DEF Store, BeforeCall, Marked, AfterFailure, AfterSuccess
<1>3. AfterSuccess(s, p).delivered = [s.delivered EXCEPT ![p] = @ + 1]
  BY DEF Store, AfterSuccess
<1>4. /\ AfterSuccess(s, p).delivered[p] = s.delivered[p] + 1
      /\ \A q \in Proposals \ {p} :
             AfterSuccess(s, p).delivered[q] = s.delivered[q]
  BY <1>1, <1>3
<1>5. Delivered(AfterSuccess(s, p)) = Delivered(s) \cup {p}
  BY <1>1, <1>4 DEF Delivered
<1> QED BY <1>2, <1>4, <1>5

-----------------------------------------------------------------------------
(* How a handler call changes what a storage is consistent with *)

LEMMA ConsistentCall ==
    ASSUME NEW s \in Store, NEW p \in Proposals, NEW K,
           Consistent(s, K), ~Executed(s, p)
    PROVE  /\ Key(p) \notin K
           /\ Consistent(BeforeCall(s, p), K \cup {Key(p)})
<1>1. Key(p) \notin K /\ \A q \in Delivered(s) : Key(q) # Key(p)
  BY DEF Consistent
<1>2. Delivered(BeforeCall(s, p)) = Delivered(s)
  BY DeliveredAfter DEF Delivered
<1> QED BY <1>1, <1>2, ExecutedAfter, DeliveredAfter DEF Consistent

LEMMA ConsistentSuccess ==
    ASSUME NEW s \in Store, NEW p \in Proposals, NEW K,
           Consistent(s, K), Key(p) \in K
    PROVE  Consistent(AfterSuccess(s, p), K \ {Key(p)})
<1> DEFINE t == AfterSuccess(s, p)
<1>1. \A q \in Delivered(s) : Key(q) # Key(p)
  BY DEF Consistent
<1>2. s.delivered[p] = 0
  BY <1>1 DEF Delivered, Store
<1>3. Delivered(t) = Delivered(s) \cup {p}
  BY DeliveredAfter
<1>4. \A q \in Proposals : Executed(t, q) <=> Executed(s, q)
  BY DeliveredAfter DEF Executed
<1>5. \A q \in Proposals : t.delivered[q] <= 1
  BY <1>2, DeliveredAfter DEF Consistent
<1>6. \A q, r \in Delivered(t) : Key(q) = Key(r) => q = r
  BY <1>1, <1>3 DEF Consistent
<1>7. ASSUME NEW q \in Proposals
      PROVE  Executed(t, q) <=> Key(q) \in K \ {Key(p)}
                                    \/ \E r \in Delivered(t) : Key(r) = Key(q)
  BY <1>3, <1>4 DEF Consistent
<1>8. \A q \in Delivered(t) : Key(q) \notin K \ {Key(p)}
  BY <1>3 DEF Consistent
<1> HIDE DEF t
<1>9. Consistent(t, K \ {Key(p)})
  BY <1>5, <1>6, <1>7, <1>8 DEF Consistent
<1> QED BY <1>9 DEF t

LEMMA ConsistentFailure ==
    ASSUME NEW s \in Store, NEW p \in Proposals, NEW K,
           Consistent(s, K), Key(p) \in K
    PROVE  Consistent(AfterFailure(s, p), K \ {Key(p)})
<1>1. \A q \in Delivered(s) : Key(q) # Key(p)
  BY DEF Consistent
<1>2. Delivered(AfterFailure(s, p)) = Delivered(s)
  BY DeliveredAfter DEF Delivered
<1> QED BY <1>1, <1>2, ExecutedAfter, DeliveredAfter DEF Consistent

LEMMA ConsistentSame ==
    ASSUME NEW s, NEW t, NEW K, Consistent(s, K),
           t.usedNonces = s.usedNonces, t.delivered = s.delivered
    PROVE  Consistent(t, K)
BY DEF Consistent, Executed, Delivered

-----------------------------------------------------------------------------
(* Pending calls depend on the frames below only *)

LEMMA PendingSame ==
    ASSUME NEW a, NEW b, NEW m \in Nat, \A j \in 1 .. m : a[j] = b[j]
    PROVE  PendingKeys(a, m) = PendingKeys(b, m)
BY DEF PendingKeys

LEMMA PendingSplit ==
    ASSUME NEW a, NEW m \in Nat \ {0}
    PROVE  /\ a[m].pc # "call" => PendingKeys(a, m) = PendingKeys(a, m - 1)
           /\ a[m].pc = "call" =>
                  PendingKeys(a, m) =
                      PendingKeys(a, m - 1) \cup {Key(a[m].batch[a[m].i])}
<1> DEFINE C(n) == {k \in 1 .. n : a[k].pc = "call"}
<1>1. CASE a[m].pc # "call"
  <2>1. C(m) = C(m - 1)
    BY <1>1
  <2> QED BY <1>1, <2>1 DEF PendingKeys
<1>2. CASE a[m].pc = "call"
  <2>1. C(m) = C(m - 1) \cup {m}
    BY <1>2
  <2> QED BY <1>2, <2>1 DEF PendingKeys
<1> QED BY <1>1, <1>2

LEMMA FramesBelow ==
    ASSUME NEW a, NEW b, NEW m \in Nat, \A j \in 1 .. m : a[j] = b[j],
           \A j \in 1 .. m : FrameConsistent(a, j)
    PROVE  \A j \in 1 .. m : FrameConsistent(b, j)
<1> SUFFICES ASSUME NEW j \in 1 .. m
             PROVE  FrameConsistent(b, j)
  OBVIOUS
<1>1. j \in Nat /\ j - 1 \in Nat /\ a[j] = b[j]
  OBVIOUS
<1>2. PendingKeys(a, j) = PendingKeys(b, j)
  BY <1>1, PendingSame
<1>3. PendingKeys(a, j - 1) = PendingKeys(b, j - 1)
  BY <1>1, PendingSame
<1> QED BY <1>1, <1>2, <1>3 DEF FrameConsistent

-----------------------------------------------------------------------------
(* One lemma for each way a step treats the stack *)

NestedInv == TypeInv /\ NestedCallsConsistent

LEMMA EnterConsistent ==
    ASSUME NestedInv, NEW f, Enter(f), f.entry = store, f.pc # "call", store' = store
    PROVE  NestedCallsConsistent'
<1>1. /\ Depth \in Nat
      /\ Depth' = Depth + 1
      /\ stack'[Depth + 1] = f
      /\ \A j \in 1 .. Depth : stack[j] = stack'[j]
  BY EnterFrames, DepthType DEF NestedInv, TypeInv
<1>2. \A j \in 1 .. Depth : FrameConsistent(stack', j)
  BY <1>1, FramesBelow DEF NestedInv, NestedCallsConsistent
<1>3. PendingKeys(stack', Depth) = PendingKeys(stack, Depth)
  BY <1>1, PendingSame
<1>4. PendingKeys(stack', Depth + 1) = PendingKeys(stack', Depth)
  BY <1>1, PendingSplit
<1>5. FrameConsistent(stack', Depth + 1)
  BY <1>1, <1>3 DEF FrameConsistent, NestedInv, NestedCallsConsistent
<1> QED BY <1>1, <1>2, <1>3, <1>4, <1>5 DEF NestedInv, NestedCallsConsistent

LEMMA LeaveConsistent ==
    ASSUME NestedInv, Depth > 0, Leave,
           Consistent(store', PendingKeys(stack, Depth - 1))
    PROVE  NestedCallsConsistent'
<1>1. /\ Depth \in Nat
      /\ Depth' = Depth - 1
      /\ \A j \in 1 .. Depth - 1 : stack[j] = stack'[j]
  BY LeaveFrames, DepthType DEF NestedInv, TypeInv
<1>2. \A j \in 1 .. Depth - 1 : FrameConsistent(stack', j)
  BY <1>1, FramesBelow DEF NestedInv, NestedCallsConsistent
<1>3. PendingKeys(stack', Depth - 1) = PendingKeys(stack, Depth - 1)
  BY <1>1, PendingSame
<1> QED BY <1>1, <1>2, <1>3 DEF NestedCallsConsistent

LEMMA ContinueConsistent ==
    ASSUME NestedInv, Depth > 0, NEW f, Continue(f), f.entry = Top.entry,
           f.pc # "call" => Consistent(store', PendingKeys(stack, Depth - 1)),
           f.pc = "call" =>
               /\ f.before = store'
               /\ Key(f.batch[f.i]) \notin PendingKeys(stack, Depth - 1)
               /\ Consistent(store', PendingKeys(stack, Depth - 1) \cup {Key(f.batch[f.i])})
    PROVE  NestedCallsConsistent'
<1>1. /\ Depth \in Nat \ {0}
      /\ Depth' = Depth
      /\ stack'[Depth] = f
      /\ \A j \in 1 .. Depth - 1 : stack[j] = stack'[j]
  BY ContinueFrames, DepthType DEF NestedInv, TypeInv
<1>2. \A j \in 1 .. Depth - 1 : FrameConsistent(stack', j)
  BY <1>1, FramesBelow DEF NestedInv, NestedCallsConsistent
<1>3. PendingKeys(stack', Depth - 1) = PendingKeys(stack, Depth - 1)
  BY <1>1, PendingSame
<1>4. Consistent(f.entry, PendingKeys(stack, Depth - 1))
  BY <1>1 DEF NestedInv, NestedCallsConsistent, FrameConsistent, Top
<1>5. Consistent(store', PendingKeys(stack', Depth))
  BY <1>1, <1>3, PendingSplit
<1>6. FrameConsistent(stack', Depth)
  BY <1>1, <1>3, <1>4, <1>5 DEF FrameConsistent
<1> QED BY <1>1, <1>2, <1>5, <1>6 DEF NestedCallsConsistent

\* What is known of the innermost call, in the terms of the lemmas above.
LEMMA TopConsistent ==
    ASSUME NestedInv, Depth > 0
    PROVE  /\ Consistent(Top.entry, PendingKeys(stack, Depth - 1))
           /\ Top.pc # "call" => Consistent(store, PendingKeys(stack, Depth - 1))
           /\ Top.pc = "call" =>
                  /\ Key(Current) \notin PendingKeys(stack, Depth - 1)
                  /\ Consistent(store, PendingKeys(stack, Depth - 1) \cup {Key(Current)})
                  /\ Consistent(Top.before, PendingKeys(stack, Depth - 1) \cup {Key(Current)})
<1>1. Depth \in Nat \ {0} /\ Depth \in 1 .. Depth
  BY DepthType DEF NestedInv, TypeInv
<1>2. FrameConsistent(stack, Depth) /\ Consistent(store, PendingKeys(stack, Depth))
  BY <1>1 DEF NestedInv, NestedCallsConsistent
<1> QED BY <1>1, <1>2, PendingSplit DEF FrameConsistent, Top, Current

LEMMA DepositStepConsistent == NestedInv /\ DepositStep => NestedCallsConsistent'
<1> SUFFICES ASSUME NestedInv, DepositStep
             PROVE  NestedCallsConsistent'
  OBVIOUS
<1> USE DEF NestedInv, TypeInv
<1>1. ASSUME NEW d \in Requests, Deposit(d.dest, d.resource, d.value)
      PROVE  NestedCallsConsistent'
  BY <1>1, EnterConsistent DEF Deposit
<1>2. CASE FeeCollected
  <2>1. Depth > 0 /\ Top.pc = "fee" /\ Top \in DepositFrame
    BY <1>2, RunningKind DEF FeeCollected
  <2>2. Consistent(store', PendingKeys(stack, Depth - 1))
    BY <1>2, <2>1, TopConsistent DEF FeeCollected
  <2> QED BY <1>2, <2>1, <2>2, ContinueConsistent DEF FeeCollected, DepositFrame
<1>3. CASE AllocateNonce
  <2>1. Depth > 0 /\ Top.pc = "allocate" /\ Top \in DepositFrame
    BY <1>3, RunningKind DEF AllocateNonce
  <2>2. store'.usedNonces = store.usedNonces /\ store'.delivered = store.delivered
    BY <1>3 DEF AllocateNonce, TypeOK, Store
  <2>3. Consistent(store', PendingKeys(stack, Depth - 1))
    BY <2>1, <2>2, TopConsistent, ConsistentSame
  <2> QED BY <1>3, <2>1, <2>3, ContinueConsistent DEF AllocateNonce, DepositFrame
<1>4. CASE DepositHandled
  <2>1. Depth > 0 /\ Top.pc = "handler"
    BY <1>4, RunningKind DEF DepositHandled
  <2>2. store'.usedNonces = store.usedNonces /\ store'.delivered = store.delivered
    BY <1>4 DEF DepositHandled, TypeOK, Store
  <2>3. Consistent(store', PendingKeys(stack, Depth - 1))
    BY <2>1, <2>2, TopConsistent, ConsistentSame
  <2> QED BY <1>4, <2>1, <2>3, LeaveConsistent DEF DepositHandled
<1> QED BY <1>1, <1>2, <1>3, <1>4 DEF DepositStep

LEMMA ExecuteStepConsistent == NestedInv /\ ExecuteStep => NestedCallsConsistent'
<1> SUFFICES ASSUME NestedInv, ExecuteStep
             PROVE  NestedCallsConsistent'
  OBVIOUS
<1> USE DEF NestedInv, TypeInv
<1> DEFINE K == PendingKeys(stack, Depth - 1)
<1>1. ASSUME NEW batch, NEW a, ExecuteProposals(batch, a)
      PROVE  NestedCallsConsistent'
  BY <1>1, EnterConsistent DEF ExecuteProposals
<1>2. CASE SkipExecuted
  <2>1. Depth > 0 /\ Top.pc = "loop" /\ Top \in ExecuteFrame
    BY <1>2, RunningKind DEF SkipExecuted, InBatch
  <2>2. Consistent(store', K)
    BY <1>2, <2>1, TopConsistent DEF SkipExecuted
  <2> QED BY <1>2, <2>1, <2>2, ContinueConsistent DEF SkipExecuted, ExecuteFrame
<1>3. CASE CallHandler
  <2>1. Depth > 0 /\ Top.pc = "loop" /\ Top \in ExecuteFrame
    BY <1>3, RunningKind DEF CallHandler, InBatch
  <2>2. Current \in Proposals /\ store \in Store
    BY <1>3, <2>1, CurrentType DEF CallHandler, InBatch, TypeOK
  <2>3. Key(Current) \notin K /\ Consistent(store', K \cup {Key(Current)})
    BY <1>3, <2>1, <2>2, TopConsistent, ConsistentCall DEF CallHandler
  <2> DEFINE f == [Top EXCEPT !.pc = "call", !.before = store']
  <2>4. /\ f.entry = Top.entry
        /\ f.pc = "call"
        /\ f.before = store'
        /\ f.batch[f.i] = Current
    BY <2>1 DEF ExecuteFrame, Current
  <2>5. Continue(f)
    BY <1>3 DEF CallHandler
  <2> HIDE DEF f, K
  <2> QED BY <2>1, <2>3, <2>4, <2>5, ContinueConsistent DEF K
<1>4. CASE HandlerSucceeds \/ HandlerReverts
  <2>1. Depth > 0 /\ Top.pc = "call" /\ Top \in ExecuteFrame
    BY <1>4, RunningKind DEF HandlerSucceeds, HandlerReverts
  <2>2. /\ Current \in Proposals
        /\ store \in Store
        /\ Top.before \in Store
    BY <2>1, CurrentType, DepthType DEF CallsInRange, Top, TypeOK, ExecuteFrame
  <2>3. /\ Key(Current) \notin K
        /\ Consistent(store, K \cup {Key(Current)})
        /\ Consistent(Top.before, K \cup {Key(Current)})
    BY <2>1, TopConsistent
  <2> HIDE DEF K
  <2>4. (K \cup {Key(Current)}) \ {Key(Current)} = K
    BY <2>3
  <2>5. Consistent(store', K)
    <3>1. CASE HandlerSucceeds
      BY <2>2, <2>3, <2>4, <3>1, ConsistentSuccess DEF HandlerSucceeds
    <3>2. CASE HandlerReverts
      BY <2>2, <2>3, <2>4, <3>2, ConsistentFailure DEF HandlerReverts
    <3> QED BY <1>4, <3>1, <3>2
  <2> DEFINE f == [Top EXCEPT !.pc = "loop", !.i = @ + 1]
  <2>6. f.entry = Top.entry /\ f.pc # "call"
    BY <2>1 DEF ExecuteFrame
  <2>7. Continue(f)
    BY <1>4 DEF HandlerSucceeds, HandlerReverts
  <2> HIDE DEF f
  <2> QED BY <2>1, <2>5, <2>6, <2>7, ContinueConsistent DEF K
<1>5. CASE ReturnFromExecute
  BY <1>5, RunningKind, TopConsistent, LeaveConsistent DEF ReturnFromExecute
<1> QED BY <1>1, <1>2, <1>3, <1>4, <1>5 DEF ExecuteStep

LEMMA AdminStepConsistent == NestedInv /\ AdminStep => NestedCallsConsistent'
<1> SUFFICES ASSUME NestedInv, AdminStep
             PROVE  NestedCallsConsistent'
  OBVIOUS
<1>1. /\ stack' = stack
      /\ store'.usedNonces = store.usedNonces
      /\ store'.delivered = store.delivered
  BY DEF NestedInv, TypeInv, TypeOK, Store,
         AdminStep, AdminPauseTransfers, AdminUnpauseTransfers, AdminSetResource,
         AdminSetDepositNonce, AdminChangeFeeHandler, EndKeygen
<1>2. Consistent(store', PendingKeys(stack, Depth))
  BY <1>1, ConsistentSame DEF NestedInv, NestedCallsConsistent
<1> QED BY <1>1, <1>2 DEF NestedInv, NestedCallsConsistent, Depth

LEMMA RevertConsistent == NestedInv /\ Revert => NestedCallsConsistent'
BY TopConsistent, LeaveConsistent DEF Revert

LEMMA NestedStep == NestedInv /\ [Next]_vars => NestedInv'
<1> SUFFICES ASSUME NestedInv, [Next]_vars
             PROVE  NestedInv'
  OBVIOUS
<1>1. TypeInv'
  BY TypeStep DEF NestedInv
<1>2. NestedCallsConsistent'
  <2>1. CASE UNCHANGED vars
    BY <2>1 DEF vars, NestedInv, NestedCallsConsistent, Depth
  <2> QED BY <2>1, DepositStepConsistent, ExecuteStepConsistent,
             AdminStepConsistent, RevertConsistent DEF Next
<1> QED BY <1>1, <1>2 DEF NestedInv

LEMMA NestedInit == Init => NestedInv
<1> SUFFICES ASSUME Init
             PROVE  NestedInv
  OBVIOUS
<1>1. TypeInv
  BY InitialStoreType DEF Init, TypeInv, TypeOK, CallsInRange, Depth
<1>2. Depth = 0 /\ PendingKeys(stack, Depth) = {}
  BY DEF Init, Depth, PendingKeys
<1>3. Delivered(store) = {}
  BY DEF Init, Delivered
<1>4. \A p \in Proposals : ~Executed(store, p) /\ store.delivered[p] <= 1
  BY ProposalType DEF Init, Executed, IsExecuted
<1> QED BY <1>1, <1>2, <1>3, <1>4 DEF NestedInv, NestedCallsConsistent, Consistent

-----------------------------------------------------------------------------
\* Calls in progress always execute different deposits, and every storage a
\* revert or a catch can bring back agrees with its bitmap.
THEOREM NestedCalls == Spec => []NestedCallsConsistent
<1>1. NestedInv => NestedCallsConsistent
  BY DEF NestedInv
<1> QED BY <1>1, NestedInit, NestedStep, PTL DEF Spec

\* However handlers re-enter the Bridge and whatever reverts, no deposit of
\* another chain is executed twice.
THEOREM DeliveredAtMostOnce == Spec => []AtMostOnce
<1>1. NestedInv => AtMostOnce
  BY DEF NestedInv, NestedCallsConsistent, Consistent, AtMostOnce
<1> QED BY <1>1, NestedInit, NestedStep, PTL DEF Spec

\* Outside a transaction a nonce is used exactly when its proposal was
\* executed, so that a failed proposal stays executable.
THEOREM UsedIffDelivered == Spec => []NonceUsedIffDelivered
<1>1. NestedInv => NonceUsedIffDelivered
  BY DEF NestedInv, NestedCallsConsistent, Consistent, NonceUsedIffDelivered, PendingKeys
<1> QED BY <1>1, NestedInit, NestedStep, PTL DEF Spec

-----------------------------------------------------------------------------
(***************************************************************************)
(* Bridge implements BridgeLedger: whatever happens inside a transaction,  *)
(* what the chain commits is one atomic step of the ledger, or none.       *)
(***************************************************************************)

(* Extends is how storages grow within a transaction. *)

LEMMA ExtendsSelf ==
    ASSUME NEW s, ~s.paused, s.MPCAddress # Zero
    PROVE  Extends(s, s)
BY DEF Extends

LEMMA ExtendsSame ==
    ASSUME NEW s, NEW t, NEW u, Extends(s, t),
           u.MPCAddress = t.MPCAddress, u.delivered = t.delivered,
           Announced(t) \subseteq Announced(u)
    PROVE  Extends(s, u)
BY DEF Extends, Delivered

LEMMA ExtendsCall ==
    ASSUME NEW s, NEW t \in Store, NEW p \in Proposals, Extends(s, t)
    PROVE  Extends(s, BeforeCall(t, p)) /\ Extends(s, AfterFailure(t, p))
<1>1. /\ BeforeCall(t, p).MPCAddress = t.MPCAddress
      /\ BeforeCall(t, p).announced = t.announced
      /\ AfterFailure(t, p).MPCAddress = t.MPCAddress
      /\ AfterFailure(t, p).announced = t.announced
  BY DEF Store, BeforeCall, Marked, AfterFailure
<1>2. Announced(t) \subseteq Announced(BeforeCall(t, p))
  BY <1>1 DEF Announced
<1>3. Announced(t) \subseteq Announced(AfterFailure(t, p))
  BY <1>1 DEF Announced
<1> QED BY <1>1, <1>2, <1>3, DeliveredAfter, ExtendsSame

LEMMA ExtendsSuccess ==
    ASSUME NEW s, NEW t \in Store, NEW p \in Proposals, Extends(s, t),
           p \in SignedBy(s.MPCAddress)
    PROVE  Extends(s, AfterSuccess(t, p))
<1>1. /\ AfterSuccess(t, p).MPCAddress = t.MPCAddress
      /\ AfterSuccess(t, p).announced = t.announced
  BY DEF Store, AfterSuccess
<1>2. Delivered(AfterSuccess(t, p)) = Delivered(t) \cup {p}
  BY DeliveredAfter
<1>3. Announced(AfterSuccess(t, p)) = Announced(t)
  BY <1>1 DEF Announced
<1> QED BY <1>1, <1>2, <1>3 DEF Extends

LEMMA AnnouncedGrows ==
    ASSUME NEW s \in Store, NEW d, NEW n
    PROVE  LET t == [s EXCEPT !.announced[d][n] = @ + 1]
           IN  /\ t.MPCAddress = s.MPCAddress
               /\ t.delivered = s.delivered
               /\ Announced(s) \subseteq Announced(t)
<1> DEFINE t == [s EXCEPT !.announced[d][n] = @ + 1]
           a == s.announced
           b == [a EXCEPT ![d][n] = a[d][n] + 1]
<1>1. t.MPCAddress = s.MPCAddress /\ t.delivered = s.delivered /\ t.announced = b
  BY DEF Store
<1>2. a \in [Destinations -> [DepositNonces -> Nat]]
  BY DEF Store
<1>3. ASSUME NEW e \in Destinations, NEW m \in DepositNonces, a[e][m] > 0
      PROVE  b[e][m] > 0
  <2>1. a[e] \in [DepositNonces -> Nat] /\ a[e][m] \in Nat
    BY <1>2
  <2>2. CASE e = d /\ m = n
    <3>1. b[e][m] = a[e][m] + 1
      BY <1>2, <2>1, <2>2
    <3> QED BY <2>1, <3>1
  <2>3. CASE e # d \/ m # n
    <3>1. b[e][m] = a[e][m]
      BY <1>2, <2>1, <2>3
    <3> QED BY <1>3, <3>1
  <2> QED BY <2>2, <2>3
<1> HIDE DEF t, a, b
<1>4. Announced(s) \subseteq Announced(t)
  BY <1>1, <1>3 DEF Announced, a
<1> QED BY <1>1, <1>4 DEF t

-----------------------------------------------------------------------------
(* What the chain has committed, and when a step changes it *)

LEMMA CommittedIs ==
    ASSUME TypeOK
    PROVE  Committed = IF Depth = 0 THEN store ELSE stack[1].entry
BY DEF TypeOK, Committed, Depth

LEMMA CommittedType == TypeOK => Committed \in Store
<1> SUFFICES ASSUME TypeOK
             PROVE  Committed \in Store
  OBVIOUS
<1>1. CASE Depth = 0
  BY <1>1, CommittedIs DEF TypeOK
<1>2. CASE Depth # 0
  <2>1. stack[1] \in DepositFrame \cup ExecuteFrame
    BY <1>2, DepthType
  <2> QED BY <1>2, <2>1, CommittedIs, FrameKinds
<1> QED BY <1>1, <1>2

LEMMA EnterCommits ==
    ASSUME TypeOK, TypeOK', NEW f, Enter(f), f.entry = store
    PROVE  Committed' = Committed
<1>1. /\ Depth \in Nat
      /\ Depth' = Depth + 1
      /\ stack'[Depth + 1] = f
      /\ \A j \in 1 .. Depth : stack'[j] = stack[j]
  BY EnterFrames, DepthType
<1>2. Committed' = stack'[1].entry
  BY <1>1 DEF TypeOK, Committed, Depth
<1>3. CASE Depth = 0
  BY <1>1, <1>2, <1>3, CommittedIs
<1>4. CASE Depth # 0
  BY <1>1, <1>2, <1>4, CommittedIs
<1> QED BY <1>3, <1>4

LEMMA ContinueCommits ==
    ASSUME TypeOK, TypeOK', Depth > 0, NEW f, Continue(f), f.entry = Top.entry
    PROVE  Committed' = Committed
<1>1. /\ Depth \in Nat \ {0}
      /\ Depth' = Depth
      /\ stack'[Depth] = f
      /\ \A j \in 1 .. Depth - 1 : stack'[j] = stack[j]
  BY ContinueFrames, DepthType
<1>2. stack'[1].entry = stack[1].entry
  BY <1>1 DEF Top
<1>3. Committed' = stack'[1].entry
  BY <1>1 DEF TypeOK, Committed, Depth
<1> QED BY <1>1, <1>2, <1>3, CommittedIs

LEMMA LeaveCommits ==
    ASSUME TypeOK, TypeOK', Depth > 0, Leave
    PROVE  Committed' = IF Depth = 1 THEN store' ELSE Committed
<1>1. /\ Depth \in Nat \ {0}
      /\ Depth' = Depth - 1
      /\ \A j \in 1 .. Depth - 1 : stack'[j] = stack[j]
  BY LeaveFrames, DepthType
<1>2. Committed' = IF Depth' = 0 THEN store' ELSE stack'[1].entry
  BY DEF TypeOK, Committed, Depth
<1>3. Committed = stack[1].entry
  BY <1>1, CommittedIs
<1> QED BY <1>1, <1>2, <1>3

-----------------------------------------------------------------------------
(* One lemma for each way a step treats the stack *)

LedgerInv == NestedInv /\ TransactionsOnlyAdd

\* What TransactionsOnlyAdd says of the frame f.
FrameAdds(s, f) ==
    /\ Extends(s, f.entry)
    /\ f.pc = "call" => Extends(s, f.before)
    /\ f.pc \in {"loop", "call"} =>
           \A i \in 1 .. Len(f.batch) : f.batch[i] \in SignedBy(s.MPCAddress)

KeyedAndSigned(s) ==
    /\ s.MPCAddress = Zero => s.paused
    /\ Delivered(s) \subseteq SignedBy(s.MPCAddress)

LEMMA OnlyAdd ==
    TransactionsOnlyAdd <=>
        /\ KeyedAndSigned(Committed)
        /\ Depth > 0 => Extends(Committed, store)
        /\ \A j \in 1 .. Depth : FrameAdds(Committed, stack[j])
BY DEF TransactionsOnlyAdd, KeyedAndSigned, FrameAdds

LEMMA EnterAdds ==
    ASSUME LedgerInv, TypeOK', NEW f, Enter(f), f.entry = store, store' = store,
           ~store.paused, f.pc # "call",
           f.pc = "loop" =>
               \A i \in 1 .. Len(f.batch) : f.batch[i] \in SignedBy(store.MPCAddress)
    PROVE  TransactionsOnlyAdd'
<1> USE DEF LedgerInv, NestedInv, TypeInv
<1>1. Committed' = Committed
  BY EnterCommits
<1>2. /\ Depth \in Nat
      /\ Depth' = Depth + 1
      /\ stack'[Depth + 1] = f
      /\ \A j \in 1 .. Depth : stack'[j] = stack[j]
  BY EnterFrames, DepthType
<1>3. Extends(Committed, store) /\ store.MPCAddress = Committed.MPCAddress
  <2>1. CASE Depth = 0
    BY <2>1, OnlyAdd, CommittedIs, ExtendsSelf DEF KeyedAndSigned
  <2>2. CASE Depth > 0
    BY <2>2, OnlyAdd DEF Extends
  <2> QED BY <1>2, <2>1, <2>2
<1>4. FrameAdds(Committed, f)
  BY <1>3 DEF FrameAdds
<1>5. \A j \in 1 .. Depth' : FrameAdds(Committed, stack'[j])
  BY <1>2, <1>4, OnlyAdd
<1>6. KeyedAndSigned(Committed)
  BY OnlyAdd
<1> QED BY <1>1, <1>3, <1>5, <1>6 DEF TransactionsOnlyAdd, KeyedAndSigned, FrameAdds

LEMMA ContinueAdds ==
    ASSUME LedgerInv, TypeOK', Depth > 0, NEW f, Continue(f), f.entry = Top.entry,
           Extends(Committed, store'),
           f.pc = "call" => Extends(Committed, f.before),
           f.pc \in {"loop", "call"} =>
               Top.pc \in {"loop", "call"} /\ f.batch = Top.batch
    PROVE  TransactionsOnlyAdd'
<1> USE DEF LedgerInv, NestedInv, TypeInv
<1>1. Committed' = Committed
  BY ContinueCommits
<1>2. /\ Depth \in Nat \ {0}
      /\ Depth' = Depth
      /\ stack'[Depth] = f
      /\ \A j \in 1 .. Depth - 1 : stack'[j] = stack[j]
  BY ContinueFrames, DepthType
<1>3. FrameAdds(Committed, Top)
  BY <1>2, OnlyAdd DEF Top
<1>4. FrameAdds(Committed, f)
  BY <1>3 DEF FrameAdds
<1>5. \A j \in 1 .. Depth' : FrameAdds(Committed, stack'[j])
  BY <1>2, <1>4, OnlyAdd
<1>6. KeyedAndSigned(Committed)
  BY OnlyAdd
<1> QED BY <1>1, <1>5, <1>6 DEF TransactionsOnlyAdd, KeyedAndSigned, FrameAdds

LEMMA LeaveAdds ==
    ASSUME LedgerInv, TypeOK', Depth > 0, Leave, Extends(Committed, store')
    PROVE  TransactionsOnlyAdd'
<1> USE DEF LedgerInv, NestedInv, TypeInv
<1>1. Committed' = IF Depth = 1 THEN store' ELSE Committed
  BY LeaveCommits
<1>2. /\ Depth \in Nat \ {0}
      /\ Depth' = Depth - 1
      /\ \A j \in 1 .. Depth - 1 : stack'[j] = stack[j]
  BY LeaveFrames, DepthType
<1>3. KeyedAndSigned(Committed) /\ \A j \in 1 .. Depth : FrameAdds(Committed, stack[j])
  BY OnlyAdd
<1>4. CASE Depth = 1
  <2>1. KeyedAndSigned(store')
    BY <1>3 DEF KeyedAndSigned, Extends
  <2> QED BY <1>1, <1>2, <1>4, <2>1 DEF TransactionsOnlyAdd, KeyedAndSigned
<1>5. CASE Depth # 1
  <2>1. Committed' = Committed
    BY <1>1, <1>5
  <2>2. \A j \in 1 .. Depth' : FrameAdds(Committed, stack'[j])
    BY <1>2, <1>3
  <2> QED BY <1>3, <2>1, <2>2 DEF TransactionsOnlyAdd, KeyedAndSigned, FrameAdds
<1> QED BY <1>4, <1>5

\* What is known of the innermost call.
LEMMA TopAdds ==
    ASSUME LedgerInv, Depth > 0
    PROVE  /\ Extends(Committed, store)
           /\ FrameAdds(Committed, Top)
<1>1. Depth \in 1 .. Depth
  BY DepthType DEF LedgerInv, NestedInv, TypeInv
<1> QED BY <1>1, OnlyAdd DEF LedgerInv, Top

-----------------------------------------------------------------------------
(* Every step keeps TransactionsOnlyAdd *)

LEMMA DepositStepAdds == LedgerInv /\ TypeOK' /\ DepositStep => TransactionsOnlyAdd'
<1> SUFFICES ASSUME LedgerInv, TypeOK', DepositStep
             PROVE  TransactionsOnlyAdd'
  OBVIOUS
<1>t. TypeOK
  BY DEF LedgerInv, NestedInv, TypeInv
<1>1. ASSUME NEW d \in Requests, Deposit(d.dest, d.resource, d.value)
      PROVE  TransactionsOnlyAdd'
  BY <1>1, EnterAdds DEF Deposit
<1>2. CASE FeeCollected
  <2>1. Depth > 0 /\ Top \in DepositFrame
    BY <1>2, <1>t, RunningKind DEF FeeCollected
  <2> QED BY <1>2, <2>1, TopAdds, ContinueAdds DEF FeeCollected, DepositFrame
<1>3. CASE AllocateNonce
  <2>1. Depth > 0 /\ Top \in DepositFrame
    BY <1>3, <1>t, RunningKind DEF AllocateNonce
  <2>2. /\ store'.MPCAddress = store.MPCAddress
        /\ store'.delivered = store.delivered
        /\ store'.announced = store.announced
    BY <1>3, <1>t DEF AllocateNonce, TypeOK, Store
  <2>3. Announced(store) \subseteq Announced(store')
    BY <2>2 DEF Announced
  <2>4. Extends(Committed, store')
    BY <2>1, <2>2, <2>3, TopAdds, ExtendsSame
  <2> QED BY <1>3, <2>1, <2>4, ContinueAdds DEF AllocateNonce, DepositFrame
<1>4. CASE DepositHandled
  <2>1. Depth > 0
    BY <1>4 DEF DepositHandled, Running
  <2>2. Extends(Committed, store')
    BY <1>4, <1>t, <2>1, TopAdds, AnnouncedGrows, ExtendsSame DEF DepositHandled, TypeOK
  <2> QED BY <1>4, <2>1, <2>2, LeaveAdds DEF DepositHandled
<1> QED BY <1>1, <1>2, <1>3, <1>4 DEF DepositStep

LEMMA ExecuteStepAdds == LedgerInv /\ TypeOK' /\ ExecuteStep => TransactionsOnlyAdd'
<1> SUFFICES ASSUME LedgerInv, TypeOK', ExecuteStep
             PROVE  TransactionsOnlyAdd'
  OBVIOUS
<1>t. TypeOK /\ CallsInRange
  BY DEF LedgerInv, NestedInv, TypeInv
<1>1. ASSUME NEW a \in Accounts, NEW batch \in Signed[a], ExecuteProposals(batch, a)
      PROVE  TransactionsOnlyAdd'
  <2>1. a = store.MPCAddress
    BY <1>1 DEF ExecuteProposals, Verify
  <2>2. \A i \in 1 .. Len(batch) : batch[i] \in SignedBy(store.MPCAddress)
    BY <2>1 DEF SignedBy
  <2> DEFINE f == [pc |-> "loop", batch |-> batch, i |-> 1,
                   entry |-> store, before |-> store]
  <2>3. /\ Enter(f)
        /\ store' = store
        /\ ~store.paused
    BY <1>1 DEF ExecuteProposals
  <2>4. f.entry = store /\ f.pc = "loop" /\ f.batch = batch
    OBVIOUS
  <2> HIDE DEF f
  <2> QED BY <2>2, <2>3, <2>4, EnterAdds
<1>2. CASE SkipExecuted
  <2>1. Depth > 0 /\ Top.pc = "loop" /\ Top \in ExecuteFrame
    BY <1>2, <1>t, RunningKind DEF SkipExecuted, InBatch
  <2> QED BY <1>2, <2>1, TopAdds, ContinueAdds DEF SkipExecuted, ExecuteFrame
<1>3. CASE CallHandler
  <2>1. Depth > 0 /\ Top.pc = "loop" /\ Top \in ExecuteFrame
    BY <1>3, <1>t, RunningKind DEF CallHandler, InBatch
  <2>2. Current \in Proposals /\ store \in Store
    BY <1>3, <1>t, <2>1, CurrentType DEF CallHandler, InBatch, TypeOK
  <2>3. Extends(Committed, store')
    BY <1>3, <2>1, <2>2, TopAdds, ExtendsCall DEF CallHandler
  <2> DEFINE f == [Top EXCEPT !.pc = "call", !.before = store']
  <2>4. f.entry = Top.entry /\ f.before = store' /\ f.batch = Top.batch
    BY <2>1 DEF ExecuteFrame
  <2>5. Continue(f)
    BY <1>3 DEF CallHandler
  <2> HIDE DEF f
  <2> QED BY <2>1, <2>3, <2>4, <2>5, ContinueAdds
<1>4. CASE HandlerSucceeds \/ HandlerReverts
  <2>1. Depth > 0 /\ Top.pc = "call" /\ Top \in ExecuteFrame
    BY <1>4, <1>t, RunningKind DEF HandlerSucceeds, HandlerReverts
  <2>2. /\ Top.i \in 1 .. Len(Top.batch)
        /\ Current \in Proposals
        /\ store \in Store
        /\ Top.before \in Store
    BY <1>t, <2>1, CurrentType, DepthType DEF CallsInRange, Top, TypeOK, ExecuteFrame
  <2>3. Current \in SignedBy(Committed.MPCAddress)
    BY <2>1, <2>2, TopAdds DEF FrameAdds, Current
  <2>4. Extends(Committed, store')
    <3>1. CASE HandlerSucceeds
      BY <2>1, <2>2, <2>3, <3>1, TopAdds, ExtendsSuccess DEF HandlerSucceeds
    <3>2. CASE HandlerReverts
      BY <2>1, <2>2, <3>2, TopAdds, ExtendsCall DEF HandlerReverts, FrameAdds
    <3> QED BY <1>4, <3>1, <3>2
  <2> DEFINE f == [Top EXCEPT !.pc = "loop", !.i = @ + 1]
  <2>5. f.entry = Top.entry /\ f.pc # "call" /\ f.batch = Top.batch
    BY <2>1 DEF ExecuteFrame
  <2>6. Continue(f)
    BY <1>4 DEF HandlerSucceeds, HandlerReverts
  <2> HIDE DEF f
  <2> QED BY <2>1, <2>4, <2>5, <2>6, ContinueAdds
<1>5. CASE ReturnFromExecute
  BY <1>5, <1>t, RunningKind, TopAdds, LeaveAdds DEF ReturnFromExecute
<1> QED BY <1>1, <1>2, <1>3, <1>4, <1>5 DEF ExecuteStep

\* Inside a transaction, which an unpaused bridge with a key began, the admin
\* functions leave key, deliveries and announcements alone.
LEMMA AdminStepAdds == LedgerInv /\ TypeOK' /\ AdminStep => TransactionsOnlyAdd'
<1> SUFFICES ASSUME LedgerInv, TypeOK', AdminStep
             PROVE  TransactionsOnlyAdd'
  OBVIOUS
<1>t. TypeOK
  BY DEF LedgerInv, NestedInv, TypeInv
<1>1. stack' = stack /\ Depth' = Depth
  BY DEF AdminStep, AdminPauseTransfers, AdminUnpauseTransfers, AdminSetResource,
         AdminSetDepositNonce, AdminChangeFeeHandler, EndKeygen, Depth
<1>2. /\ store'.delivered = store.delivered
      /\ store'.announced = store.announced
      /\ store.MPCAddress # Zero => store'.MPCAddress = store.MPCAddress
      /\ store'.MPCAddress = Zero => store.MPCAddress = Zero
      /\ store'.MPCAddress = Zero /\ store.paused => store'.paused
  BY <1>t DEF TypeOK, Store, AdminStep, AdminPauseTransfers, AdminUnpauseTransfers,
         AdminSetResource, AdminSetDepositNonce, AdminChangeFeeHandler, EndKeygen
<1>3. Announced(store') = Announced(store) /\ Delivered(store') = Delivered(store)
  BY <1>2 DEF Announced, Delivered
<1>4. CASE Depth = 0
  <2>1. Committed = store /\ Committed' = store'
    BY <1>1, <1>4, <1>t, CommittedIs DEF TypeOK, Committed, Depth
  <2>2. SignedBy(Zero) = {}
    BY AddressAssumption DEF SignedBy
  <2>3. KeyedAndSigned(store)
    BY <2>1, OnlyAdd DEF LedgerInv
  <2>4. KeyedAndSigned(store')
    BY <1>2, <1>3, <2>2, <2>3 DEF KeyedAndSigned
  <2> QED BY <1>1, <1>4, <2>1, <2>4 DEF TransactionsOnlyAdd, KeyedAndSigned
<1>5. CASE Depth > 0
  <2>1. Extends(Committed, store)
    BY <1>5, TopAdds
  <2>2. Extends(Committed, store')
    BY <1>2, <1>3, <2>1, ExtendsSame DEF Extends
  <2>3. Committed' = Committed
    BY <1>1, <1>5 DEF Committed, Depth
  <2>4. KeyedAndSigned(Committed) /\ \A j \in 1 .. Depth : FrameAdds(Committed, stack[j])
    BY OnlyAdd DEF LedgerInv
  <2> QED BY <1>1, <2>2, <2>3, <2>4 DEF TransactionsOnlyAdd, KeyedAndSigned, FrameAdds
<1> QED BY <1>t, <1>4, <1>5, DepthType

LEMMA RevertAdds == LedgerInv /\ TypeOK' /\ Revert => TransactionsOnlyAdd'
BY TopAdds, LeaveAdds DEF Revert, FrameAdds

LEMMA LedgerInit == Init => LedgerInv
<1> SUFFICES ASSUME Init
             PROVE  LedgerInv
  OBVIOUS
<1>1. NestedInv
  BY NestedInit
<1>2. Committed = store /\ Depth = 0
  BY DEF Init, Committed, Depth
<1>3. Delivered(store) = {}
  BY DEF Init, Delivered
<1>4. store.paused
  BY DEF Init
<1> QED BY <1>1, <1>2, <1>3, <1>4 DEF LedgerInv, TransactionsOnlyAdd

LEMMA LedgerStep == LedgerInv /\ [Next]_vars => LedgerInv'
<1> SUFFICES ASSUME LedgerInv, [Next]_vars
             PROVE  LedgerInv'
  OBVIOUS
<1>1. NestedInv'
  BY NestedStep DEF LedgerInv
<1>2. TransactionsOnlyAdd'
  <2>1. CASE UNCHANGED vars
    BY <2>1 DEF vars, LedgerInv, TransactionsOnlyAdd, Committed, Depth
  <2>2. TypeOK'
    BY <1>1 DEF NestedInv, TypeInv
  <2> QED BY <2>1, <2>2, DepositStepAdds, ExecuteStepAdds, AdminStepAdds, RevertAdds
          DEF Next
<1> QED BY <1>1, <1>2 DEF LedgerInv

-----------------------------------------------------------------------------
(* Every step of Bridge is a step of the ledger, or none *)

LEMMA StepCommits ==
    ASSUME LedgerInv, LedgerInv', [Next]_vars
    PROVE  \/ Committed' = Committed
           \/ /\ Extends(Committed, Committed')
              /\ AtMostOnce'
              /\ Committed' = store'
           \/ Depth = 0 /\ AdminStep
<1>t. TypeOK /\ TypeOK'
  BY DEF LedgerInv, NestedInv, TypeInv
<1>1. ASSUME Depth > 0, Leave, Extends(Committed, store')
      PROVE  \/ Committed' = Committed
             \/ /\ Extends(Committed, Committed')
                /\ AtMostOnce'
                /\ Committed' = store'
  <2>1. AtMostOnce'
    BY DEF LedgerInv, NestedInv, NestedCallsConsistent, Consistent, AtMostOnce
  <2> QED BY <1>1, <1>t, <2>1, LeaveCommits
<1>2. CASE DepositStep
  <2>1. ASSUME NEW d \in Requests, Deposit(d.dest, d.resource, d.value)
        PROVE  Committed' = Committed
    BY <1>t, <2>1, EnterCommits DEF Deposit
  <2>2. CASE FeeCollected
    BY <1>t, <2>2, RunningKind, ContinueCommits DEF FeeCollected, DepositFrame
  <2>3. CASE AllocateNonce
    BY <1>t, <2>3, RunningKind, ContinueCommits DEF AllocateNonce, DepositFrame
  <2>4. CASE DepositHandled
    <3>1. Depth > 0
      BY <2>4 DEF DepositHandled, Running
    <3>2. Extends(Committed, store')
      BY <1>t, <2>4, <3>1, TopAdds, AnnouncedGrows, ExtendsSame DEF DepositHandled, TypeOK
    <3> QED BY <1>1, <2>4, <3>1, <3>2 DEF DepositHandled
  <2> QED BY <1>2, <2>1, <2>2, <2>3, <2>4 DEF DepositStep
<1>3. CASE ExecuteStep
  <2>1. ASSUME NEW a, NEW batch, ExecuteProposals(batch, a)
        PROVE  Committed' = Committed
    BY <1>t, <2>1, EnterCommits DEF ExecuteProposals
  <2>2. CASE SkipExecuted
    BY <1>t, <2>2, RunningKind, ContinueCommits DEF SkipExecuted, InBatch, ExecuteFrame
  <2>3. CASE CallHandler
    <3>1. Depth > 0 /\ Top \in ExecuteFrame
      BY <1>t, <2>3, RunningKind DEF CallHandler, InBatch
    <3> DEFINE f == [Top EXCEPT !.pc = "call", !.before = store']
    <3>2. f.entry = Top.entry
      BY <3>1 DEF ExecuteFrame
    <3>3. Continue(f)
      BY <2>3 DEF CallHandler
    <3> HIDE DEF f
    <3> QED BY <1>t, <3>1, <3>2, <3>3, ContinueCommits
  <2>4. CASE HandlerSucceeds \/ HandlerReverts
    BY <1>t, <2>4, RunningKind, ContinueCommits
    DEF HandlerSucceeds, HandlerReverts, ExecuteFrame
  <2>5. CASE ReturnFromExecute
    BY <1>1, <1>t, <2>5, RunningKind, TopAdds DEF ReturnFromExecute
  <2> QED BY <1>3, <2>1, <2>2, <2>3, <2>4, <2>5 DEF ExecuteStep
<1>4. CASE AdminStep
  <2>1. stack' = stack
    BY <1>4 DEF AdminStep, AdminPauseTransfers, AdminUnpauseTransfers, AdminSetResource,
           AdminSetDepositNonce, AdminChangeFeeHandler, EndKeygen
  <2>2. CASE Depth # 0
    BY <2>1, <2>2 DEF Committed, Depth
  <2> QED BY <1>4, <2>2
<1>5. CASE Revert
  BY <1>1, <1>5, TopAdds DEF Revert, FrameAdds
<1>6. CASE UNCHANGED vars
  BY <1>6 DEF vars, Committed
<1> QED BY <1>2, <1>3, <1>4, <1>5, <1>6 DEF Next

LEMMA InitRefines == Init => Ledger!Init
<1> SUFFICES ASSUME Init
             PROVE  Ledger!Init
  OBVIOUS
<1>1. Committed = store
  BY DEF Init, Committed
<1>2. Delivered(store) = {} /\ Announced(store) = {}
  BY DEF Init, Delivered, Announced
<1> QED BY <1>1, <1>2 DEF Init, Ledger!Init

LEMMA AdminRefines ==
    ASSUME LedgerInv, LedgerInv', Depth = 0, AdminStep
    PROVE  [Ledger!Next]_(Ledger!ledger)
<1>t. TypeOK
  BY DEF LedgerInv, NestedInv, TypeInv
<1>1. stack' = stack
  BY DEF AdminStep, AdminPauseTransfers, AdminUnpauseTransfers, AdminSetResource,
         AdminSetDepositNonce, AdminChangeFeeHandler, EndKeygen
<1>2. Committed = store /\ Committed' = store'
  BY <1>1, <1>t DEF TypeOK, Committed, Depth
<1>3. store'.delivered = store.delivered /\ store'.announced = store.announced
  BY <1>t DEF TypeOK, Store, AdminStep, AdminPauseTransfers, AdminUnpauseTransfers,
         AdminSetResource, AdminSetDepositNonce, AdminChangeFeeHandler, EndKeygen
<1>4. /\ Delivered(Committed)' = Delivered(Committed)
      /\ Announced(Committed)' = Announced(Committed)
  BY <1>2, <1>3 DEF Delivered, Announced
<1>5. CASE AdminPauseTransfers
  <2>1. ~store.paused /\ store'.paused /\ store'.MPCAddress = store.MPCAddress
    BY <1>5, <1>t DEF AdminPauseTransfers, TypeOK, Store
  <2> QED BY <1>2, <1>4, <2>1 DEF Ledger!Next, Ledger!Pause
<1>6. CASE AdminUnpauseTransfers
  <2>1. /\ store.paused
        /\ store.MPCAddress # Zero
        /\ store'.paused = FALSE
        /\ store'.MPCAddress = store.MPCAddress
    BY <1>6, <1>t DEF AdminUnpauseTransfers, TypeOK, Store
  <2> QED BY <1>2, <1>4, <2>1 DEF Ledger!Next, Ledger!Unpause
<1>7. ASSUME NEW a \in Accounts, EndKeygen(a)
      PROVE  Ledger!Next
  <2>1. /\ store.paused
        /\ store.MPCAddress = Zero
        /\ store'.paused = FALSE
        /\ store'.MPCAddress = a
    BY <1>7, <1>t DEF EndKeygen, TypeOK, Store
  <2> QED BY <1>2, <1>4, <2>1 DEF Ledger!Next, Ledger!SetKey
<1>8. ASSUME store'.MPCAddress = store.MPCAddress, store'.paused = store.paused
      PROVE  UNCHANGED Ledger!ledger
  BY <1>2, <1>4, <1>8 DEF Ledger!ledger
<1>9. ASSUME \/ \E h \in Handlers, r \in Resources : AdminSetResource(h, r)
             \/ \E d \in Destinations, n \in NonceJumps \cap DepositNonces :
                    AdminSetDepositNonce(d, n)
             \/ \E f \in FeeHandlers \cup {Zero} : AdminChangeFeeHandler(f)
      PROVE  UNCHANGED Ledger!ledger
  <2>1. store'.MPCAddress = store.MPCAddress /\ store'.paused = store.paused
    BY <1>9, <1>t DEF TypeOK, Store, AdminSetResource, AdminSetDepositNonce,
                  AdminChangeFeeHandler
  <2> QED BY <1>8, <2>1
<1> QED BY <1>5, <1>6, <1>7, <1>9 DEF AdminStep

LEMMA StepRefines ==
    ASSUME LedgerInv, LedgerInv', [Next]_vars
    PROVE  [Ledger!Next]_(Ledger!ledger)
<1>1. CASE Committed' = Committed
  BY <1>1 DEF Ledger!ledger
<1>2. CASE /\ Extends(Committed, Committed')
           /\ AtMostOnce'
           /\ Committed' = store'
  <2>1. Ledger!OnePerDeposit(Delivered(Committed)')
    BY <1>2 DEF Ledger!OnePerDeposit, AtMostOnce
  <2>2. Announced(Committed)' \subseteq Destinations \X DepositNonces
    BY DEF Announced
  <2>3. Committed'.paused \in BOOLEAN
    BY <1>2 DEF LedgerInv, NestedInv, TypeInv, TypeOK, Store
  <2>4. Extends(Committed, Committed')
    BY <1>2
  <2>5. Ledger!Transaction
    BY <2>1, <2>2, <2>3, <2>4 DEF Ledger!Transaction, Extends
  <2> QED BY <2>5 DEF Ledger!Next
<1> QED BY <1>1, <1>2, StepCommits, AdminRefines

-----------------------------------------------------------------------------
\* However calls nest and revert, a transaction only adds signed deliveries and
\* announcements to what it found, and a bridge without a key is paused.
THEOREM OnlyAdditions == Spec => []TransactionsOnlyAdd
<1>1. LedgerInv => TransactionsOnlyAdd
  BY DEF LedgerInv
<1> QED BY <1>1, LedgerInit, LedgerStep, PTL DEF Spec

\* Only proposals out of batches that the MPC key signed are ever executed.
THEOREM OnlySignedDelivered == Spec => []DeliveredWasSigned
<1>1. LedgerInv => DeliveredWasSigned
  <2> SUFFICES ASSUME LedgerInv
               PROVE  DeliveredWasSigned
    OBVIOUS
  <2>1. KeyedAndSigned(Committed) /\ TypeOK
    BY OnlyAdd DEF LedgerInv, NestedInv, TypeInv
  <2>2. CASE Depth = 0
    BY <2>1, <2>2, CommittedIs DEF KeyedAndSigned, DeliveredWasSigned
  <2>3. CASE Depth > 0
    BY <2>1, <2>3, OnlyAdd DEF LedgerInv, KeyedAndSigned, Extends, DeliveredWasSigned
  <2> QED BY <2>1, <2>2, <2>3, DepthType
<1> QED BY <1>1, LedgerInit, LedgerStep, PTL DEF Spec

\* Bridge implements BridgeLedger: seen from outside, transactions are atomic
\* and the ledger of deliveries and announcements is append-only and signed.
THEOREM ImplementsLedger == Spec => RefinesLedger
<1>1. LedgerInv /\ LedgerInv' /\ [Next]_vars => [Ledger!Next]_(Ledger!ledger)
  BY StepRefines
<1> QED BY <1>1, InitRefines, LedgerInit, LedgerStep, PTL
        DEF Spec, RefinesLedger, Ledger!Spec

-----------------------------------------------------------------------------
(***************************************************************************)
(* The numbers a Bridge gives its own deposits: none is lost and none is   *)
(* announced twice, for every nesting of deposits, executions and reverts. *)
(***************************************************************************)

(* What the changes of a storage do to its account of the deposit numbers *)

LEMMA AccountsSame ==
    ASSUME NEW s, NEW t, NEW A, AccountsFor(s, A),
           t.depositCounts = s.depositCounts, t.announced = s.announced,
           t.skipped = s.skipped
    PROVE  AccountsFor(t, A)
BY DEF AccountsFor

LEMMA AccountsNext ==
    ASSUME NEW s \in Store, NEW A, AccountsFor(s, A), NEW d \in Destinations,
           s.depositCounts[d] < MaxDepositNonce
    PROVE  LET n == s.depositCounts[d] + 1
           IN  /\ n \in DepositNonces
               /\ <<d, n>> \notin A
               /\ AccountsFor([s EXCEPT !.depositCounts[d] = n], A \cup {<<d, n>>})
<1> DEFINE c == s.depositCounts
           n == c[d] + 1
           t == [s EXCEPT !.depositCounts[d] = n]
<1>1. c \in [Destinations -> 0 .. MaxDepositNonce] /\ c[d] \in Nat
  BY DomainAssumption DEF Store
<1>2. n \in DepositNonces /\ ~(n <= c[d])
  BY <1>1, DomainAssumption DEF DepositNonces
<1>3. <<d, n>> \notin A
  BY <1>2 DEF AccountsFor
<1>4. /\ t.announced = s.announced
      /\ t.skipped = s.skipped
      /\ t.depositCounts = [c EXCEPT ![d] = n]
  BY DEF Store
<1>5. ASSUME NEW e \in Destinations, NEW m \in DepositNonces
      PROVE  m <= t.depositCounts[e] <=> m <= c[e] \/ <<e, m>> = <<d, n>>
  <2>1. m \in Nat /\ c[e] \in Nat
    BY <1>1, DomainAssumption DEF DepositNonces
  <2>2. CASE e = d
    <3>1. t.depositCounts[e] = n
      BY <1>1, <1>4, <2>2
    <3>2. m <= n <=> m <= c[e] \/ m = n
      BY <1>1, <2>1, <2>2
    <3> QED BY <2>2, <3>1, <3>2
  <2>3. CASE e # d
    <3>1. t.depositCounts[e] = c[e]
      BY <1>1, <1>4, <2>3
    <3> QED BY <2>3, <3>1
  <2> QED BY <2>2, <2>3
<1>6. s.announced[d][n] <= 1 /\ ~(s.announced[d][n] > 0) /\ n \notin s.skipped[d]
  BY <1>2 DEF AccountsFor
<1> HIDE DEF t
<1>7. AccountsFor(t, A \cup {<<d, n>>})
  BY <1>3, <1>4, <1>5, <1>6 DEF AccountsFor
<1> QED BY <1>2, <1>3, <1>7 DEF t

LEMMA AccountsAnnounce ==
    ASSUME NEW s \in Store, NEW A, NEW d \in Destinations, NEW n \in DepositNonces,
           <<d, n>> \notin A, AccountsFor(s, A \cup {<<d, n>>})
    PROVE  AccountsFor([s EXCEPT !.announced[d][n] = @ + 1], A)
<1> DEFINE a == s.announced
           t == [s EXCEPT !.announced[d][n] = @ + 1]
           b == t.announced
<1>1. a \in [Destinations -> [DepositNonces -> Nat]]
  BY DEF Store
<1>2. /\ b = [a EXCEPT ![d][n] = a[d][n] + 1]
      /\ t.depositCounts = s.depositCounts
      /\ t.skipped = s.skipped
  BY DEF Store
<1>3. /\ ~(a[d][n] > 0)
      /\ n \notin s.skipped[d]
      /\ n <= s.depositCounts[d]
  BY DEF AccountsFor
<1>4. b[d][n] = 1
  <2>1. a[d] \in [DepositNonces -> Nat]
    BY <1>1
  <2>2. a[d][n] = 0
    BY <1>3, <2>1
  <2> QED BY <1>1, <1>2, <2>1, <2>2
<1>5. ASSUME NEW e \in Destinations, NEW m \in DepositNonces, <<e, m>> # <<d, n>>
      PROVE  b[e][m] = a[e][m]
  BY <1>1, <1>2, <1>5
<1> HIDE DEF t, a, b
<1>6. ASSUME NEW e \in Destinations, NEW m \in DepositNonces
      PROVE  /\ b[e][m] <= 1
             /\ m <= s.depositCounts[e] <=>
                    b[e][m] > 0 \/ <<e, m>> \in A \/ m \in s.skipped[e]
             /\ ~(b[e][m] > 0 /\ <<e, m>> \in A)
             /\ ~(m \in s.skipped[e] /\ (b[e][m] > 0 \/ <<e, m>> \in A))
  <2>1. CASE <<e, m>> = <<d, n>>
    <3>1. e = d /\ m = n /\ b[e][m] = 1
      BY <1>4, <2>1
    <3> QED BY <1>3, <2>1, <3>1
  <2>2. CASE <<e, m>> # <<d, n>>
    <3>1. b[e][m] = a[e][m]
      BY <1>5, <2>2
    <3> QED BY <2>2, <3>1 DEF AccountsFor, a
  <2> QED BY <2>1, <2>2
<1>7. AccountsFor(t, A)
  BY <1>2, <1>6 DEF AccountsFor, b
<1> QED BY <1>7 DEF t

LEMMA AccountsSkip ==
    ASSUME NEW s \in Store, NEW A, AccountsFor(s, A), NEW d \in Destinations,
           NEW n \in DepositNonces, n > s.depositCounts[d]
    PROVE  AccountsFor([s EXCEPT
               !.depositCounts[d] = n,
               !.skipped[d] = @ \cup (s.depositCounts[d] + 1) .. n], A)
<1> DEFINE c == s.depositCounts
           k == s.skipped
           t == [s EXCEPT !.depositCounts[d] = n,
                          !.skipped[d] = @ \cup (s.depositCounts[d] + 1) .. n]
<1>1. /\ c \in [Destinations -> 0 .. MaxDepositNonce]
      /\ k \in [Destinations -> SUBSET DepositNonces]
      /\ DepositNonces \subseteq Nat
  BY DomainAssumption DEF Store, DepositNonces
<1>2. /\ t.depositCounts = [c EXCEPT ![d] = n]
      /\ t.skipped = [k EXCEPT ![d] = k[d] \cup (c[d] + 1) .. n]
      /\ t.announced = s.announced
  BY DEF Store
<1>3. ASSUME NEW e \in Destinations, NEW m \in DepositNonces
      PROVE  /\ m <= t.depositCounts[e] <=> m <= c[e] \/ (e = d /\ m \in (c[d] + 1) .. n)
             /\ m \in t.skipped[e] <=> m \in k[e] \/ (e = d /\ m \in (c[d] + 1) .. n)
             /\ ~(m <= c[e] /\ e = d /\ m \in (c[d] + 1) .. n)
  <2>1. c[e] \in Nat /\ c[d] \in Nat /\ m \in Nat /\ n \in Nat /\ c[d] < n
    BY <1>1, DomainAssumption
  <2>2. CASE e = d
    <3>1. t.depositCounts[e] = n /\ t.skipped[e] = k[d] \cup (c[d] + 1) .. n
      BY <1>1, <1>2, <2>2
    <3>2. m <= n <=> m <= c[d] \/ m \in (c[d] + 1) .. n
      BY <2>1
    <3> QED BY <2>1, <2>2, <3>1, <3>2
  <2>3. CASE e # d
    <3>1. t.depositCounts[e] = c[e] /\ t.skipped[e] = k[e]
      BY <1>1, <1>2, <2>3
    <3> QED BY <2>3, <3>1
  <2> QED BY <2>2, <2>3
<1> HIDE DEF t
<1>4. AccountsFor(t, A)
  BY <1>2, <1>3 DEF AccountsFor
<1> QED BY <1>4 DEF t

-----------------------------------------------------------------------------
(* Pending numbers depend on the frames below only *)

LEMMA NoncesSame ==
    ASSUME NEW a, NEW b, NEW m \in Nat, \A j \in 1 .. m : a[j] = b[j]
    PROVE  PendingNonces(a, m) = PendingNonces(b, m)
BY DEF PendingNonces

LEMMA NoncesSplit ==
    ASSUME NEW a, NEW m \in Nat \ {0}
    PROVE  /\ a[m].pc # "handler" => PendingNonces(a, m) = PendingNonces(a, m - 1)
           /\ a[m].pc = "handler" =>
                  PendingNonces(a, m) =
                      PendingNonces(a, m - 1) \cup {<<a[m].dest, a[m].nonce>>}
<1> DEFINE C(n) == {k \in 1 .. n : a[k].pc = "handler"}
<1>1. CASE a[m].pc # "handler"
  <2>1. C(m) = C(m - 1)
    BY <1>1
  <2> QED BY <1>1, <2>1 DEF PendingNonces
<1>2. CASE a[m].pc = "handler"
  <2>1. C(m) = C(m - 1) \cup {m}
    BY <1>2
  <2> QED BY <1>2, <2>1 DEF PendingNonces
<1> QED BY <1>1, <1>2

\* What DepositNoncesAccounted says of the j-th call.
FrameAccounts(calls, j) ==
    /\ AccountsFor(calls[j].entry, PendingNonces(calls, j - 1))
    /\ calls[j].pc = "call" => AccountsFor(calls[j].before, PendingNonces(calls, j))
    /\ calls[j].pc = "handler" =>
           /\ calls[j].nonce \in DepositNonces
           /\ <<calls[j].dest, calls[j].nonce>> \notin PendingNonces(calls, j - 1)

LEMMA Accounted ==
    DepositNoncesAccounted <=>
        /\ AccountsFor(store, PendingNonces(stack, Depth))
        /\ \A j \in 1 .. Depth : FrameAccounts(stack, j)
BY DEF DepositNoncesAccounted, FrameAccounts

LEMMA AccountsBelow ==
    ASSUME NEW a, NEW b, NEW m \in Nat, \A j \in 1 .. m : a[j] = b[j],
           \A j \in 1 .. m : FrameAccounts(a, j)
    PROVE  \A j \in 1 .. m : FrameAccounts(b, j)
<1> SUFFICES ASSUME NEW j \in 1 .. m
             PROVE  FrameAccounts(b, j)
  OBVIOUS
<1>1. j \in Nat /\ j - 1 \in Nat /\ a[j] = b[j]
  OBVIOUS
<1>2. PendingNonces(a, j) = PendingNonces(b, j)
  BY <1>1, NoncesSame
<1>3. PendingNonces(a, j - 1) = PendingNonces(b, j - 1)
  BY <1>1, NoncesSame
<1> QED BY <1>1, <1>2, <1>3 DEF FrameAccounts

-----------------------------------------------------------------------------
(* One lemma for each way a step treats the stack *)

DepositInv == TypeInv /\ DepositNoncesAccounted

LEMMA EnterAccounts ==
    ASSUME DepositInv, NEW f, Enter(f), f.entry = store,
           f.pc \notin {"call", "handler"}, store' = store
    PROVE  DepositNoncesAccounted'
<1> USE DEF DepositInv, TypeInv
<1>1. /\ Depth \in Nat
      /\ Depth' = Depth + 1
      /\ stack'[Depth + 1] = f
      /\ \A j \in 1 .. Depth : stack[j] = stack'[j]
  BY EnterFrames, DepthType
<1>2. \A j \in 1 .. Depth : FrameAccounts(stack', j)
  BY <1>1, Accounted, AccountsBelow
<1>3. PendingNonces(stack', Depth) = PendingNonces(stack, Depth)
  BY <1>1, NoncesSame
<1>4. PendingNonces(stack', Depth + 1) = PendingNonces(stack', Depth)
  BY <1>1, NoncesSplit
<1>5. FrameAccounts(stack', Depth + 1)
  BY <1>1, <1>3, Accounted DEF FrameAccounts
<1>6. AccountsFor(store, PendingNonces(stack', Depth + 1))
  BY <1>3, <1>4, Accounted
<1> QED BY <1>1, <1>2, <1>5, <1>6 DEF DepositNoncesAccounted, FrameAccounts

LEMMA LeaveAccounts ==
    ASSUME DepositInv, Depth > 0, Leave,
           AccountsFor(store', PendingNonces(stack, Depth - 1))
    PROVE  DepositNoncesAccounted'
<1> USE DEF DepositInv, TypeInv
<1>1. /\ Depth \in Nat
      /\ Depth' = Depth - 1
      /\ \A j \in 1 .. Depth - 1 : stack[j] = stack'[j]
  BY LeaveFrames, DepthType
<1>2. \A j \in 1 .. Depth - 1 : FrameAccounts(stack', j)
  BY <1>1, Accounted, AccountsBelow
<1>3. PendingNonces(stack', Depth - 1) = PendingNonces(stack, Depth - 1)
  BY <1>1, NoncesSame
<1> QED BY <1>1, <1>2, <1>3 DEF DepositNoncesAccounted, FrameAccounts

\* What is known of the innermost call.
LEMMA TopAccounts ==
    ASSUME DepositInv, Depth > 0
    PROVE  /\ AccountsFor(Top.entry, PendingNonces(stack, Depth - 1))
           /\ Top.pc # "handler" => AccountsFor(store, PendingNonces(stack, Depth - 1))
           /\ Top.pc = "call" => AccountsFor(Top.before, PendingNonces(stack, Depth - 1))
           /\ Top.pc = "handler" =>
                  /\ Top.nonce \in DepositNonces
                  /\ <<Top.dest, Top.nonce>> \notin PendingNonces(stack, Depth - 1)
                  /\ AccountsFor(store, PendingNonces(stack, Depth - 1)
                                            \cup {<<Top.dest, Top.nonce>>})
<1>1. Depth \in Nat \ {0} /\ Depth \in 1 .. Depth
  BY DepthType DEF DepositInv, TypeInv
<1>2. FrameAccounts(stack, Depth) /\ AccountsFor(store, PendingNonces(stack, Depth))
  BY <1>1, Accounted DEF DepositInv
<1> QED BY <1>1, <1>2, NoncesSplit DEF FrameAccounts, Top

LEMMA ContinueAccounts ==
    ASSUME DepositInv, Depth > 0, NEW f, Continue(f), f.entry = Top.entry,
           f.pc # "handler" => AccountsFor(store', PendingNonces(stack, Depth - 1)),
           f.pc = "call" => f.before = store',
           f.pc = "handler" =>
               /\ f.nonce \in DepositNonces
               /\ <<f.dest, f.nonce>> \notin PendingNonces(stack, Depth - 1)
               /\ AccountsFor(store', PendingNonces(stack, Depth - 1)
                                          \cup {<<f.dest, f.nonce>>})
    PROVE  DepositNoncesAccounted'
<1> USE DEF DepositInv, TypeInv
<1>1. /\ Depth \in Nat \ {0}
      /\ Depth' = Depth
      /\ stack'[Depth] = f
      /\ \A j \in 1 .. Depth - 1 : stack[j] = stack'[j]
  BY ContinueFrames, DepthType
<1>2. \A j \in 1 .. Depth - 1 : FrameAccounts(stack', j)
  BY <1>1, Accounted, AccountsBelow
<1>3. PendingNonces(stack', Depth - 1) = PendingNonces(stack, Depth - 1)
  BY <1>1, NoncesSame
<1>4. AccountsFor(f.entry, PendingNonces(stack, Depth - 1))
  BY TopAccounts
<1>5. AccountsFor(store', PendingNonces(stack', Depth))
  BY <1>1, <1>3, NoncesSplit
<1>6. FrameAccounts(stack', Depth)
  BY <1>1, <1>3, <1>4, <1>5 DEF FrameAccounts
<1> QED BY <1>1, <1>2, <1>5, <1>6 DEF DepositNoncesAccounted, FrameAccounts

-----------------------------------------------------------------------------
(* Every step keeps DepositNoncesAccounted *)

LEMMA DepositStepAccounts == DepositInv /\ DepositStep => DepositNoncesAccounted'
<1> SUFFICES ASSUME DepositInv, DepositStep
             PROVE  DepositNoncesAccounted'
  OBVIOUS
<1>t. TypeOK
  BY DEF DepositInv, TypeInv
<1> DEFINE A == PendingNonces(stack, Depth - 1)
<1>1. ASSUME NEW d \in Requests, Deposit(d.dest, d.resource, d.value)
      PROVE  DepositNoncesAccounted'
  BY <1>1, EnterAccounts DEF Deposit
<1>2. CASE FeeCollected
  <2>1. Depth > 0 /\ Top.pc = "fee" /\ Top \in DepositFrame
    BY <1>2, <1>t, RunningKind DEF FeeCollected
  <2> QED BY <1>2, <2>1, TopAccounts, ContinueAccounts DEF FeeCollected, DepositFrame
<1>3. CASE AllocateNonce
  <2>1. Depth > 0 /\ Top.pc = "allocate" /\ Top \in DepositFrame
    BY <1>3, <1>t, RunningKind DEF AllocateNonce
  <2> DEFINE d == Top.dest
             n == store.depositCounts[d] + 1
             f == [Top EXCEPT !.pc = "handler", !.nonce = n]
  <2>2. d \in Destinations /\ store \in Store /\ store.depositCounts[d] < MaxDepositNonce
    BY <1>3, <1>t, <2>1 DEF AllocateNonce, DepositFrame, TypeOK
  <2>3. store' = [store EXCEPT !.depositCounts[d] = n]
    BY <1>3 DEF AllocateNonce
  <2>4. AccountsFor(store, A)
    BY <2>1, TopAccounts
  <2> HIDE DEF A
  <2>5. n \in DepositNonces /\ <<d, n>> \notin A /\ AccountsFor(store', A \cup {<<d, n>>})
    BY <2>2, <2>3, <2>4, AccountsNext
  <2>6. f.pc = "handler" /\ f.dest = d /\ f.nonce = n /\ f.entry = Top.entry
    BY <2>1 DEF DepositFrame
  <2>7. Continue(f)
    BY <1>3 DEF AllocateNonce
  <2> HIDE DEF d, n, f
  <2> QED BY <2>1, <2>5, <2>6, <2>7, ContinueAccounts DEF A
<1>4. CASE DepositHandled
  <2>1. Depth > 0 /\ Top.pc = "handler" /\ Top \in DepositFrame
    BY <1>4, <1>t, RunningKind DEF DepositHandled
  <2>2. /\ Top.dest \in Destinations
        /\ Top.nonce \in DepositNonces
        /\ <<Top.dest, Top.nonce>> \notin A
        /\ AccountsFor(store, A \cup {<<Top.dest, Top.nonce>>})
    BY <2>1, TopAccounts DEF DepositFrame
  <2> HIDE DEF A
  <2>3. AccountsFor(store', A)
    BY <1>4, <1>t, <2>2, AccountsAnnounce DEF DepositHandled, TypeOK
  <2> QED BY <1>4, <2>1, <2>3, LeaveAccounts DEF DepositHandled, A
<1> QED BY <1>1, <1>2, <1>3, <1>4 DEF DepositStep

LEMMA HandlerChanges ==
    ASSUME NEW s \in Store, NEW p
    PROVE  \A t \in {BeforeCall(s, p), AfterSuccess(s, p), AfterFailure(s, p)} :
               /\ t.depositCounts = s.depositCounts
               /\ t.announced = s.announced
               /\ t.skipped = s.skipped
BY DEF Store, BeforeCall, Marked, AfterSuccess, AfterFailure

LEMMA ExecuteStepAccounts == DepositInv /\ ExecuteStep => DepositNoncesAccounted'
<1> SUFFICES ASSUME DepositInv, ExecuteStep
             PROVE  DepositNoncesAccounted'
  OBVIOUS
<1>t. TypeOK
  BY DEF DepositInv, TypeInv
<1>1. ASSUME NEW batch, NEW a, ExecuteProposals(batch, a)
      PROVE  DepositNoncesAccounted'
  BY <1>1, EnterAccounts DEF ExecuteProposals
<1>2. CASE SkipExecuted
  <2>1. Depth > 0 /\ Top.pc = "loop" /\ Top \in ExecuteFrame
    BY <1>2, <1>t, RunningKind DEF SkipExecuted, InBatch
  <2> QED BY <1>2, <2>1, TopAccounts, ContinueAccounts DEF SkipExecuted, ExecuteFrame
<1>3. CASE CallHandler
  <2>1. Depth > 0 /\ Top.pc = "loop" /\ Top \in ExecuteFrame /\ store \in Store
    BY <1>3, <1>t, RunningKind DEF CallHandler, InBatch, TypeOK
  <2>2. AccountsFor(store', PendingNonces(stack, Depth - 1))
    BY <1>3, <2>1, TopAccounts, HandlerChanges, AccountsSame DEF CallHandler
  <2> DEFINE f == [Top EXCEPT !.pc = "call", !.before = store']
  <2>3. f.entry = Top.entry /\ f.pc = "call" /\ f.before = store'
    BY <2>1 DEF ExecuteFrame
  <2>4. Continue(f)
    BY <1>3 DEF CallHandler
  <2> HIDE DEF f
  <2> QED BY <2>1, <2>2, <2>3, <2>4, ContinueAccounts
<1>4. CASE HandlerSucceeds \/ HandlerReverts
  <2>1. /\ Depth > 0 /\ Top.pc = "call" /\ Top \in ExecuteFrame
        /\ store \in Store /\ Top.before \in Store
    BY <1>4, <1>t, RunningKind DEF HandlerSucceeds, HandlerReverts, TypeOK, ExecuteFrame
  <2>2. AccountsFor(store', PendingNonces(stack, Depth - 1))
    BY <1>4, <2>1, TopAccounts, HandlerChanges, AccountsSame
    DEF HandlerSucceeds, HandlerReverts
  <2> DEFINE f == [Top EXCEPT !.pc = "loop", !.i = @ + 1]
  <2>3. f.entry = Top.entry /\ f.pc = "loop"
    BY <2>1 DEF ExecuteFrame
  <2>4. Continue(f)
    BY <1>4 DEF HandlerSucceeds, HandlerReverts
  <2> HIDE DEF f
  <2> QED BY <2>1, <2>2, <2>3, <2>4, ContinueAccounts
<1>5. CASE ReturnFromExecute
  BY <1>5, <1>t, RunningKind, TopAccounts, LeaveAccounts DEF ReturnFromExecute
<1> QED BY <1>1, <1>2, <1>3, <1>4, <1>5 DEF ExecuteStep

LEMMA AdminStepAccounts == DepositInv /\ AdminStep => DepositNoncesAccounted'
<1> SUFFICES ASSUME DepositInv, AdminStep
             PROVE  DepositNoncesAccounted'
  OBVIOUS
<1>t. TypeOK
  BY DEF DepositInv, TypeInv
<1> DEFINE A == PendingNonces(stack, Depth)
<1>1. stack' = stack
  BY DEF AdminStep, AdminPauseTransfers, AdminUnpauseTransfers, AdminSetResource,
         AdminSetDepositNonce, AdminChangeFeeHandler, EndKeygen
<1>2. AccountsFor(store, A)
  BY DEF DepositInv, DepositNoncesAccounted
<1>3. AccountsFor(store', A)
  <2> HIDE DEF A
  <2>1. ASSUME NEW d \in Destinations, NEW n \in NonceJumps \cap DepositNonces,
               AdminSetDepositNonce(d, n)
        PROVE  AccountsFor(store', A)
    BY <1>2, <1>t, <2>1, AccountsSkip DEF AdminSetDepositNonce, TypeOK
  <2>2. ASSUME store'.depositCounts = store.depositCounts,
               store'.announced = store.announced, store'.skipped = store.skipped
        PROVE  AccountsFor(store', A)
    BY <1>2, <2>2, AccountsSame
  <2>3. CASE \/ AdminPauseTransfers
             \/ AdminUnpauseTransfers
             \/ \E h \in Handlers, r \in Resources : AdminSetResource(h, r)
             \/ \E f \in FeeHandlers \cup {Zero} : AdminChangeFeeHandler(f)
             \/ \E a \in Accounts : EndKeygen(a)
    <3>1. /\ store'.depositCounts = store.depositCounts
          /\ store'.announced = store.announced
          /\ store'.skipped = store.skipped
      BY <1>t, <2>3 DEF TypeOK, Store, AdminPauseTransfers, AdminUnpauseTransfers,
                        AdminSetResource, AdminChangeFeeHandler, EndKeygen
    <3> QED BY <2>2, <3>1
  <2> QED BY <2>1, <2>3 DEF AdminStep
<1> QED BY <1>1, <1>3 DEF DepositInv, DepositNoncesAccounted, Depth

LEMMA RevertAccounts == DepositInv /\ Revert => DepositNoncesAccounted'
BY TopAccounts, LeaveAccounts DEF Revert

LEMMA DepositInit == Init => DepositInv
<1> SUFFICES ASSUME Init
             PROVE  DepositInv
  OBVIOUS
<1>1. TypeInv
  BY NestedInit DEF NestedInv
<1>2. Depth = 0 /\ PendingNonces(stack, Depth) = {}
  BY DEF Init, Depth, PendingNonces
<1>3. AccountsFor(store, {})
  BY DomainAssumption DEF Init, AccountsFor, DepositNonces
<1> QED BY <1>1, <1>2, <1>3 DEF DepositInv, DepositNoncesAccounted

LEMMA DepositNext == DepositInv /\ [Next]_vars => DepositInv'
<1> SUFFICES ASSUME DepositInv, [Next]_vars
             PROVE  DepositInv'
  OBVIOUS
<1>1. TypeInv'
  BY TypeStep DEF DepositInv
<1>2. DepositNoncesAccounted'
  <2>1. CASE UNCHANGED vars
    BY <2>1 DEF vars, DepositInv, DepositNoncesAccounted, Depth
  <2> QED BY <2>1, DepositStepAccounts, ExecuteStepAccounts, AdminStepAccounts,
             RevertAccounts DEF Next
<1> QED BY <1>1, <1>2 DEF DepositInv

-----------------------------------------------------------------------------
\* Up to _depositCounts every number was announced once, is about to be, or was
\* skipped by the admin, however deposits nest in fee handlers and handlers and
\* whichever of them revert.
THEOREM NoncesAccounted == Spec => []DepositNoncesAccounted
<1>1. DepositInv => DepositNoncesAccounted
  BY DEF DepositInv
<1> QED BY <1>1, DepositInit, DepositNext, PTL DEF Spec
=============================================================================
