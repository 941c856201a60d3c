---------------------------- MODULE ReservoirProofs ----------------------------
(***************************************************************************)
(* Proofs about Reservoir, for every value of its constants: the pool does *)
(* not unbalance the contract's books, never spends what it does not have, *)
(* and honours the term of every loan.                                     *)
(***************************************************************************)
EXTENDS Reservoir, StackflowContractProofs

--------------------------------------------------------------------------------
(* The inductive invariant *)

PoolTypes ==
    /\ poolInitialized \in BOOLEAN
    /\ borrowRate \in Nat
    /\ borrowed \in [Principals -> Loan]
    /\ lent \in [Principals -> [0..Horizon -> Nat]]

\* A loan made in block h is covered by the borrower's entry to the end of its term,
\* also when the entry is of a later loan.
CoveredByEntry(p, h) ==
    /\ h <= height
    /\ borrowed[p].amount # 0
    /\ h + BORROW_TERM_BLOCKS <= borrowed[p].until

LoansCovered ==
    \A p \in Principals, h \in 0..Horizon : lent[p][h] # 0 => CoveredByEntry(p, h)

PoolInv == IInv /\ PoolTypes /\ LoansCovered

\* The parties of a tap.
LEMMA TapFacts ==
    ASSUME NEW k \in Taps
    PROVE  /\ k \in PipeKeys
           /\ RESERVOIR \in Parties(k) /\ RESERVOIR \in Principals
           /\ RESERVOIR \in ContractPrincipals /\ RESERVOIR # NoPrincipal
           /\ Holder(k) \in Principals /\ Holder(k) \in Parties(k)
  BY KeyAssumption, PrincipalAssumption, ReservoirAssumption DEF Taps, Holder, Other, Parties

--------------------------------------------------------------------------------
(* Each step *)

\* Calls of others are steps of the StackFlow contract.
LEMMA OutsideStep ==
    ASSUME OutsideCall
    PROVE  Next /\ UNCHANGED poolVars
  <1>1. CASE BurnBlock
    BY <1>1 DEF OutsideCall, Next
  <1>2. CASE \E token \in Tokens : InitContract(Deployer, token)
    BY <1>2, PrincipalAssumption DEF OutsideCall, Next, Admin
  <1>3. ASSUME NEW k \in PipeKeys, NEW p \in Principals \ {RESERVOIR},
               (p \in Parties(k) /\ (SignedCall(k, p) \/ UnsignedCall(k, p))) \/ Finalize(k, p)
        PROVE  Next
    BY <1>3 DEF Next, PipeCall
  <1>4. ASSUME NEW k \in Taps, DisputeForPool(k)
        PROVE  Next
    <2>1. SignedCall(k, RESERVOIR)
      BY <1>4 DEF DisputeForPool, SignedCall
    <2>2. QED
      BY <2>1, TapFacts DEF Next, PipeCall
  <1>5. QED
    BY <1>1, <1>2, <1>3, <1>4 DEF OutsideCall

\* A call of the operator or of a holder that the pool passes on is a step of the
\* StackFlow contract.
LEMMA PassedOnStep ==
    ASSUME \/ \E rate \in Rates : Initialize(rate)
           \/ \E agent \in SigningKeys : SetAgent(agent)
           \/ ClearAgent
           \/ \E k \in Taps : ForceCancelTap(k)
           \/ \E k \in Taps, amount \in Amounts, nonce \in Nonces : CreateTap(k, amount, nonce)
    PROVE  Next
  <1>1. RESERVOIR \in Principals /\ OPERATOR \in Principals /\ SigningKeys \subseteq Principals
    BY PrincipalAssumption, ReservoirAssumption
  <1>2. CASE \/ \E rate \in Rates : Initialize(rate)
             \/ \E agent \in SigningKeys : SetAgent(agent)
             \/ ClearAgent
    BY <1>1, <1>2 DEF Initialize, SetAgent, ClearAgent, Next, Admin
  <1>3. CASE \E k \in Taps : ForceCancelTap(k)
    BY <1>3, TapFacts DEF ForceCancelTap, UnsignedCall, PipeCall, Next
  <1>4. CASE \E k \in Taps, amount \in Amounts, nonce \in Nonces : CreateTap(k, amount, nonce)
    BY <1>4, TapFacts DEF CreateTap, UnsignedCall, PipeCall, Next
  <1>5. QED
    BY <1>2, <1>3, <1>4

\* The same of the calls with signatures.
LEMMA PassedOnSigned ==
    ASSUME NEW k \in Taps, NEW b \in BalancePairs, NEW nonce \in Nonces,
           NEW userKey \in SigningKeys, NEW poolKey \in SigningKeys,
           \/ \E validAfter \in ValidAfters :
                 ForceCloseTap(k, b[1], b[2], nonce, validAfter, userKey, poolKey)
           \/ \E amount \in Amounts :
                 \/ ReturnLiquidity(k, amount, b[1], b[2], nonce, userKey, poolKey)
                 \/ AddFunds(k, amount, b[1], b[2], nonce, userKey, poolKey)
    PROVE  Next
  <1> DEFINE c == <<b[2], b[1]>>
  <1>1. c \in BalancePairs /\ c[1] = b[2] /\ c[2] = b[1]
    BY DEF BalancePairs, Amounts
  <1>2. CASE \E validAfter \in ValidAfters :
                ForceCloseTap(k, b[1], b[2], nonce, validAfter, userKey, poolKey)
    <2>1. SignedCall(k, RESERVOIR)
      BY <1>1, <1>2 DEF ForceCloseTap, SignedCall
    <2>2. QED
      BY <2>1, TapFacts DEF PipeCall, Next
  <1>3. CASE \E amount \in Amounts :
                ReturnLiquidity(k, amount, b[1], b[2], nonce, userKey, poolKey)
    <2>1. SignedCall(k, RESERVOIR)
      BY <1>1, <1>3 DEF ReturnLiquidity, SignedCall
    <2>2. QED
      BY <2>1, TapFacts DEF PipeCall, Next
  <1>4. CASE \E amount \in Amounts :
                AddFunds(k, amount, b[1], b[2], nonce, userKey, poolKey)
    <2>1. SignedCall(k, Holder(k))
      BY <1>4 DEF AddFunds, SignedCall
    <2>2. QED
      BY <2>1, TapFacts DEF PipeCall, Next
  <1>5. QED
    BY <1>2, <1>3, <1>4

\* A transfer of the pool outside of the pipes, and a new rate.
LEMMA MoveStep ==
    ASSUME IInv, NEW from \in Principals, NEW to \in Principals, NEW amount \in Nat,
           Move(from, to, amount)
    PROVE  IInv' /\ UNCHANGED pipes
  <1>1. wallet \in [Principals -> Nat] /\ wallet[from] - amount \in Nat /\ from # to
    BY DEF IInv, TypeOK, Move
  <1>2. wallet' = [wallet EXCEPT ![from] = wallet[from] - amount, ![to] = wallet[to] + amount]
    BY DEF Move
  <1>3. wallet' \in [Principals -> Nat]
    BY <1>1, <1>2
  <1>4. QED
    BY <1>3 DEF Move, adminVars, IInv, TypeOK, EscrowBacksPipes, ClosureWellFormed,
         PipesUseSupportedToken, UnmappedPipesAreEmpty

\* A fee that comes in and a loan that goes out of what the pool had before it.
LEMMA LendFacts ==
    ASSUME IInv, NEW k \in Taps, NEW amount \in Nat, NEW fee \in Nat, Lend(k, amount, fee)
    PROVE  /\ wallet' \in [Principals -> Nat]
           /\ held' = [held EXCEPT ![k] = Claims(pipes[k]) + amount]
  <1>1. k \in PipeKeys /\ Holder(k) \in Principals /\ RESERVOIR \in Principals
    BY TapFacts
  <1>2. wallet \in [Principals -> Nat] /\ held[k] = Claims(pipes[k])
    BY <1>1 DEF IInv, TypeOK, EscrowBacksPipes
  <1>3. wallet[Holder(k)] - fee \in Nat /\ (wallet[RESERVOIR] + fee) - amount \in Nat
    BY <1>1, <1>2 DEF Lend
  <1>4. wallet' \in [Principals -> Nat]
    BY <1>1, <1>2, <1>3 DEF Lend
  <1>5. QED
    BY <1>2, <1>4 DEF Lend

\* borrow-liquidity is a deposit of the pool, paid by the pool.
LEMMA BorrowStep ==
    ASSUME IInv, NEW k \in Taps, NEW b \in BalancePairs, NEW nonce \in Nonces,
           NEW userKey, NEW poolKey, NEW amount \in Amounts, NEW fee \in Amounts,
           BorrowLiquidity(k, amount, fee, b[1], b[2], nonce, userKey, poolKey)
    PROVE  /\ IInv' /\ UNCHANGED height /\ amount # 0
           /\ \A j \in PipeKeys : pipes'[j] = pipes[j] \/ pipes'[j].closer = NoPrincipal
  <1>1. /\ k \in PipeKeys /\ RESERVOIR \in Parties(k)
        /\ amount \in Nat /\ fee \in Nat /\ nonce \in Nat /\ b[1] \in Nat /\ b[2] \in Nat
    BY TapFacts DEF Amounts, Nonces, BalancePairs
  <1>2. /\ Lend(k, amount, fee)
        /\ DepositToPipe(k, RESERVOIR, amount, b[2], b[1], nonce, poolKey, userKey)
    BY DEF BorrowLiquidity
  <1>3. /\ k \in mapped /\ UNCHANGED <<adminVars, mapped, height>>
        /\ event' \in Event
    BY <1>1, <1>2, DepositToPipeFacts
  <1>4. PICK q \in Pipe : /\ Closure(k, q) /\ StorePipe(k, q)
                          /\ Claims(q) = Claims(pipes[k]) + amount
                          /\ q.nonce = nonce /\ q.closer = NoPrincipal
    BY <1>1, <1>2, DepositToPipeFacts
  <1>5. wallet' \in [Principals -> Nat] /\ held' = [held EXCEPT ![k] = Claims(q)]
    BY <1>1, <1>2, <1>4, LendFacts
  <1>6. StepTo(k, q)
    BY <1>1, <1>3, <1>4, <1>5, PipeFacts DEF StepTo, StorePipe
  <1>7. IInv'
    BY <1>1, <1>4, <1>6, StepPreserves
  <1>8. amount # 0
    BY <1>2 DEF Lend
  <1>9. QED
    BY <1>1, <1>3, <1>4, <1>6, <1>7, <1>8, StepFrame

--------------------------------------------------------------------------------
(* The invariant *)

PoolLoan(k, amount) ==
    \E b \in BalancePairs, nonce \in Nonces, userKey, poolKey \in SigningKeys, fee \in Amounts :
        BorrowLiquidity(k, amount, fee, b[1], b[2], nonce, userKey, poolKey)

\* A call of the pool is a call passed on to the StackFlow contract, a move of liquidity
\* or of the rate, or a loan.
LEMMA PoolCallCases ==
    ASSUME PoolCall
    PROVE  \/ Next
           \/ \E rate \in Rates : SetBorrowRate(rate)
           \/ \E from, to \in Principals, amount \in Nat : Move(from, to, amount)
           \/ \E k \in Taps, amount \in Amounts : PoolLoan(k, amount)
  <1>1. RESERVOIR \in Principals /\ OPERATOR \in Principals /\ Amounts \subseteq Nat
    BY PrincipalAssumption, ReservoirAssumption DEF Amounts
  <1>2. CASE \E k \in Taps : SignedTapCall(k)
    <2>1. PICK k \in Taps : SignedTapCall(k)
      BY <1>2
    <2>2. PICK b \in BalancePairs, nonce \in Nonces,
               userKey \in SigningKeys, poolKey \in SigningKeys :
            \/ \E validAfter \in ValidAfters :
                  ForceCloseTap(k, b[1], b[2], nonce, validAfter, userKey, poolKey)
            \/ \E amount \in Amounts :
                  \/ ReturnLiquidity(k, amount, b[1], b[2], nonce, userKey, poolKey)
                  \/ AddFunds(k, amount, b[1], b[2], nonce, userKey, poolKey)
                  \/ \E fee \in Amounts :
                        BorrowLiquidity(k, amount, fee, b[1], b[2], nonce, userKey, poolKey)
      BY <2>1 DEF SignedTapCall
    <2>3. CASE \E amount \in Amounts, fee \in Amounts :
                  BorrowLiquidity(k, amount, fee, b[1], b[2], nonce, userKey, poolKey)
      BY <2>3 DEF PoolLoan
    <2>4. QED
      BY <2>2, <2>3, PassedOnSigned
  <1>3. CASE \E amount \in Amounts :
                \/ AddLiquidity(amount)
                \/ \E recipient \in Principals : WithdrawLiquidity(amount, recipient)
    BY <1>1, <1>3 DEF AddLiquidity, WithdrawLiquidity
  <1>4. QED
    BY <1>2, <1>3, PassedOnStep DEF PoolCall

\* Only a loan changes what was lent.
LEMMA PoolFrame ==
    ASSUME PoolTypes, [PoolNext]_allVars
    PROVE  /\ poolInitialized' \in BOOLEAN /\ borrowRate' \in Nat
           /\ \/ \E k \in Taps, amount \in Amounts : PoolLoan(k, amount)
              \/ UNCHANGED <<borrowed, lent>>
  <1>1. CASE OutsideCall \/ UNCHANGED allVars
    BY <1>1 DEF OutsideCall, poolVars, allVars, PoolTypes
  <1>2. CASE PoolCall
    <2>1. CASE \E k \in Taps : SignedTapCall(k)
      BY <2>1 DEF SignedTapCall, ForceCloseTap, ReturnLiquidity, AddFunds, PoolLoan,
           BorrowLiquidity, poolVars, PoolTypes
    <2>2. CASE \E rate \in Rates : Initialize(rate) \/ SetBorrowRate(rate)
      BY <2>2, ReservoirAssumption DEF Initialize, SetBorrowRate, PoolTypes
    <2>3. QED
      BY <1>2, <2>1, <2>2 DEF PoolCall, SetAgent, ClearAgent, AddLiquidity, WithdrawLiquidity,
           Move, ForceCancelTap, CreateTap, poolVars, PoolTypes
  <1>3. QED
    BY <1>1, <1>2 DEF PoolNext

\* Every step keeps the books of the contract.
LEMMA PoolKeepsBooks ==
    ASSUME IInv, [PoolNext]_allVars
    PROVE  IInv'
  <1>1. CASE Next
    BY <1>1, NextInvariant
  <1>2. ASSUME NEW rate, SetBorrowRate(rate)
        PROVE  IInv'
    BY <1>2 DEF SetBorrowRate, adminVars, IInv, TypeOK, EscrowBacksPipes, ClosureWellFormed,
         PipesUseSupportedToken, UnmappedPipesAreEmpty
  <1>3. ASSUME NEW k \in Taps, NEW amount \in Amounts, PoolLoan(k, amount)
        PROVE  IInv'
    BY <1>3, BorrowStep DEF PoolLoan
  <1>4. CASE UNCHANGED allVars
    BY <1>4, NextInvariant DEF allVars
  <1>5. QED
    BY <1>1, <1>2, <1>3, <1>4, MoveStep, OutsideStep, PoolCallCases DEF PoolNext

\* A loan is recorded in the block it is made, and its entry outlasts it.
LEMMA LoanRecorded ==
    ASSUME PoolInv, NEW k \in Taps, NEW amount \in Amounts, PoolLoan(k, amount)
    PROVE  /\ borrowed' \in [Principals -> Loan]
           /\ lent' \in [Principals -> [0..Horizon -> Nat]]
           /\ LoansCovered'
  <1> DEFINE user == Holder(k)
             until == height + BORROW_TERM_BLOCKS
  <1>1. user \in Principals /\ amount \in Nat /\ height \in 0..Horizon /\ height \in Nat
        /\ BORROW_TERM_BLOCKS \in Nat
    BY TapFacts, Heights, ReservoirAssumption DEF Amounts, PoolInv, IInv, TypeOK
  <1>2. amount # 0 /\ height' = height
    BY BorrowStep DEF PoolLoan, PoolInv
  <1>3. /\ borrowed' = [borrowed EXCEPT ![user] = [amount |-> amount, until |-> until]]
        /\ lent' = [lent EXCEPT ![user][height] = lent[user][height] + amount]
    BY DEF PoolLoan, BorrowLiquidity
  <1>4. /\ borrowed \in [Principals -> Loan]
        /\ lent \in [Principals -> [0..Horizon -> Nat]]
    BY DEF PoolInv, PoolTypes
  <1>5. until \in Nat /\ [amount |-> amount, until |-> until] \in Loan
    BY <1>1 DEF Loan
  <1> HIDE DEF user, until
  <1>6. borrowed' \in [Principals -> Loan] /\ borrowed'[user].amount = amount
        /\ borrowed'[user].until = until
        /\ \A p \in Principals \ {user} : borrowed'[p] = borrowed[p]
    BY <1>1, <1>3, <1>4, <1>5
  <1>7. /\ lent[user] \in [0..Horizon -> Nat] /\ lent[user][height] + amount \in Nat
        /\ lent'[user] = [lent[user] EXCEPT ![height] = lent[user][height] + amount]
        /\ \A p \in Principals \ {user} : lent'[p] = lent[p]
    <2>1. lent[user] \in [0..Horizon -> Nat]
      BY <1>1, <1>4
    <2>2. lent[user][height] \in Nat
      BY <1>1, <2>1
    <2>3. lent'[user] = [lent[user] EXCEPT ![height] = lent[user][height] + amount]
      BY <1>1, <1>3, <1>4, Zenon
    <2>4. \A p \in Principals \ {user} : lent'[p] = lent[p]
      BY <1>1, <1>3, <1>4
    <2>5. lent[user][height] + amount \in Nat
      BY <1>1, <2>2
    <2>6. QED
      BY <2>1, <2>3, <2>4, <2>5
  <1>8. lent'[user] \in [0..Horizon -> Nat]
    BY <1>1, <1>7
  <1>9. lent' \in [Principals -> [0..Horizon -> Nat]]
    BY <1>1, <1>3, <1>4, <1>7, <1>8
  <1>10. ASSUME NEW p \in Principals, NEW h \in 0..Horizon, lent'[p][h] # 0
         PROVE  /\ h <= height' /\ borrowed'[p].amount # 0
                /\ h + BORROW_TERM_BLOCKS <= borrowed'[p].until
    <2>1. CASE p = user /\ h = height
      BY <1>1, <1>2, <1>6, <2>1 DEF until
    <2>2. CASE p = user /\ h # height
      <3>1. lent[p][h] # 0
        BY <1>7, <1>10, <2>2
      <3>2. h <= height
        BY <3>1 DEF PoolInv, LoansCovered, CoveredByEntry
      <3>3. QED
        BY <1>1, <1>2, <1>6, <2>2, <3>2 DEF until
    <2>3. CASE p # user
      <3>1. lent[p][h] # 0 /\ borrowed'[p] = borrowed[p]
        BY <1>6, <1>7, <1>10, <2>3
      <3>2. QED
        BY <1>2, <3>1 DEF PoolInv, LoansCovered, CoveredByEntry
    <2>4. QED
      BY <2>1, <2>2, <2>3
  <1>11. QED
    BY <1>6, <1>9, <1>10 DEF LoansCovered, CoveredByEntry

\* Heights do not fall.
LEMMA HeightsRise ==
    ASSUME IInv, [PoolNext]_allVars
    PROVE  height' >= height
  <1>1. height \in Nat
    BY PipeFacts, Heights DEF IInv, TypeOK
  <1>2. CASE [Next]_vars
    <2>1. CASE \E k \in PipeKeys : PipeCall(k)
      BY <1>1, <2>1, PipeCallStep DEF StepTo
    <2>2. CASE BurnBlock \/ Admin \/ UNCHANGED vars
      BY <1>1, <2>2, AdminStep DEF BurnBlock, vars
    <2>3. QED
      BY <1>2, <2>1, <2>2 DEF Next
  <1>3. ASSUME NEW k \in Taps, NEW amount \in Amounts, PoolLoan(k, amount)
        PROVE  height' >= height
    BY <1>1, <1>3, BorrowStep DEF PoolLoan
  <1>4. QED
    BY <1>1, <1>2, <1>3, OutsideStep, PoolCallCases DEF PoolNext, allVars, SetBorrowRate, Move

\* The invariant of the pool: the contract's books balance, and every loan in its term
\* is covered by the borrower's entry.
THEOREM PoolInvariance == PoolSpec => []PoolInv
  <1>1. PoolInit => PoolInv
    <2> SUFFICES ASSUME PoolInit PROVE PoolInv
      OBVIOUS
    <2>1. IInv
      BY InitInvariant DEF PoolInit
    <2>2. PoolTypes /\ LoansCovered
      BY DEF PoolInit, PoolTypes, LoansCovered, Loan
    <2>3. QED
      BY <2>1, <2>2 DEF PoolInv
  <1>2. PoolInv /\ [PoolNext]_allVars => PoolInv'
    <2> SUFFICES ASSUME PoolInv, [PoolNext]_allVars PROVE PoolInv'
      OBVIOUS
    <2>1. IInv' /\ height' >= height /\ height \in Nat /\ height' \in Nat
      BY PoolKeepsBooks, HeightsRise DEF PoolInv, IInv, TypeOK
    <2>2. poolInitialized' \in BOOLEAN /\ borrowRate' \in Nat
      BY PoolFrame DEF PoolInv
    <2>3. CASE \E k \in Taps, amount \in Amounts : PoolLoan(k, amount)
      BY <2>1, <2>2, <2>3, LoanRecorded DEF PoolInv, PoolTypes
    <2>4. CASE UNCHANGED <<borrowed, lent>>
      <3>1. PoolTypes'
        BY <2>2, <2>4 DEF PoolInv, PoolTypes
      <3>2. LoansCovered'
        BY <2>1, <2>4 DEF PoolInv, LoansCovered, CoveredByEntry
      <3>3. QED
        BY <2>1, <3>1, <3>2 DEF PoolInv
    <2>5. QED
      BY <2>3, <2>4, PoolFrame DEF PoolInv
  <1>3. QED
    BY <1>1, <1>2, PTL DEF PoolSpec

\* The pool never lends or pays out what it does not have, and keeps its types.
THEOREM PoolTypeCorrect == PoolSpec => []PoolTypeOK
  BY PoolInvariance, PTL DEF PoolInv, IInv, PoolTypes, PoolTypeOK

\* Loans and their fees do not unbalance the contract's books.
THEOREM PoolEscrowBacked == PoolSpec => []EscrowBacksPipes
  BY PoolInvariance, PTL DEF PoolInv, IInv

--------------------------------------------------------------------------------
(* The terms of the loans *)

\* Only its sender becomes the closer of a pipe.
LEMMA CloserIsSender ==
    ASSUME IInv, NEW j \in PipeKeys, NEW k \in PipeKeys, NEW p \in Parties(j),
           SignedCall(j, p) \/ UnsignedCall(j, p)
    PROVE  pipes'[k].closer \in {pipes[k].closer, NoPrincipal, p}
  <1>1. pipes \in [PipeKeys -> Pipe] /\ SettlePending(pipes[j]) \in Pipe
    BY PipeFacts, Heights, SettleFacts DEF IInv, TypeOK
  <1>2. CASE k # j
    <2>1. PipeCall(j)
      BY DEF PipeCall
    <2>2. QED
      BY <1>2, <2>1, PipeCallStep, StepFrame
  <1>3. CASE k = j
    <2>1. CASE SignedCall(j, p)
      <3>1. PICK b \in BalancePairs, nonce \in Nonces, key1 \in SigningKeys, key2 \in SigningKeys :
              \/ ClosePipe(j, p, b[1], b[2], nonce, key1, key2)
              \/ \E validAfter \in ValidAfters :
                    \/ ForceClose(j, p, b[1], b[2], nonce, validAfter, key1, key2)
                    \/ DisputeClosure(j, p, b[1], b[2], nonce, validAfter, key1, key2)
              \/ \E amount \in Amounts :
                    \/ Deposit(j, p, amount, b[1], b[2], nonce, key1, key2)
                    \/ Withdraw(j, p, amount, b[1], b[2], nonce, key1, key2)
        BY <2>1 DEF SignedCall
      <3>2. b[1] \in Nat /\ b[2] \in Nat /\ nonce \in Nat /\ Amounts \subseteq Nat
        BY DEF BalancePairs, Amounts, Nonces
      <3>3. CASE \/ ClosePipe(j, p, b[1], b[2], nonce, key1, key2)
                 \/ \E validAfter \in ValidAfters :
                       DisputeClosure(j, p, b[1], b[2], nonce, validAfter, key1, key2)
        BY <1>1, <1>3, <3>3 DEF ClosePipe, DisputeClosure, ResetPipe, StorePipe, EmptyPipe,
             ClosedPipe
      <3>4. CASE \E validAfter \in ValidAfters :
                    ForceClose(j, p, b[1], b[2], nonce, validAfter, key1, key2)
        BY <1>1, <1>3, <3>4 DEF ForceClose, StorePipe, ClosedPipe
      <3>5. CASE \E amount \in Amounts :
                    \/ Deposit(j, p, amount, b[1], b[2], nonce, key1, key2)
                    \/ Withdraw(j, p, amount, b[1], b[2], nonce, key1, key2)
        BY <1>3, <3>2, <3>5, DepositStep, WithdrawStep, StepFrame
      <3>6. QED
        BY <3>1, <3>3, <3>4, <3>5
    <2>2. CASE \E amount \in Amounts, nonce \in Nonces : FundPipe(j, p, amount, nonce)
      <3>1. Amounts \subseteq Nat /\ Nonces \subseteq Nat /\ p \in Principals
        BY PipeFacts DEF Amounts, Nonces, Parties
      <3>2. QED
        BY <1>3, <2>2, <3>1, FundPipeStep, StepFrame
    <2>3. CASE ForceCancel(j, p)
      <3> DEFINE settled == SettlePending(pipes[j])
      <3>1. pipes'[j] = [settled EXCEPT !.expiresAt = height + WAITING_PERIOD, !.closer = p]
        BY <1>1, <2>3 DEF ForceCancel, StorePipe
      <3> HIDE DEF settled
      <3>2. settled \in Pipe
        BY <1>1 DEF settled
      <3>3. QED
        BY <1>3, <3>1, <3>2 DEF Pipe
    <2>4. QED
      BY <2>1, <2>2, <2>3 DEF UnsignedCall
  <1>4. QED
    BY <1>2, <1>3

\* A call of somebody else does not make the pool a closer.
LEMMA OutsideCloses ==
    ASSUME IInv, NEW k \in Taps, OutsideCall
    PROVE  ~ClosedByPool(k)
  <1>1. k \in PipeKeys /\ RESERVOIR # NoPrincipal
    BY TapFacts
  <1>2. ASSUME NEW j \in PipeKeys, NEW p \in Principals \ {RESERVOIR}, p \in Parties(j),
               SignedCall(j, p) \/ UnsignedCall(j, p)
        PROVE  ~ClosedByPool(k)
    BY <1>1, <1>2, CloserIsSender DEF ClosedByPool
  <1>3. ASSUME NEW j \in PipeKeys, NEW p, Finalize(j, p) \/ (j \in Taps /\ DisputeForPool(j))
        PROVE  ~ClosedByPool(k)
    <2>1. \E n : pipes' = [pipes EXCEPT ![j] = EmptyPipe(n)]
      BY <1>3 DEF Finalize, FinalizeWhen, DisputeForPool, DisputeClosure, ResetPipe, StorePipe
    <2>2. pipes \in [PipeKeys -> Pipe]
      BY DEF IInv, TypeOK
    <2>3. QED
      BY <1>1, <2>1, <2>2 DEF ClosedByPool, EmptyPipe, ClosedPipe
  <1>4. CASE BurnBlock \/ \E token \in Tokens : InitContract(Deployer, token)
    BY <1>4 DEF BurnBlock, InitContract, ClosedByPool
  <1>5. QED
    BY <1>2, <1>3, <1>4, TapFacts DEF OutsideCall

\* The pool becomes the closer of a tap only where its holder has no loan left.
LEMMA PoolCloses ==
    ASSUME IInv, NEW k \in Taps, PoolCall, ClosedByPool(k)
    PROVE  StillBorrowed(Holder(k)) = 0
  <1>1. k \in PipeKeys /\ RESERVOIR # NoPrincipal
        /\ Amounts \subseteq Nat /\ Nonces \subseteq Nat
    BY TapFacts DEF Amounts, Nonces
  <1>2. ASSUME NEW j \in Taps, ForceCancelTap(j)
        PROVE  StillBorrowed(Holder(k)) = 0
    <2>1. StillBorrowed(Holder(j)) = 0 /\ ForceCancel(j, RESERVOIR)
      BY <1>2 DEF ForceCancelTap
    <2>2. j = k
      BY <2>1 DEF ClosedByPool, ForceCancel, StorePipe, IInv, TypeOK, Taps
    <2>3. QED
      BY <2>1, <2>2
  <1>3. ASSUME NEW j \in Taps, NEW b, NEW nonce, NEW validAfter, NEW userKey, NEW poolKey,
               ForceCloseTap(j, b[1], b[2], nonce, validAfter, userKey, poolKey)
        PROVE  StillBorrowed(Holder(k)) = 0
    <2>1. /\ StillBorrowed(Holder(j)) = 0
          /\ ForceClose(j, RESERVOIR, b[2], b[1], nonce, validAfter, poolKey, userKey)
      BY <1>3 DEF ForceCloseTap
    <2>2. j = k
      BY <2>1 DEF ClosedByPool, ForceClose, StorePipe, IInv, TypeOK, Taps
    <2>3. QED
      BY <2>1, <2>2
  <1>4. ASSUME NEW j \in Taps, NEW amount \in Amounts, NEW nonce \in Nonces,
               CreateTap(j, amount, nonce)
        PROVE  FALSE
    <2>1. j \in PipeKeys /\ Holder(j) \in Principals /\ amount \in Nat /\ nonce \in Nat
      BY <1>1, TapFacts
    <2>2. \E q \in Pipe : StepTo(j, q) /\ q.closer = NoPrincipal
      BY <1>4, <2>1, FundPipeStep DEF CreateTap
    <2>3. QED
      BY <1>1, <2>1, <2>2, StepFrame DEF ClosedByPool
  <1>5. ASSUME NEW j \in Taps, NEW b \in BalancePairs, NEW amount \in Amounts,
               NEW nonce \in Nonces, NEW userKey, NEW poolKey,
               \/ ReturnLiquidity(j, amount, b[1], b[2], nonce, userKey, poolKey)
               \/ AddFunds(j, amount, b[1], b[2], nonce, userKey, poolKey)
        PROVE  FALSE
    <2>1. /\ j \in PipeKeys /\ Holder(j) \in Parties(j) /\ RESERVOIR \in Parties(j)
          /\ amount \in Nat /\ nonce \in Nat /\ b[1] \in Nat /\ b[2] \in Nat
      BY <1>1, TapFacts DEF BalancePairs
    <2>2. \E q \in Pipe : StepTo(j, q) /\ q.closer = NoPrincipal
      BY <1>5, <2>1, DepositStep, WithdrawStep DEF ReturnLiquidity, AddFunds
    <2>3. QED
      BY <1>1, <2>1, <2>2, StepFrame DEF ClosedByPool
  <1>6. ASSUME NEW j \in Taps, NEW amount \in Amounts, PoolLoan(j, amount)
        PROVE  FALSE
    BY <1>1, <1>6, BorrowStep DEF PoolLoan, ClosedByPool
  <1>7. CASE \E j \in Taps : SignedTapCall(j)
    <2>1. PICK j \in Taps : SignedTapCall(j)
      BY <1>7
    <2>2. PICK b \in BalancePairs, nonce \in Nonces,
               userKey \in SigningKeys, poolKey \in SigningKeys :
            \/ \E validAfter \in ValidAfters :
                  ForceCloseTap(j, b[1], b[2], nonce, validAfter, userKey, poolKey)
            \/ \E amount \in Amounts :
                  \/ ReturnLiquidity(j, amount, b[1], b[2], nonce, userKey, poolKey)
                  \/ AddFunds(j, amount, b[1], b[2], nonce, userKey, poolKey)
                  \/ \E fee \in Amounts :
                        BorrowLiquidity(j, amount, fee, b[1], b[2], nonce, userKey, poolKey)
      BY <2>1 DEF SignedTapCall
    <2>3. CASE \E amount \in Amounts, fee \in Amounts :
                  BorrowLiquidity(j, amount, fee, b[1], b[2], nonce, userKey, poolKey)
      BY <1>6, <2>3 DEF PoolLoan
    <2>4. QED
      BY <1>3, <1>5, <2>2, <2>3
  <1>8. CASE pipes' = pipes
    BY <1>8 DEF ClosedByPool
  <1>9. QED
    BY <1>2, <1>4, <1>7, <1>8 DEF PoolCall, Initialize, SetBorrowRate, SetAgent, ClearAgent,
         RegisterAgent, DeregisterAgent, AddLiquidity, WithdrawLiquidity, Move

\* The pool starts no closure of a tap whose holder has a loan in its term, however many
\* loans there were.
THEOREM TermsHonoured == PoolSpec => TermHonoured
  <1>1. PoolInv /\ [PoolNext]_allVars
            => [\A k \in Taps : ClosedByPool(k) => \A h \in InTerm : lent[Holder(k)][h] = 0]_allVars
    <2> SUFFICES ASSUME PoolInv, [PoolNext]_allVars, NEW k \in Taps, ClosedByPool(k),
                        NEW h \in InTerm, lent[Holder(k)][h] # 0
                 PROVE  FALSE
      OBVIOUS
    <2>1. IInv /\ Holder(k) \in Principals /\ h \in 0..Horizon /\ height <= h + BORROW_TERM_BLOCKS
          /\ height \in Nat /\ BORROW_TERM_BLOCKS \in Nat
      BY TapFacts, Heights, ReservoirAssumption DEF PoolInv, InTerm, IInv, TypeOK
    <2>2. StillBorrowed(Holder(k)) = 0
      BY <2>1, OutsideCloses, PoolCloses DEF PoolNext, allVars, vars, ClosedByPool
    <2>3. /\ borrowed[Holder(k)].amount # 0
          /\ h + BORROW_TERM_BLOCKS <= borrowed[Holder(k)].until
          /\ borrowed[Holder(k)].until \in Nat
      BY <2>1 DEF PoolInv, LoansCovered, CoveredByEntry, PoolTypes, Loan
    <2>4. ~(height > borrowed[Holder(k)].until)
      BY <2>1, <2>3
    <2>5. QED
      BY <2>2, <2>3, <2>4 DEF StillBorrowed
  <1>2. QED
    BY <1>1, PoolInvariance, PTL DEF PoolSpec, TermHonoured

--------------------------------------------------------------------------------
(* Agreements of the pool *)

\* While the pool has no agent no signature of two keys is one of both parties of a tap.
LEMMA NoAgentNoSignatures ==
    ASSUME NEW k \in Taps, NEW p \in Parties(k), NEW q, NEW b1, NEW b2, NEW validAfter,
           NEW key1 \in SigningKeys, NEW key2 \in SigningKeys,
           agents[RESERVOIR] = NoPrincipal,
           VerifySignatures(q, b1, b2, validAfter, key1, p, key2, Other(k, p))
    PROVE  FALSE
  <1>1. p = RESERVOIR \/ Other(k, p) = RESERVOIR
    BY DEF Taps, Parties, Other
  <1>2. \A key \in SigningKeys : key # RESERVOIR /\ key # NoPrincipal
    BY TapFacts, PrincipalAssumption
  <1>3. ~VerifyHashSignature(key1, RESERVOIR) /\ ~VerifyHashSignature(key2, RESERVOIR)
    BY <1>2 DEF VerifyHashSignature
  <1>4. QED
    BY <1>1, <1>3 DEF VerifySignatures

\* So no call with signatures on a tap goes through.
LEMMA NoAgentNoSignedCall ==
    ASSUME NEW k \in Taps, NEW p \in Parties(k), agents[RESERVOIR] = NoPrincipal
    PROVE  ~SignedCall(k, p)
  <1> SUFFICES ASSUME SignedCall(k, p) PROVE FALSE
    OBVIOUS
  <1>1. PICK b \in BalancePairs, nonce \in Nonces, key1 \in SigningKeys, key2 \in SigningKeys :
          \/ ClosePipe(k, p, b[1], b[2], nonce, key1, key2)
          \/ \E validAfter \in ValidAfters :
                \/ ForceClose(k, p, b[1], b[2], nonce, validAfter, key1, key2)
                \/ DisputeClosure(k, p, b[1], b[2], nonce, validAfter, key1, key2)
          \/ \E amount \in Amounts :
                \/ Deposit(k, p, amount, b[1], b[2], nonce, key1, key2)
                \/ Withdraw(k, p, amount, b[1], b[2], nonce, key1, key2)
    BY DEF SignedCall
  <1>2. \E q, b1, b2, validAfter :
            VerifySignatures(q, b1, b2, validAfter, key1, p, key2, Other(k, p))
    <2>1. CASE ClosePipe(k, p, b[1], b[2], nonce, key1, key2)
      BY <2>1, Zenon DEF ClosePipe
    <2>2. CASE \E validAfter \in ValidAfters :
                  ForceClose(k, p, b[1], b[2], nonce, validAfter, key1, key2)
      BY <2>2, Zenon DEF ForceClose
    <2>3. CASE \E validAfter \in ValidAfters :
                  DisputeClosure(k, p, b[1], b[2], nonce, validAfter, key1, key2)
      BY <2>3, Zenon DEF DisputeClosure
    <2>4. CASE \E amount \in Amounts : Deposit(k, p, amount, b[1], b[2], nonce, key1, key2)
      BY <2>4, Zenon DEF Deposit, DepositToPipe
    <2>5. CASE \E amount \in Amounts : Withdraw(k, p, amount, b[1], b[2], nonce, key1, key2)
      BY <2>5, Zenon DEF Withdraw
    <2>6. QED
      BY <1>1, <2>1, <2>2, <2>3, <2>4, <2>5
  <1>3. QED
    BY <1>2, NoAgentNoSignatures

\* fund-pipe keeps the nonce of a pipe that is there.
LEMMA FundKeepsNonce ==
    ASSUME IInv, NEW k \in PipeKeys, k \in mapped, NEW sender \in Principals,
           NEW amount \in Nat, NEW nonce, FundPipe(k, sender, amount, nonce)
    PROVE  pipes'[k].nonce = pipes[k].nonce
  <1> DEFINE settled == SettlePending(pipes[k])
             updated == AddPending(settled, k, sender, amount)
  <1>1. pipes[k] \in Pipe /\ height \in 0..Horizon /\ pipes \in [PipeKeys -> Pipe]
    BY PipeFacts DEF IInv, TypeOK
  <1>2. settled \in Pipe /\ settled.nonce = pipes[k].nonce
    BY <1>1, SettleFacts, SettleFields, Heights
  <1>3. PendingOf(settled, k, sender) = NoPending /\ StorePipe(k, updated)
    BY DEF FundPipe
  <1> HIDE DEF settled
  <1>4. updated.nonce = settled.nonce
    BY <1>1, <1>2, <1>3, AddPendingFacts
  <1>5. QED
    BY <1>1, <1>2, <1>3, <1>4 DEF StorePipe

\* A call of a party, or the end of a closure, changes no nonce of a tap while the pool
\* has no agent.
LEMMA NoAgentPipeCall ==
    ASSUME IInv, NEW k \in Taps, k \in mapped, NEW j \in PipeKeys, PipeCall(j),
           agents[RESERVOIR] = NoPrincipal
    PROVE  pipes'[k].nonce = pipes[k].nonce
  <1>1. k \in PipeKeys
    BY TapFacts
  <1>2. CASE k # j
    BY <1>1, <1>2, PipeCallStep, StepFrame
  <1>3. CASE k = j
    <2>1. ASSUME NEW p \in Parties(k), UnsignedCall(k, p)
          PROVE  pipes'[k].nonce = pipes[k].nonce
      <3>1. CASE \E amount \in Amounts, nonce \in Nonces : FundPipe(k, p, amount, nonce)
        <4>1. Amounts \subseteq Nat /\ p \in Principals
          BY <1>1, PipeFacts DEF Amounts, Parties
        <4>2. QED
          BY <1>1, <3>1, <4>1, FundKeepsNonce
      <3>2. CASE ForceCancel(k, p)
        BY <1>1, <3>2, ForceCancelStep, StepFrame
      <3>3. QED
        BY <2>1, <3>1, <3>2 DEF UnsignedCall
    <2>2. ASSUME NEW p \in Principals, Finalize(k, p)
          PROVE  pipes'[k].nonce = pipes[k].nonce
      <3>1. StepTo(k, EmptyPipe(pipes[k].nonce))
        BY <1>1, <2>2, FinalizeStep
      <3>2. QED
        BY <1>1, <3>1, StepFrame DEF EmptyPipe, ClosedPipe
    <2>3. QED
      BY <1>3, <2>1, <2>2, NoAgentNoSignedCall DEF PipeCall
  <1>4. QED
    BY <1>2, <1>3

\* Nor does a loan, which is a deposit the pool has to sign.
LEMMA NoAgentLoan ==
    ASSUME IInv, NEW k \in Taps, NEW j \in Taps, NEW amount \in Amounts, PoolLoan(j, amount),
           agents[RESERVOIR] = NoPrincipal
    PROVE  FALSE
  <1>1. PICK b \in BalancePairs, nonce \in Nonces, userKey \in SigningKeys,
             poolKey \in SigningKeys :
          DepositToPipe(j, RESERVOIR, amount, b[2], b[1], nonce, poolKey, userKey)
    BY DEF PoolLoan, BorrowLiquidity
  <1>2. \E q, b1, b2, validAfter :
            VerifySignatures(q, b1, b2, validAfter, poolKey, RESERVOIR, userKey,
                             Other(j, RESERVOIR))
    BY <1>1, Zenon DEF DepositToPipe
  <1>3. QED
    BY <1>2, TapFacts, NoAgentNoSignatures

\* Without an agent of the pool no message is agreed upon for a tap: its nonce stays,
\* whoever calls, until the operator appoints one.
THEOREM NoAgentNoAgreement == PoolSpec => AgreementsNeedAgent
  <1>1. PoolInv /\ [PoolNext]_allVars => [\A k \in Taps : ~AgreesWithoutAgent(k)]_allVars
    <2> SUFFICES ASSUME PoolInv, [PoolNext]_allVars, NEW k \in Taps,
                        agents[RESERVOIR] = NoPrincipal, k \in mapped
                 PROVE  pipes'[k].nonce = pipes[k].nonce
      BY DEF AgreesWithoutAgent
    <2>1. IInv
      BY DEF PoolInv
    <2>2. CASE Next
      <3>1. CASE BurnBlock \/ Admin
        BY <3>1 DEF BurnBlock, Admin, InitContract, RegisterAgent, DeregisterAgent
      <3>2. QED
        BY <2>1, <2>2, <3>1, NoAgentPipeCall DEF Next
    <2>3. CASE \/ \E rate \in Rates : SetBorrowRate(rate)
               \/ \E from, to \in Principals, amount \in Nat : Move(from, to, amount)
               \/ UNCHANGED allVars
      BY <2>3 DEF SetBorrowRate, Move, allVars, vars
    <2>4. CASE \E j \in Taps, amount \in Amounts : PoolLoan(j, amount)
      BY <2>1, <2>4, NoAgentLoan
    <2>5. QED
      BY <2>2, <2>3, <2>4, OutsideStep, PoolCallCases DEF PoolNext
  <1>2. QED
    BY <1>1, PoolInvariance, PTL DEF PoolSpec, AgreementsNeedAgent

================================================================================
