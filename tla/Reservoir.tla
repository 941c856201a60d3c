------------------------------- MODULE Reservoir -------------------------------
(***************************************************************************)
(* The liquidity pool contracts/reservoir.clar on top of the contract of   *)
(* StackflowContract.  The pool is a contract principal with an agent that *)
(* signs for it; it lends tokens into its pipes (taps) for a term and      *)
(* closes a tap only by the functions below, of which the operator calls   *)
(* all but the borrower's.                                                 *)
(*                                                                         *)
(* The pool is taken to be initialised with the token of the StackFlow     *)
(* contract: with another one it refuses every call on a tap.              *)
(* create-tap-with-borrowed-liquidity is CreateTap and BorrowLiquidity in  *)
(* one transaction and has no action of its own.                           *)
(***************************************************************************)
EXTENDS StackflowContract

CONSTANTS
    RESERVOIR,            \* the pool's principal
    OPERATOR,             \* who deployed it
    BORROW_TERM_BLOCKS,
    Rates                 \* bound: borrow rates in basis points that are set

ASSUME ReservoirAssumption ==
    /\ RESERVOIR \in ContractPrincipals
    /\ OPERATOR \in Principals \ {RESERVOIR}
    /\ BORROW_TERM_BLOCKS \in Nat
    /\ Rates \subseteq Nat

VARIABLES
    poolInitialized,   \* data-var initialized of the pool
    borrowRate,        \* data-var borrow-rate
    borrowed,          \* map borrowed-liquidity; amount 0 where it has no entry
    lent               \* what each borrower was lent in each block (not in the code)

poolVars == <<poolInitialized, borrowRate, borrowed, lent>>
allVars == <<vars, poolVars>>

Loan == [amount : Nat, until : Nat]

Taps == {k \in PipeKeys : RESERVOIR \in Parties(k)}
Holder(k) == Other(k, RESERVOIR)

PoolInit ==
    /\ Init
    /\ poolInitialized = FALSE
    /\ borrowRate = 0
    /\ borrowed = [p \in Principals |-> [amount |-> 0, until |-> 0]]
    /\ lent = [p \in Principals |-> [h \in 0..Horizon |-> 0]]

--------------------------------------------------------------------------------
(* The operator *)

Initialize(rate) ==
    /\ ~poolInitialized
    /\ RegisterAgent(RESERVOIR, OPERATOR)
    /\ poolInitialized' = TRUE
    /\ borrowRate' = rate
    /\ UNCHANGED <<borrowed, lent>>

SetBorrowRate(rate) ==
    /\ poolInitialized
    /\ borrowRate' = rate
    /\ event' = NoEvent
    /\ UNCHANGED <<adminVars, mapped, pipes, wallet, held, height,
                   poolInitialized, borrowed, lent>>

SetAgent(agent) ==
    /\ poolInitialized
    /\ RegisterAgent(RESERVOIR, agent)
    /\ UNCHANGED poolVars

ClearAgent ==
    /\ poolInitialized
    /\ DeregisterAgent(RESERVOIR)
    /\ UNCHANGED poolVars

\* A token transfer between the pool and somebody else, with no pipe involved.
Move(from, to, amount) ==
    /\ from # to
    /\ 0 < amount /\ amount <= wallet[from]
    /\ wallet' = [wallet EXCEPT ![from] = @ - amount, ![to] = @ + amount]
    /\ event' = NoEvent
    /\ UNCHANGED <<adminVars, mapped, pipes, held, height, poolVars>>

AddLiquidity(amount) == poolInitialized /\ Move(OPERATOR, RESERVOIR, amount)

\* All that the pool holds outside of taps is available.
WithdrawLiquidity(amount, recipient) ==
    poolInitialized /\ Move(RESERVOIR, recipient, amount)

\* Mutant: the term is a block short.
StillBorrowedShort(user) ==
    IF height >= borrowed[user].until THEN 0 ELSE borrowed[user].amount

\* The amount of the last loan while its term lasts.
StillBorrowed(user) ==
    IF height > borrowed[user].until THEN 0 ELSE borrowed[user].amount

ForceCancelTap(k) ==
    /\ poolInitialized
    /\ StillBorrowed(Holder(k)) = 0
    /\ ForceCancel(k, RESERVOIR)
    /\ UNCHANGED poolVars

ForceCloseTap(k, userBalance, poolBalance, nonce, validAfter, userKey, poolKey) ==
    /\ poolInitialized
    /\ StillBorrowed(Holder(k)) = 0
    /\ ForceClose(k, RESERVOIR, poolBalance, userBalance, nonce, validAfter, poolKey, userKey)
    /\ UNCHANGED poolVars

ReturnLiquidity(k, amount, userBalance, poolBalance, nonce, userKey, poolKey) ==
    /\ poolInitialized
    /\ poolBalance >= StillBorrowed(Holder(k))
    /\ Withdraw(k, RESERVOIR, amount, poolBalance, userBalance, nonce, poolKey, userKey)
    /\ UNCHANGED poolVars

--------------------------------------------------------------------------------
(* Tap holders *)

CreateTap(k, amount, nonce) ==
    /\ poolInitialized
    /\ FundPipe(k, Holder(k), amount, nonce)
    /\ UNCHANGED poolVars

AddFunds(k, amount, my, their, nonce, myKey, theirKey) ==
    /\ poolInitialized
    /\ Deposit(k, Holder(k), amount, my, their, nonce, myKey, theirKey)
    /\ UNCHANGED poolVars

BorrowFee(amount) == (amount * borrowRate) \div 10000

\* Mutant: the liquidity is not looked at.
LendUnchecked(k, amount, fee) ==
    /\ 0 < amount /\ fee <= wallet[Holder(k)]
    /\ wallet' = [wallet EXCEPT ![Holder(k)] = @ - fee, ![RESERVOIR] = (@ + fee) - amount]
    /\ held' = [held EXCEPT ![k] = @ + amount]

\* Mutant: the fee is taken out of the loan.
LendLessFee(k, amount, fee) ==
    /\ 0 < amount /\ amount <= wallet[RESERVOIR] /\ fee <= amount
    /\ wallet' = [wallet EXCEPT ![RESERVOIR] = (@ + fee) - amount]
    /\ held' = [held EXCEPT ![k] = @ + (amount - fee)]

\* The fee comes in and the loan goes out, into the tap; the liquidity is looked at
\* before the fee is paid.
Lend(k, amount, fee) ==
    /\ 0 < amount /\ amount <= wallet[RESERVOIR]
    /\ fee <= wallet[Holder(k)]
    /\ wallet' = [wallet EXCEPT ![Holder(k)] = @ - fee, ![RESERVOIR] = (@ + fee) - amount]
    /\ held' = [held EXCEPT ![k] = @ + amount]

\* The map keeps the last loan of a borrower.
BorrowLiquidity(k, amount, fee, my, poolBalance, nonce, myKey, poolKey) ==
    LET user == Holder(k)
    IN /\ poolInitialized
       /\ fee >= BorrowFee(amount)
       /\ Lend(k, amount, fee)
       /\ DepositToPipe(k, RESERVOIR, amount, poolBalance, my, nonce, poolKey, myKey)
       /\ borrowed' = [borrowed EXCEPT ![user] =
                          [amount |-> amount, until |-> height + BORROW_TERM_BLOCKS]]
       /\ lent' = [lent EXCEPT ![user][height] = @ + amount]
       /\ UNCHANGED <<poolInitialized, borrowRate>>

--------------------------------------------------------------------------------
(* The next-state relation *)

\* A call on tap k with signatures through the pool.
SignedTapCall(k) ==
    \E b \in BalancePairs, nonce \in Nonces, userKey, poolKey \in SigningKeys :
        \/ \E validAfter \in ValidAfters :
              ForceCloseTap(k, b[1], b[2], nonce, validAfter, userKey, poolKey)
        \/ \E amount \in Amounts :
              \/ ReturnLiquidity(k, amount, b[1], b[2], nonce, userKey, poolKey)
              \/ AddFunds(k, amount, b[1], b[2], nonce, userKey, poolKey)
              \/ \E fee \in Amounts :
                    BorrowLiquidity(k, amount, fee, b[1], b[2], nonce, userKey, poolKey)

\* dispute-closure-for the pool, by anybody with a signature of its agent.
DisputeForPool(k) ==
    \E b \in BalancePairs, nonce \in Nonces, validAfter \in ValidAfters,
       userKey, poolKey \in SigningKeys :
        DisputeClosure(k, RESERVOIR, b[1], b[2], nonce, validAfter, poolKey, userKey)

\* The StackFlow contract called by others than the pool.
OutsideCall ==
    /\ \/ BurnBlock
       \/ \E token \in Tokens : InitContract(Deployer, token)
       \/ \E k \in PipeKeys, p \in Principals \ {RESERVOIR} :
             \/ p \in Parties(k) /\ (SignedCall(k, p) \/ UnsignedCall(k, p))
             \/ Finalize(k, p)
       \/ \E k \in Taps : DisputeForPool(k)
    /\ UNCHANGED poolVars

PoolCall ==
    \/ \E rate \in Rates : Initialize(rate) \/ SetBorrowRate(rate)
    \/ \E agent \in SigningKeys : SetAgent(agent)
    \/ ClearAgent
    \/ \E amount \in Amounts :
          \/ AddLiquidity(amount)
          \/ \E recipient \in Principals : WithdrawLiquidity(amount, recipient)
    \/ \E k \in Taps :
          \/ SignedTapCall(k)
          \/ ForceCancelTap(k)
          \/ \E amount \in Amounts, nonce \in Nonces : CreateTap(k, amount, nonce)

PoolNext == PoolCall \/ OutsideCall

PoolSpec == PoolInit /\ [][PoolNext]_allVars

--------------------------------------------------------------------------------
(* Properties *)

\* Types; the pool never lends or pays out what it does not have.
PoolTypeOK ==
    /\ TypeOK
    /\ poolInitialized \in BOOLEAN
    /\ borrowRate \in Nat
    /\ borrowed \in [Principals -> Loan]
    /\ lent \in [Principals -> [0..Horizon -> Nat]]

\* Blocks whose loans are in their term: the last one of it included.
InTerm == {h \in 0..Horizon : h <= height /\ height <= h + BORROW_TERM_BLOCKS}

ClosedByPool(k) == pipes[k].closer # RESERVOIR /\ pipes'[k].closer = RESERVOIR

\* "The reservoir cannot attempt to force-cancel a tap that has borrowed liquidity":
\* while any loan of the holder is in its term, also one that a later loan replaced in
\* the map, the pool starts no closure of the tap.
TermHonoured ==
    [][\A k \in Taps : ClosedByPool(k) => \A h \in InTerm : lent[Holder(k)][h] = 0]_allVars

\* Without an agent nobody agrees for the pool: what changes its taps is then a
\* deposit by the holder, a forced closure without signatures, or its end.
AgreesWithoutAgent(k) ==
    /\ agents[RESERVOIR] = NoPrincipal
    /\ k \in mapped /\ pipes'[k].nonce # pipes[k].nonce

AgreementsNeedAgent == [][\A k \in Taps : ~AgreesWithoutAgent(k)]_allVars

PoolSide(k, pipe) ==
    IF k.principal1 = RESERVOIR THEN pipe.balance1 ELSE pipe.balance2

\* "The reservoir cannot attempt to return liquidity that is still borrowed": what a
\* return leaves on the pool's side covers the loans of the holder in their term.
ReturnKeepsLoans(k) ==
    (event' # event /\ event'.type = "withdraw"
        /\ event'.key = k /\ event'.sender = RESERVOIR)
    => PoolSide(k, pipes'[k]) >= SumFunctionOnSet(lent[Holder(k)], InTerm)

ReturnsKeepLoans == [][\A k \in Taps : ReturnKeepsLoans(k)]_allVars

================================================================================
