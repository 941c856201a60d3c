--------------------------- MODULE StackflowContract ---------------------------
(***************************************************************************)
(* The Clarity contract contracts/stackflow.clar: the escrow behind every  *)
(* payment pipe.  A transaction is one action, as on the chain: it runs to *)
(* its end or aborts without effect, so each assertion, try! and abort of  *)
(* the code is a guard.                                                    *)
(*                                                                         *)
(* The off-chain world is the most general one: any caller may present any *)
(* balances with signatures of any keys.  A signature is represented by    *)
(* the key recovered from it over the message the call itself builds; the  *)
(* fields that only enter the hash (action, actor, secret of force-close   *)
(* and dispute-closure) are therefore left out.                            *)
(***************************************************************************)
EXTENDS Integers, Functions

CONSTANTS
    Principals,           \* everybody who may call the contract or own a pipe
    ContractPrincipals,   \* those of them that are contracts
    SigningKeys,          \* standard principals whose keys exist
    NoPrincipal,          \* Clarity's none, where a principal is optional
    Deployer,             \* CONTRACT_DEPLOYER
    Tokens,               \* the tokens, STX included
    STX,                  \* `none' as a token
    PipeKeys,             \* canonical pipe keys
    InitialWallet,        \* tokens each principal owns outside the contract
    WAITING_PERIOD,
    CONFIRMATION_DEPTH,
    MAX_HEIGHT,           \* expires-at of a pipe that is not closing
    MaxAmount,            \* bound: amounts and balances that callers present
    MaxNonce,             \* bound: nonces that callers present
    ValidAfters,          \* bound: valid-after heights that callers present
    Horizon               \* bound: last burn block

ASSUME PrincipalAssumption ==
    /\ ContractPrincipals \subseteq Principals
    /\ SigningKeys \subseteq Principals \ ContractPrincipals
    /\ NoPrincipal \notin Principals
    /\ Deployer \in Principals
    /\ STX \in Tokens
    /\ InitialWallet \in [Principals -> Nat]

ASSUME KeyAssumption ==
    PipeKeys \subseteq [token : Tokens, principal1 : Principals, principal2 : Principals]

ASSUME HeightAssumption ==
    /\ WAITING_PERIOD \in Nat
    /\ CONFIRMATION_DEPTH \in Nat
    /\ Horizon \in Nat
    /\ MaxAmount \in Nat
    /\ MaxNonce \in Nat
    /\ ValidAfters \subseteq Nat \cup {-1}
    /\ MAX_HEIGHT \in Nat
    /\ Horizon + WAITING_PERIOD < MAX_HEIGHT

VARIABLES
    initialized,      \* data-var initialized
    supportedToken,   \* data-var supported-token
    agents,           \* map agents
    mapped,           \* the keys present in map pipes
    pipes,            \* the values of map pipes
    wallet,           \* tokens of each principal outside the contract
    held,             \* tokens that came into the contract through each pipe
    height,           \* burn-block-height
    event             \* what the last transaction printed

adminVars == <<initialized, supportedToken, agents>>
vars == <<initialized, supportedToken, agents, mapped, pipes, wallet, held, height, event>>

--------------------------------------------------------------------------------
(* Data *)

NoPending == [amount |-> 0, burnHeight |-> 0]
Pending == [amount : Nat, burnHeight : Nat]

Pipe == [balance1 : Nat, balance2 : Nat, pending1 : Pending, pending2 : Pending,
         expiresAt : Nat, nonce : Nat, closer : Principals \cup {NoPrincipal}]

\* The pipe that close-pipe and dispute-closure print.
ClosedPipe(b1, b2, nonce) ==
    [balance1 |-> b1, balance2 |-> b2, pending1 |-> NoPending, pending2 |-> NoPending,
     expiresAt |-> MAX_HEIGHT, nonce |-> nonce, closer |-> NoPrincipal]

\* What fund-pipe creates and what reset-pipe leaves behind.
EmptyPipe(nonce) == ClosedPipe(0, 0, nonce)

NoEvent == [type |-> "none"]
EventTypes == {"fund-pipe", "close-pipe", "force-cancel", "force-close",
               "dispute-closure", "finalize", "deposit", "withdraw"}
Event == [type : EventTypes, key : PipeKeys, pipe : Pipe, sender : Principals]

\* valid-after is optional; none is a height no block has.
NoHeight == -1

Parties(k) == {k.principal1, k.principal2}
Other(k, p) == IF p = k.principal1 THEN k.principal2 ELSE k.principal1

MapBalances(for, k, my, their) ==
    IF for = k.principal1 THEN [b1 |-> my, b2 |-> their] ELSE [b1 |-> their, b2 |-> my]

--------------------------------------------------------------------------------
(* Balances and pending deposits *)

CalculateBalances(confirmed, pending, at) ==
    IF at >= pending.burnHeight
    THEN [confirmed |-> confirmed + pending.amount, pending |-> 0]
    ELSE [confirmed |-> confirmed, pending |-> pending.amount]

PipeBalanceState(p, at) ==
    LET side1 == CalculateBalances(p.balance1, p.pending1, at)
        side2 == CalculateBalances(p.balance2, p.pending2, at)
    IN [confirmed1 |-> side1.confirmed, confirmed2 |-> side2.confirmed,
        pending1 |-> side1.pending, pending2 |-> side2.pending,
        confirmedTotal |-> side1.confirmed + side2.confirmed,
        pendingTotal |-> side1.pending + side2.pending]

\* Mutant: a deposit settles one block early.
MatureEarly(pending) == height + 1 >= pending.burnHeight

Mature(pending) == height >= pending.burnHeight

\* Mutant: a deposit that joined the balance stays pending.
SettledPendingKept(pending) == pending

\* Pending deposits whose burn height is reached join the balances.
SettledBalance(balance, pending) == IF Mature(pending) THEN balance + pending.amount ELSE balance
SettledPending(pending) == IF Mature(pending) THEN NoPending ELSE pending

SettlePending(p) ==
    [p EXCEPT !.balance1 = SettledBalance(p.balance1, p.pending1),
              !.balance2 = SettledBalance(p.balance2, p.pending2),
              !.pending1 = SettledPending(p.pending1),
              !.pending2 = SettledPending(p.pending2)]

IsFunded(account, k, p) ==
    \/ account = k.principal1 /\ p.balance1 > 0
    \/ account = k.principal2 /\ p.balance2 > 0

PendingOf(p, k, account) == IF account = k.principal1 THEN p.pending1 ELSE p.pending2

AddPending(p, k, sender, amount) ==
    LET pending == [amount |-> amount, burnHeight |-> height + CONFIRMATION_DEPTH]
    IN IF sender = k.principal1 THEN [p EXCEPT !.pending1 = pending]
                                ELSE [p EXCEPT !.pending2 = pending]

\* Mutant: only the first side is looked at.
HasPendingFirst(p) == p.pending1 # NoPending

HasPending(p) == p.pending1 # NoPending \/ p.pending2 # NoPending

--------------------------------------------------------------------------------
(* Validation *)

HeightOf(validAfter) == IF validAfter = NoHeight THEN height ELSE validAfter

BalanceCheck(p, b1, b2, validAfter) ==
    LET state == PipeBalanceState(p, HeightOf(validAfter))
    IN /\ b1 + b2 = state.confirmedTotal + state.pendingTotal
       /\ b1 <= state.confirmed1 + state.pending1 + state.confirmed2
       /\ b2 <= state.confirmed2 + state.pending2 + state.confirmed1

DepositCheck(p, k, b1, b2, actor, amount, validAfter) ==
    LET state == PipeBalanceState(p, HeightOf(validAfter))
    IN /\ actor \in Parties(k)
       /\ p.closer = NoPrincipal
       /\ (IF actor = k.principal1 THEN b1 ELSE b2) >= amount
       /\ (IF actor = k.principal1 THEN state.pending1 ELSE state.pending2) = 0
       /\ b1 + b2 = state.confirmedTotal + state.pendingTotal + amount

WithdrawalCheck(p, k, b1, b2, actor, amount, validAfter) ==
    LET state == PipeBalanceState(p, HeightOf(validAfter))
    IN /\ actor \in Parties(k)
       /\ p.closer = NoPrincipal
       /\ state.confirmedTotal >= amount
       /\ b1 + b2 = state.confirmedTotal - amount

CloseCheck(p, b1, b2, validAfter) ==
    LET state == PipeBalanceState(p, HeightOf(validAfter))
    IN /\ state.pendingTotal = 0
       /\ b1 + b2 = state.confirmedTotal

\* Mutant: the nonce may repeat.
NonceCheckLoose(p, nonce) == nonce >= p.nonce

NonceCheck(p, nonce) == nonce > p.nonce

\* Mutant: the recovered key is not compared.
VerifyHashSignatureAny(recovered, signer) == recovered # NoPrincipal

\* A contract principal cannot sign; the agent it registered signs for it.
VerifyHashSignature(recovered, signer) ==
    /\ recovered # NoPrincipal
    /\ \/ recovered = signer
       \/ /\ signer \in ContractPrincipals
          /\ agents[signer] = recovered

VerifySignatures(p, b1, b2, validAfter, key1, signer1, key2, signer2) ==
    /\ BalanceCheck(p, b1, b2, validAfter)
    /\ VerifyHashSignature(key1, signer1)
    /\ VerifyHashSignature(key2, signer2)

(* The read-only functions with which a peer checks a message beforehand. *)

VerifySignature(k, signer, b1, b2, nonce, validAfter, key) ==
    /\ k \in mapped
    /\ BalanceCheck(pipes[k], b1, b2, validAfter)
    /\ NonceCheck(pipes[k], nonce)
    /\ VerifyHashSignature(key, signer)

ValidateTransition(k, b1, b2, nonce, action, actor, amount, validAfter) ==
    /\ k \in mapped
    /\ NonceCheck(pipes[k], nonce)
    /\ CASE action = "deposit" -> DepositCheck(pipes[k], k, b1, b2, actor, amount, validAfter)
         [] action = "withdraw" -> WithdrawalCheck(pipes[k], k, b1, b2, actor, amount, validAfter)
         [] action = "close" -> CloseCheck(pipes[k], b1, b2, validAfter)
         [] OTHER -> BalanceCheck(pipes[k], b1, b2, validAfter)

VerifySignatureRequest(k, signer, b1, b2, nonce, action, actor, amount, validAfter, key) ==
    /\ ValidateTransition(k, b1, b2, nonce, action, actor, amount, validAfter)
    /\ VerifyHashSignature(key, signer)

--------------------------------------------------------------------------------
(* Effects *)

\* The contract moves a single token: a pipe of another one holds nothing.
ContractBalance == SumFunctionOnSet(held, PipeKeys)

\* Mutant: the sender's funds are not checked.
TransferInUnchecked(k, sender, amount) ==
    /\ 0 < amount
    /\ wallet' = [wallet EXCEPT ![sender] = @ - amount]
    /\ held' = [held EXCEPT ![k] = @ + amount]

\* A transfer of nothing, or of more than the sender has, is an error of the token.
TransferIn(k, sender, amount) ==
    /\ 0 < amount /\ amount <= wallet[sender]
    /\ wallet' = [wallet EXCEPT ![sender] = @ - amount]
    /\ held' = [held EXCEPT ![k] = @ + amount]

\* payout skips a transfer of nothing.
Payout(k, a, amountA, b, amountB) ==
    /\ amountA + amountB <= ContractBalance
    /\ wallet' = [wallet EXCEPT ![a] = @ + amountA, ![b] = @ + amountB]
    /\ held' = [held EXCEPT ![k] = @ - (amountA + amountB)]

ExecuteWithdraw(k, sender, amount) ==
    /\ 0 < amount /\ amount <= ContractBalance
    /\ wallet' = [wallet EXCEPT ![sender] = @ + amount]
    /\ held' = [held EXCEPT ![k] = @ - amount]

StorePipe(k, p) == pipes' = [pipes EXCEPT ![k] = p]

ResetPipe(k, nonce) == StorePipe(k, EmptyPipe(nonce))

Emit(type, k, p, sender) ==
    event' = [type |-> type, key |-> k, pipe |-> p, sender |-> sender]

--------------------------------------------------------------------------------
(* Public functions *)

Init ==
    /\ initialized = FALSE
    /\ supportedToken = STX
    /\ agents = [p \in ContractPrincipals |-> NoPrincipal]
    /\ mapped = {}
    /\ pipes = [k \in PipeKeys |-> EmptyPipe(0)]
    /\ wallet = InitialWallet
    /\ held = [k \in PipeKeys |-> 0]
    /\ height = 0
    /\ event = NoEvent

InitContract(sender, token) ==
    /\ ~initialized
    /\ sender = Deployer
    /\ supportedToken' = token
    /\ initialized' = TRUE
    /\ event' = NoEvent
    /\ UNCHANGED <<agents, mapped, pipes, wallet, held, height>>

RegisterAgent(caller, agent) ==
    /\ caller \in ContractPrincipals
    /\ agents' = [agents EXCEPT ![caller] = agent]
    /\ event' = NoEvent
    /\ UNCHANGED <<initialized, supportedToken, mapped, pipes, wallet, held, height>>

DeregisterAgent(caller) ==
    /\ caller \in ContractPrincipals
    /\ agents' = [agents EXCEPT ![caller] = NoPrincipal]
    /\ event' = NoEvent
    /\ UNCHANGED <<initialized, supportedToken, mapped, pipes, wallet, held, height>>

\* The nonce of an existing pipe is compared and kept: only a new pipe takes it.
FundPipe(k, sender, amount, nonce) ==
    LET pipe == IF k \in mapped THEN pipes[k] ELSE EmptyPipe(nonce)
        settled == SettlePending(pipe)
        updated == AddPending(settled, k, sender, amount)
    IN /\ initialized
       /\ k.token = supportedToken
       /\ sender # Other(k, sender)
       /\ TransferIn(k, sender, amount)
       /\ PendingOf(settled, k, sender) = NoPending
       /\ nonce >= pipe.nonce
       /\ settled.closer = NoPrincipal
       /\ ~IsFunded(sender, k, updated)
       /\ StorePipe(k, updated)
       /\ mapped' = mapped \cup {k}
       /\ Emit("fund-pipe", k, updated, sender)
       /\ UNCHANGED <<adminVars, height>>

\* Allowed while a forced closure is in progress.
ClosePipe(k, sender, my, their, nonce, key1, key2) ==
    LET with == Other(k, sender)
        signed == MapBalances(sender, k, my, their)
    IN /\ k \in mapped
       /\ ValidateTransition(k, signed.b1, signed.b2, nonce, "close", sender, 0, NoHeight)
       /\ VerifySignatures(pipes[k], signed.b1, signed.b2, NoHeight,
                           key1, sender, key2, with)
       /\ ResetPipe(k, nonce)
       /\ Emit("close-pipe", k, ClosedPipe(signed.b1, signed.b2, nonce), sender)
       /\ Payout(k, sender, my, with, their)
       /\ UNCHANGED <<adminVars, mapped, height>>

\* Mutant: a closure in progress may be started again.
ForceCancelAgain(k, sender) ==
    LET settled == SettlePending(pipes[k])
    IN /\ k \in mapped
       /\ ~HasPending(settled)
       /\ StorePipe(k, [settled EXCEPT !.expiresAt = height + WAITING_PERIOD,
                                       !.closer = sender])
       /\ Emit("force-cancel", k, settled, sender)
       /\ UNCHANGED <<adminVars, mapped, wallet, held, height>>

\* The event carries the settled pipe, not the one that is stored.
ForceCancel(k, sender) ==
    LET settled == SettlePending(pipes[k])
    IN /\ k \in mapped
       /\ settled.closer = NoPrincipal
       /\ ~HasPending(settled)
       /\ StorePipe(k, [settled EXCEPT !.expiresAt = height + WAITING_PERIOD,
                                       !.closer = sender])
       /\ Emit("force-cancel", k, settled, sender)
       /\ UNCHANGED <<adminVars, mapped, wallet, held, height>>

ForceClose(k, sender, my, their, nonce, validAfter, key1, key2) ==
    LET settled == SettlePending(pipes[k])
        signed == MapBalances(sender, k, my, their)
        closing == [ClosedPipe(signed.b1, signed.b2, nonce) EXCEPT
                        !.expiresAt = height + WAITING_PERIOD, !.closer = sender]
    IN /\ k \in mapped
       /\ settled.closer = NoPrincipal
       /\ ~HasPending(settled)
       /\ NonceCheck(pipes[k], nonce)
       /\ validAfter <= height
       /\ my + their = settled.balance1 + settled.balance2
       /\ VerifySignatures(pipes[k], signed.b1, signed.b2, validAfter,
                           key1, sender, key2, Other(k, sender))
       /\ StorePipe(k, closing)
       /\ Emit("force-close", k, closing, sender)
       /\ UNCHANGED <<adminVars, mapped, wallet, held, height>>

\* dispute-closure (for = tx-sender) and dispute-closure-for (anyone, for `for').
DisputeClosure(k, for, my, their, nonce, validAfter, key1, key2) ==
    LET with == Other(k, for)
        signed == MapBalances(for, k, my, their)
    IN /\ k \in mapped
       /\ pipes[k].closer \notin {NoPrincipal, for}
       /\ height < pipes[k].expiresAt
       /\ NonceCheck(pipes[k], nonce)
       /\ validAfter <= height
       /\ my + their = pipes[k].balance1 + pipes[k].balance2
       /\ VerifySignatures(pipes[k], signed.b1, signed.b2, validAfter,
                           key1, for, key2, with)
       /\ ResetPipe(k, nonce)
       /\ Emit("dispute-closure", k, ClosedPipe(signed.b1, signed.b2, nonce), for)
       /\ Payout(k, for, my, with, their)
       /\ UNCHANGED <<adminVars, mapped, height>>

FinalizeWhen(k, sender, expired) ==
    /\ k \in mapped
    /\ pipes[k].closer # NoPrincipal
    /\ expired
    /\ ResetPipe(k, pipes[k].nonce)
    /\ Emit("finalize", k, pipes[k], sender)
    /\ Payout(k, k.principal1, pipes[k].balance1, k.principal2, pipes[k].balance2)
    /\ UNCHANGED <<adminVars, mapped, height>>

\* Mutants: no waiting, and a block too long.
FinalizeAtOnce(k, sender) == FinalizeWhen(k, sender, TRUE)
FinalizeLate(k, sender) == FinalizeWhen(k, sender, height > pipes[k].expiresAt)

\* finalize and finalize-for: anyone, for either party.
Finalize(k, sender) == FinalizeWhen(k, sender, height >= pipes[k].expiresAt)

\* The confirmed balances that `deposit' derives from the signed ones, which
\* already contain the deposit.
PreBalances(settled, k, sender, my, their, amount) ==
    IF sender = k.principal1
    THEN [b1 |-> my - amount, b2 |-> their - settled.pending2.amount]
    ELSE [b1 |-> their - settled.pending1.amount, b2 |-> my - amount]

\* A negative uint aborts the transaction.
NoUnderflow(pre) == pre.b1 >= 0 /\ pre.b2 >= 0

\* Signatures are verified against the pipe as just stored; the event carries
\* the old balances and nonce.
DepositToPipe(k, sender, amount, my, their, nonce, key1, key2) ==
    LET signed == MapBalances(sender, k, my, their)
        settled == SettlePending(pipes[k])
        pre == PreBalances(settled, k, sender, my, their, amount)
        updated == AddPending(settled, k, sender, amount)
        result == [updated EXCEPT !.balance1 = pre.b1, !.balance2 = pre.b2, !.nonce = nonce]
    IN /\ k \in mapped
       /\ ValidateTransition(k, signed.b1, signed.b2, nonce, "deposit", sender, amount, NoHeight)
       /\ NoUnderflow(pre)
       /\ PendingOf(settled, k, sender) = NoPending
       /\ StorePipe(k, result)
       /\ VerifySignatures(result, signed.b1, signed.b2, NoHeight,
                           key1, sender, key2, Other(k, sender))
       /\ Emit("deposit", k, updated, sender)
       /\ UNCHANGED <<adminVars, mapped, height>>

Deposit(k, sender, amount, my, their, nonce, key1, key2) ==
    /\ DepositToPipe(k, sender, amount, my, their, nonce, key1, key2)
    /\ TransferIn(k, sender, amount)

WithdrawnPipe(k, b1, b2, nonce) ==
    [SettlePending(pipes[k]) EXCEPT !.balance1 = b1, !.balance2 = b2, !.nonce = nonce]

\* Here too signatures, and with them the balances, are verified against the pipe
\* as just stored.
Withdraw(k, sender, amount, my, their, nonce, key1, key2) ==
    LET signed == MapBalances(sender, k, my, their)
        updated == WithdrawnPipe(k, signed.b1, signed.b2, nonce)
    IN /\ k \in mapped
       /\ ValidateTransition(k, signed.b1, signed.b2, nonce, "withdraw", sender, amount, NoHeight)
       /\ StorePipe(k, updated)
       /\ VerifySignatures(updated, signed.b1, signed.b2, NoHeight,
                           key1, sender, key2, Other(k, sender))
       /\ ExecuteWithdraw(k, sender, amount)
       /\ Emit("withdraw", k, updated, sender)
       /\ UNCHANGED <<adminVars, mapped, height>>

\* A Bitcoin block.
BurnBlock ==
    /\ height < Horizon
    /\ height' = height + 1
    /\ event' = NoEvent
    /\ UNCHANGED <<adminVars, mapped, pipes, wallet, held>>

--------------------------------------------------------------------------------
(* The next-state relation *)

Amounts == 0..MaxAmount
Nonces == 0..MaxNonce
\* No more than MaxAmount in all: a pipe never holds more.
BalancePairs == {b \in Amounts \X Amounts : b[1] + b[2] <= MaxAmount}

Admin ==
    \E p \in Principals :
        \/ \E token \in Tokens : InitContract(p, token)
        \/ \E agent \in Principals : RegisterAgent(p, agent)
        \/ DeregisterAgent(p)

\* A transaction of party p on pipe k that carries signatures.
SignedCall(k, p) ==
    \E b \in BalancePairs, nonce \in Nonces, key1, key2 \in SigningKeys :
        \/ ClosePipe(k, p, b[1], b[2], nonce, key1, key2)
        \/ \E validAfter \in ValidAfters :
              \/ ForceClose(k, p, b[1], b[2], nonce, validAfter, key1, key2)
              \/ DisputeClosure(k, p, b[1], b[2], nonce, validAfter, key1, key2)
        \/ \E amount \in Amounts :
              \/ Deposit(k, p, amount, b[1], b[2], nonce, key1, key2)
              \/ Withdraw(k, p, amount, b[1], b[2], nonce, key1, key2)

UnsignedCall(k, p) ==
    \/ \E amount \in Amounts, nonce \in Nonces : FundPipe(k, p, amount, nonce)
    \/ ForceCancel(k, p)

PipeCall(k) ==
    \/ \E p \in Parties(k) : SignedCall(k, p) \/ UnsignedCall(k, p)
    \/ \E p \in Principals : Finalize(k, p)

Next == BurnBlock \/ Admin \/ \E k \in PipeKeys : PipeCall(k)

Spec == Init /\ [][Next]_vars

\* Bitcoin goes on producing blocks, and somebody (either party, a watchtower or
\* anyone else: finalize-for is permissionless) finalizes an expired closure.
Fairness ==
    /\ WF_vars(BurnBlock)
    /\ \A k \in PipeKeys : WF_vars(\E p \in Principals : Finalize(k, p))

FairSpec == Spec /\ Fairness

--------------------------------------------------------------------------------
(* Properties *)

\* Types of the contract's maps and of what the model adds to them.
TypeOK ==
    /\ initialized \in BOOLEAN
    /\ supportedToken \in Tokens
    /\ agents \in [ContractPrincipals -> Principals \cup {NoPrincipal}]
    /\ mapped \subseteq PipeKeys
    /\ pipes \in [PipeKeys -> Pipe]
    /\ wallet \in [Principals -> Nat]
    /\ held \in [PipeKeys -> Int]
    /\ height \in 0..Horizon
    /\ event = NoEvent \/ event \in Event

Claims(p) == p.balance1 + p.balance2 + p.pending1.amount + p.pending2.amount

\* What came in through a pipe and has not left is what its two sides can claim,
\* confirmed or pending: payouts never use another pipe's tokens, and nothing is
\* stranded.  fund-pipe, deposit (whose balances are computed back from the signed
\* ones), withdraw and the three payouts all have to agree on it.
EscrowBacksPipes == \A k \in PipeKeys : held[k] = Claims(pipes[k])

\* A closing pipe has no pending deposit: finalize and dispute-closure pay the raw
\* balances and reset the pipe, so one would be lost.  It has a closer among its
\* parties and an expiry that is set, and both are cleared together.
ClosureWellFormed ==
    \A k \in PipeKeys :
        LET p == pipes[k]
        IN /\ p.closer = NoPrincipal <=> p.expiresAt = MAX_HEIGHT
           /\ p.closer # NoPrincipal =>
                /\ p.closer \in Parties(k)
                /\ p.pending1 = NoPending /\ p.pending2 = NoPending
                /\ p.expiresAt <= height + WAITING_PERIOD

\* Only pipes of the supported token exist, as execute-withdraw assumes ("the
\* token contract has already been verified (by finding the corresponding pipe)").
PipesUseSupportedToken ==
    \A k \in mapped : initialized /\ k.token = supportedToken

SignedEvents == {"close-pipe", "force-close", "dispute-closure", "deposit", "withdraw"}

NonceRises(k) ==
    /\ pipes'[k].nonce >= pipes[k].nonce
    /\ pipes'[k] # pipes[k] /\ event'.type \in SignedEvents
           => pipes'[k].nonce > pipes[k].nonce

\* No replay: the nonce of a pipe never falls, through all its lives, and every call
\* that consumes a signed message raises it, so none is consumed twice.
NoncesRise == [][\A k \in PipeKeys : NonceRises(k)]_vars

EndsInPayout(k) ==
    pipes[k].closer # NoPrincipal /\ pipes'[k] # pipes[k] =>
        /\ pipes'[k] = EmptyPipe(pipes'[k].nonce)
        /\ held'[k] = 0
        /\ height < pipes[k].expiresAt => pipes'[k].nonce > pipes[k].nonce

\* A forced closure is never altered or prolonged.  It ends in a reset that pays
\* out all the pipe holds: before the expiry only through a message newer than the
\* balances it would pay (a dispute or an agreed close), later also by finalize.
ClosureEndsInPayout == [][\A k \in PipeKeys : EndsInPayout(k)]_vars

UnconfirmedStay(k) ==
    /\ height < pipes[k].pending1.burnHeight => pipes'[k].pending1 = pipes[k].pending1
    /\ height < pipes[k].pending2.burnHeight => pipes'[k].pending2 = pipes[k].pending2
    /\ height < pipes[k].pending1.burnHeight \/ height < pipes[k].pending2.burnHeight
           => pipes'[k].closer = NoPrincipal

\* A deposit is kept, unspent, until it has CONFIRMATION_DEPTH blocks: until then no
\* call changes it, closes the pipe or starts its closure.
UnconfirmedDepositsStay == [][\A k \in PipeKeys : UnconfirmedStay(k)]_vars

\* A forced closure is resolved: both parties are paid without either one's help.
\* (Those that expire within the modelled horizon.)
ClosuresResolve ==
    \A k \in PipeKeys :
        (pipes[k].closer # NoPrincipal /\ pipes[k].expiresAt <= Horizon)
            ~> (pipes[k].closer = NoPrincipal)

\* A withdrawal that verify-signature-request confirms to a peer is one that
\* `withdraw' then accepts on the same pipe, as its comment says ("amount is
\* required to match the same balance equations enforced by the corresponding
\* public functions").
WithdrawRequestHonoured ==
    \A k \in mapped, b \in BalancePairs, nonce \in Nonces, amount \in Amounts \ {0} :
        \A p \in Parties(k) :
            VerifySignatureRequest(k, p, b[1], b[2], nonce, "withdraw", p, amount, NoHeight, p)
                => BalanceCheck(WithdrawnPipe(k, b[1], b[2], nonce), b[1], b[2], NoHeight)

(* The contract as the escrow of PipeEscrow: what the sides can claim is what is
   locked, the nonce is the version and expires-at the deadline. *)
Locked == [k \in PipeKeys |-> Claims(pipes[k])]
Version == [k \in PipeKeys |-> pipes[k].nonce]
Deadline == [k \in PipeKeys |-> pipes[k].expiresAt]

Escrow == INSTANCE PipeEscrow WITH
    Pipes <- PipeKeys,
    WaitingPeriod <- WAITING_PERIOD, Never <- MAX_HEIGHT,
    MaxVersion <- MaxNonce, LastTime <- Horizon,
    locked <- Locked, version <- Version, deadline <- Deadline, time <- height

\* Every transaction is a step of the escrow or leaves it alone: tokens come in from
\* a party and go out to the parties alone, by an agreement newer than every earlier
\* one or by a notice that waited its time.
ImplementsEscrow == Escrow!Spec

================================================================================
