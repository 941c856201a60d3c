------------------------ MODULE StackflowContractProofs ------------------------
(* Proofs about StackflowContract, for every value of its constants. *)
EXTENDS StackflowContract, TLAPS

--------------------------------------------------------------------------------
(* Lemmas about the operators on pipes *)

\* The heights of a run are naturals below the sentinel MAX_HEIGHT.
LEMMA Heights ==
    ASSUME height \in 0..Horizon
    PROVE  /\ height \in Nat
           /\ height + WAITING_PERIOD \in Nat
           /\ height + CONFIRMATION_DEPTH \in Nat
           /\ height + WAITING_PERIOD < MAX_HEIGHT
           /\ MAX_HEIGHT \in Nat
  BY HeightAssumption

\* A reset pipe is a pipe, and nobody has a claim on it.
LEMMA EmptyPipeFacts ==
    ASSUME NEW nonce \in Nat
    PROVE  EmptyPipe(nonce) \in Pipe /\ Claims(EmptyPipe(nonce)) = 0
  BY HeightAssumption DEF EmptyPipe, ClosedPipe, Pipe, Pending, NoPending, Claims

\* Settling one side keeps what it can claim.
LEMMA SideFacts ==
    ASSUME NEW b \in Nat, NEW q \in Pending, height \in Nat
    PROVE  /\ SettledBalance(b, q) \in Nat
           /\ SettledPending(q) \in Pending
           /\ SettledBalance(b, q) + SettledPending(q).amount = b + q.amount
           /\ CalculateBalances(b, q, height) = [confirmed |-> SettledBalance(b, q),
                                                pending |-> SettledPending(q).amount]
  BY DEF SettledBalance, SettledPending, Mature, NoPending, Pending, CalculateBalances

\* Settling a pipe changes the named fields and no other.
LEMMA SettleFields ==
    ASSUME NEW p \in Pipe
    PROVE  /\ SettlePending(p).balance1 = SettledBalance(p.balance1, p.pending1)
           /\ SettlePending(p).balance2 = SettledBalance(p.balance2, p.pending2)
           /\ SettlePending(p).pending1 = SettledPending(p.pending1)
           /\ SettlePending(p).pending2 = SettledPending(p.pending2)
           /\ SettlePending(p).nonce = p.nonce
           /\ SettlePending(p).closer = p.closer
           /\ SettlePending(p).expiresAt = p.expiresAt
  BY DEF SettlePending, Pipe

\* Settling moves pending deposits into balances and changes nothing else: the
\* claims, the nonce and the closure of the pipe are kept.
LEMMA SettleFacts ==
    ASSUME NEW p \in Pipe, height \in Nat
    PROVE  /\ SettlePending(p) \in Pipe
           /\ Claims(SettlePending(p)) = Claims(p)
           /\ PipeBalanceState(p, height).confirmed1 = SettlePending(p).balance1
           /\ PipeBalanceState(p, height).confirmed2 = SettlePending(p).balance2
           /\ PipeBalanceState(p, height).pending1 = SettlePending(p).pending1.amount
           /\ PipeBalanceState(p, height).pending2 = SettlePending(p).pending2.amount
  <1>1. p.balance1 \in Nat /\ p.balance2 \in Nat /\ p.pending1 \in Pending /\ p.pending2 \in Pending
    BY DEF Pipe
  <1>2. p.pending1.amount \in Nat /\ p.pending2.amount \in Nat
    BY <1>1 DEF Pending
  <1>3. SettlePending(p) \in Pipe
    BY <1>1, SideFacts DEF SettlePending, Pipe
  <1>4. Claims(SettlePending(p)) = Claims(p)
    <2>1. SettledBalance(p.balance1, p.pending1) + SettledPending(p.pending1).amount
            = p.balance1 + p.pending1.amount
      BY <1>1, SideFacts
    <2>2. SettledBalance(p.balance2, p.pending2) + SettledPending(p.pending2).amount
            = p.balance2 + p.pending2.amount
      BY <1>1, SideFacts
    <2>3. /\ SettledBalance(p.balance1, p.pending1) \in Nat
          /\ SettledBalance(p.balance2, p.pending2) \in Nat
          /\ SettledPending(p.pending1).amount \in Nat
          /\ SettledPending(p.pending2).amount \in Nat
      BY <1>1, SideFacts DEF Pending
    <2>4. Claims(SettlePending(p)) = SettledBalance(p.balance1, p.pending1)
             + SettledBalance(p.balance2, p.pending2)
             + SettledPending(p.pending1).amount + SettledPending(p.pending2).amount
      BY SettleFields DEF Claims
    <2>5. QED
      BY <1>1, <1>2, <2>1, <2>2, <2>3, <2>4 DEF Claims
  <1>5. /\ CalculateBalances(p.balance1, p.pending1, height)
             = [confirmed |-> SettledBalance(p.balance1, p.pending1),
                pending |-> SettledPending(p.pending1).amount]
        /\ CalculateBalances(p.balance2, p.pending2, height)
             = [confirmed |-> SettledBalance(p.balance2, p.pending2),
                pending |-> SettledPending(p.pending2).amount]
    BY <1>1, SideFacts
  <1>6. QED
    BY <1>3, <1>4, <1>5, SettleFields DEF PipeBalanceState

\* The totals of a balance state add up to the claims on the pipe.
LEMMA StateTotals ==
    ASSUME NEW p \in Pipe, NEW at \in Int
    PROVE  LET state == PipeBalanceState(p, at)
           IN /\ state.confirmedTotal \in Nat /\ state.pendingTotal \in Nat
              /\ state.confirmed1 \in Nat /\ state.confirmed2 \in Nat
              /\ state.pending1 \in Nat /\ state.pending2 \in Nat
              /\ state.confirmedTotal = state.confirmed1 + state.confirmed2
              /\ state.pendingTotal = state.pending1 + state.pending2
              /\ state.confirmedTotal + state.pendingTotal = Claims(p)
  BY DEF Pipe, Pending, Claims, PipeBalanceState, CalculateBalances

--------------------------------------------------------------------------------
(* The inductive invariant *)

\* A pipe that was never funded holds nothing and is not closing: fund-pipe starts
\* from an empty pipe when the map has none.
UnmappedPipesAreEmpty == \A k \in PipeKeys \ mapped : pipes[k] = EmptyPipe(0)

IInv ==
    /\ TypeOK
    /\ EscrowBacksPipes
    /\ ClosureWellFormed
    /\ PipesUseSupportedToken
    /\ UnmappedPipesAreEmpty
    /\ \A k \in PipeKeys : pipes[k].nonce \in Nonces

\* ClosureWellFormed of one pipe.
Closure(k, p) ==
    /\ p.closer = NoPrincipal <=> p.expiresAt = MAX_HEIGHT
    /\ p.closer # NoPrincipal =>
         /\ p.closer \in Parties(k)
         /\ p.pending1 = NoPending /\ p.pending2 = NoPending
         /\ p.expiresAt <= height + WAITING_PERIOD

\* What every transaction on a pipe does: it leaves pipe k as q, backed and well
\* formed, and touches no other pipe.
StepTo(k, q) ==
    /\ q \in Pipe
    /\ Closure(k, q)
    /\ pipes' = [pipes EXCEPT ![k] = q]
    /\ held' = [held EXCEPT ![k] = Claims(q)]
    /\ wallet' \in [Principals -> Nat]
    /\ event' \in Event
    /\ mapped' = mapped \cup {k}
    /\ initialized /\ k.token = supportedToken
    /\ UNCHANGED <<adminVars, height>>

\* Such a transaction preserves the invariant.
LEMMA StepPreserves ==
    ASSUME IInv, NEW k \in PipeKeys, NEW q, StepTo(k, q), q.nonce \in Nonces
    PROVE  IInv'
  <1> USE DEF IInv, StepTo
  <1>1. TypeOK'
    <2>1. Claims(q) \in Int
      BY DEF Claims, Pipe, Pending
    <2>2. QED
      BY <2>1 DEF TypeOK, adminVars
  <1>2. pipes'[k] = q /\ held'[k] = Claims(q)
    BY DEF TypeOK
  <1>3. \A j \in PipeKeys \ {k} : pipes'[j] = pipes[j] /\ held'[j] = held[j]
    BY DEF TypeOK
  <1>4. EscrowBacksPipes'
    BY <1>2, <1>3 DEF EscrowBacksPipes, Claims
  <1>5. ClosureWellFormed'
    BY <1>2, <1>3 DEF ClosureWellFormed, Closure
  <1>6. PipesUseSupportedToken' /\ UnmappedPipesAreEmpty'
    BY <1>3 DEF PipesUseSupportedToken, UnmappedPipesAreEmpty, adminVars, TypeOK, EmptyPipe
  <1>7. \A j \in PipeKeys : pipes'[j].nonce \in Nonces
    BY <1>2, <1>3
  <1>8. QED
    BY <1>1, <1>4, <1>5, <1>6, <1>7 DEF Nonces

\* What the invariant says of one pipe, in the form the steps use.
LEMMA PipeFacts ==
    ASSUME IInv, NEW k \in PipeKeys
    PROVE  /\ pipes[k] \in Pipe
           /\ held[k] = Claims(pipes[k])
           /\ Closure(k, pipes[k])
           /\ k \in mapped => initialized /\ k.token = supportedToken /\ mapped \cup {k} = mapped
           /\ height \in 0..Horizon
           /\ k.principal1 \in Principals /\ k.principal2 \in Principals
  BY KeyAssumption DEF IInv, TypeOK, EscrowBacksPipes, ClosureWellFormed, Closure,
       PipesUseSupportedToken

\* A reset pipe is well formed.
LEMMA EmptyClosure ==
    ASSUME NEW k, NEW nonce
    PROVE  Closure(k, EmptyPipe(nonce))
  BY DEF Closure, EmptyPipe, ClosedPipe

\* A payout of all claims on a pipe leaves the books of a reset pipe.
LEMMA PayoutFacts ==
    ASSUME IInv, NEW k \in PipeKeys, NEW a \in Principals, NEW b \in Principals,
           NEW x \in Nat, NEW y \in Nat, NEW nonce \in Nat,
           x + y = Claims(pipes[k]), Payout(k, a, x, b, y)
    PROVE  /\ wallet' \in [Principals -> Nat]
           /\ held' = [held EXCEPT ![k] = Claims(EmptyPipe(nonce))]
  <1>1. wallet \in [Principals -> Nat]
    BY DEF IInv, TypeOK
  <1>2. wallet' \in [Principals -> Nat]
    BY <1>1 DEF Payout
  <1>3. held[k] - (x + y) = 0
    BY PipeFacts, x + y \in Nat
  <1>4. QED
    BY <1>2, <1>3, EmptyPipeFacts DEF Payout

--------------------------------------------------------------------------------
(* Each transaction on a pipe is such a step *)

\* What a transaction prints is an event.
LEMMA EmitFacts ==
    ASSUME NEW type \in EventTypes, NEW k \in PipeKeys, NEW p \in Pipe,
           NEW sender \in Principals, Emit(type, k, p, sender)
    PROVE  event' \in Event
  BY DEF Emit, Event

\* Adding a pending deposit where there is none adds its amount to the claims.
LEMMA AddPendingFacts ==
    ASSUME NEW p \in Pipe, NEW k, NEW sender, NEW amount \in Nat, height \in 0..Horizon,
           PendingOf(p, k, sender) = NoPending
    PROVE  LET q == AddPending(p, k, sender, amount)
           IN /\ q \in Pipe
              /\ Claims(q) = Claims(p) + amount
              /\ q.closer = p.closer /\ q.expiresAt = p.expiresAt /\ q.nonce = p.nonce
              /\ q.balance1 = p.balance1 /\ q.balance2 = p.balance2
              /\ sender = k.principal1 => q.pending1.amount = amount /\ q.pending2 = p.pending2
              /\ sender # k.principal1 => q.pending2.amount = amount /\ q.pending1 = p.pending1
  <1>1. height + CONFIRMATION_DEPTH \in Nat
    BY Heights
  <1>2. CASE sender = k.principal1
    BY <1>1, <1>2 DEF AddPending, PendingOf, Pipe, Pending, Claims, NoPending
  <1>3. CASE sender # k.principal1
    BY <1>1, <1>3 DEF AddPending, PendingOf, Pipe, Pending, Claims, NoPending
  <1>4. QED
    BY <1>2, <1>3

\* A deposit leaves its sender's wallet a natural number.
LEMMA TransferInFacts ==
    ASSUME IInv, NEW k \in PipeKeys, NEW sender \in Principals, NEW amount \in Nat,
           TransferIn(k, sender, amount)
    PROVE  /\ wallet' \in [Principals -> Nat]
           /\ held' = [held EXCEPT ![k] = Claims(pipes[k]) + amount]
  <1>1. wallet \in [Principals -> Nat] /\ wallet[sender] - amount \in Nat
    BY DEF IInv, TypeOK, TransferIn
  <1>2. wallet' = [wallet EXCEPT ![sender] = wallet[sender] - amount]
    BY DEF TransferIn
  <1>3. wallet' \in [Principals -> Nat]
    BY <1>1, <1>2
  <1>4. QED
    BY <1>3, PipeFacts DEF TransferIn

\* fund-pipe: an open pipe stays open, with more in it.
LEMMA FundPipeStep ==
    ASSUME IInv, NEW k \in PipeKeys, NEW sender \in Principals, NEW amount \in Nat,
           NEW nonce \in Nat, FundPipe(k, sender, amount, nonce)
    PROVE  \E q \in Pipe : /\ StepTo(k, q)
                           /\ Claims(q) = Claims(pipes[k]) + amount
                           /\ q.closer = NoPrincipal
                           /\ q.nonce >= pipes[k].nonce
                           /\ q.nonce \in {nonce, pipes[k].nonce}
                           /\ pipes[k].closer = NoPrincipal
                           /\ TransferIn(k, sender, amount)
  <1> DEFINE pipe == IF k \in mapped THEN pipes[k] ELSE EmptyPipe(nonce)
             settled == SettlePending(pipe)
             q == AddPending(settled, k, sender, amount)
  <1>1. pipe \in Pipe /\ Claims(pipe) = Claims(pipes[k]) /\ Closure(k, pipe)
        /\ pipe.nonce >= pipes[k].nonce /\ pipe.nonce \in Nat
        /\ pipe.nonce \in {nonce, pipes[k].nonce}
        /\ pipe.closer = pipes[k].closer
    <2>1. CASE k \in mapped
      BY <2>1, PipeFacts DEF Pipe
    <2>2. CASE k \notin mapped
      <3>1. pipes[k] = EmptyPipe(0)
        BY <2>2 DEF IInv, UnmappedPipesAreEmpty
      <3>2. QED
        BY <2>2, <3>1, EmptyPipeFacts, EmptyClosure DEF EmptyPipe, ClosedPipe
    <2>3. QED
      BY <2>1, <2>2
  <1>2. height \in 0..Horizon /\ height \in Nat
    BY PipeFacts, Heights
  <1>3. /\ settled \in Pipe /\ Claims(settled) = Claims(pipe)
        /\ settled.nonce = pipe.nonce
        /\ settled.closer = pipe.closer /\ settled.expiresAt = pipe.expiresAt
    BY <1>1, <1>2, SettleFacts, SettleFields
  <1>4. PendingOf(settled, k, sender) = NoPending /\ settled.closer = NoPrincipal
    BY DEF FundPipe
  <1>5. /\ q \in Pipe /\ Claims(q) = Claims(pipes[k]) + amount
        /\ q.closer = NoPrincipal /\ q.expiresAt = pipe.expiresAt /\ q.nonce = pipe.nonce
    BY <1>1, <1>2, <1>3, <1>4, AddPendingFacts
  <1>6. Closure(k, q)
    BY <1>1, <1>3, <1>4, <1>5 DEF Closure
  <1>7. TransferIn(k, sender, amount) /\ StorePipe(k, q) /\ Emit("fund-pipe", k, q, sender)
        /\ mapped' = mapped \cup {k} /\ initialized /\ k.token = supportedToken
        /\ UNCHANGED <<adminVars, height>>
    BY DEF FundPipe
  <1>8. wallet' \in [Principals -> Nat] /\ held' = [held EXCEPT ![k] = Claims(q)]
    BY <1>5, <1>7, TransferInFacts
  <1>9. event' \in Event
    BY <1>5, <1>7, EmitFacts DEF EventTypes
  <1>10. StepTo(k, q)
    BY <1>5, <1>6, <1>7, <1>8, <1>9 DEF StepTo, StorePipe
  <1>11. QED
    BY <1>1, <1>3, <1>4, <1>5, <1>7, <1>10

\* The signed balances are the given ones, in the canonical order.
LEMMA MapBalancesFacts ==
    ASSUME NEW k, NEW for, NEW my \in Nat, NEW their \in Nat
    PROVE  LET signed == MapBalances(for, k, my, their)
           IN /\ signed.b1 \in Nat /\ signed.b2 \in Nat
              /\ signed.b1 + signed.b2 = my + their
  BY DEF MapBalances

\* The printed record of a closed pipe is a pipe.
LEMMA ClosedPipeFacts ==
    ASSUME NEW b1 \in Nat, NEW b2 \in Nat, NEW nonce \in Nat
    PROVE  /\ ClosedPipe(b1, b2, nonce) \in Pipe
           /\ ClosedPipe(b1, b2, nonce).pending1 = NoPending
           /\ ClosedPipe(b1, b2, nonce).pending2 = NoPending
           /\ Claims(ClosedPipe(b1, b2, nonce)) = b1 + b2
  <1>1. NoPending \in Pending /\ NoPending.amount = 0
    BY DEF NoPending, Pending
  <1>2. QED
    BY <1>1, HeightAssumption DEF ClosedPipe, Pipe, Claims

\* The party of a pipe opposite to a principal is a principal.
LEMMA OtherFacts ==
    ASSUME NEW k \in PipeKeys, NEW p
    PROVE  Other(k, p) \in Principals
  BY KeyAssumption DEF Other

\* close-pipe: all claims are paid out by a newer message.
LEMMA ClosePipeStep ==
    ASSUME IInv, NEW k \in PipeKeys, NEW sender \in Principals,
           NEW my \in Nat, NEW their \in Nat, NEW nonce \in Nat, NEW key1, NEW key2,
           ClosePipe(k, sender, my, their, nonce, key1, key2)
    PROVE  /\ StepTo(k, EmptyPipe(nonce))
           /\ nonce > pipes[k].nonce
           /\ my + their = Claims(pipes[k])
           /\ Payout(k, sender, my, Other(k, sender), their)
  <1> DEFINE signed == MapBalances(sender, k, my, their)
  <1>1. /\ k \in mapped
        /\ ValidateTransition(k, signed.b1, signed.b2, nonce, "close", sender, 0, NoHeight)
        /\ ResetPipe(k, nonce)
        /\ Emit("close-pipe", k, ClosedPipe(signed.b1, signed.b2, nonce), sender)
        /\ Payout(k, sender, my, Other(k, sender), their)
        /\ UNCHANGED <<adminVars, mapped, height>>
    BY DEF ClosePipe
  <1>2. nonce > pipes[k].nonce /\ CloseCheck(pipes[k], signed.b1, signed.b2, NoHeight)
    BY <1>1 DEF ValidateTransition, NonceCheck
  <1>3. signed.b1 \in Nat /\ signed.b2 \in Nat /\ signed.b1 + signed.b2 = my + their
    BY MapBalancesFacts
  <1>4. my + their = Claims(pipes[k])
    <2> DEFINE state == PipeBalanceState(pipes[k], HeightOf(NoHeight))
    <2>1. HeightOf(NoHeight) \in Int
      BY PipeFacts, Heights DEF HeightOf, NoHeight
    <2>2. state.pendingTotal = 0 /\ signed.b1 + signed.b2 = state.confirmedTotal
      BY <1>2 DEF CloseCheck
    <2>3. state.confirmedTotal \in Nat /\ state.confirmedTotal + state.pendingTotal = Claims(pipes[k])
      BY <2>1, PipeFacts, StateTotals
    <2>4. QED
      BY <1>3, <2>2, <2>3
  <1>5. wallet' \in [Principals -> Nat] /\ held' = [held EXCEPT ![k] = Claims(EmptyPipe(nonce))]
    BY <1>1, <1>4, OtherFacts, PayoutFacts
  <1>6. event' \in Event
    BY <1>1, <1>3, ClosedPipeFacts, EmitFacts DEF EventTypes
  <1>7. StepTo(k, EmptyPipe(nonce))
    BY <1>1, <1>5, <1>6, PipeFacts, EmptyPipeFacts, EmptyClosure DEF StepTo, ResetPipe, StorePipe
  <1>8. QED
    BY <1>1, <1>2, <1>4, <1>7

\* force-cancel: an open pipe becomes a closing one, with the same claims.
LEMMA ForceCancelStep ==
    ASSUME IInv, NEW k \in PipeKeys, NEW sender \in Parties(k), ForceCancel(k, sender)
    PROVE  \E q \in Pipe : /\ StepTo(k, q)
                           /\ Claims(q) = Claims(pipes[k])
                           /\ q.nonce = pipes[k].nonce
                           /\ q.expiresAt = height + WAITING_PERIOD
                           /\ pipes[k].closer = NoPrincipal
                           /\ wallet' = wallet
  <1> DEFINE settled == SettlePending(pipes[k])
             q == [settled EXCEPT !.expiresAt = height + WAITING_PERIOD, !.closer = sender]
  <1>1. /\ k \in mapped
        /\ settled.closer = NoPrincipal
        /\ settled.pending1 = NoPending /\ settled.pending2 = NoPending
        /\ StorePipe(k, q)
        /\ Emit("force-cancel", k, settled, sender)
        /\ UNCHANGED <<adminVars, mapped, wallet, held, height>>
    BY DEF ForceCancel, HasPending
  <1>2. /\ height \in Nat /\ height + WAITING_PERIOD \in Nat
        /\ height + WAITING_PERIOD < MAX_HEIGHT
    BY PipeFacts, Heights
  <1>3. sender \in Principals
    BY PipeFacts DEF Parties
  <1>4. /\ settled \in Pipe /\ Claims(settled) = Claims(pipes[k])
        /\ settled.nonce = pipes[k].nonce /\ settled.closer = pipes[k].closer
    BY <1>2, PipeFacts, SettleFacts, SettleFields
  <1>5. /\ q \in Pipe /\ Claims(q) = Claims(settled)
        /\ q.nonce = settled.nonce /\ q.expiresAt = height + WAITING_PERIOD
        /\ q.closer = sender /\ q.pending1 = NoPending /\ q.pending2 = NoPending
    BY <1>1, <1>2, <1>3, <1>4 DEF Pipe, Claims
  <1>6. Closure(k, q)
    BY <1>2, <1>3, <1>5, PrincipalAssumption, HeightAssumption DEF Closure
  <1>7. held' = [held EXCEPT ![k] = Claims(q)]
    BY <1>1, <1>4, <1>5, PipeFacts DEF IInv, TypeOK
  <1>8. event' \in Event
    BY <1>1, <1>3, <1>4, EmitFacts DEF EventTypes
  <1>9. StepTo(k, q)
    BY <1>1, <1>5, <1>6, <1>7, <1>8, PipeFacts DEF StepTo, StorePipe, IInv, TypeOK
  <1>10. QED
    BY <1>1, <1>4, <1>5, <1>9

\* force-close: an open pipe becomes a closing one with the same claims, newly split.
LEMMA ForceCloseStep ==
    ASSUME IInv, NEW k \in PipeKeys, NEW sender \in Parties(k),
           NEW my \in Nat, NEW their \in Nat, NEW nonce \in Nat, NEW validAfter \in Int,
           NEW key1, NEW key2,
           ForceClose(k, sender, my, their, nonce, validAfter, key1, key2)
    PROVE  \E q \in Pipe : /\ StepTo(k, q)
                           /\ Claims(q) = Claims(pipes[k])
                           /\ q.nonce = nonce /\ nonce > pipes[k].nonce
                           /\ q.expiresAt = height + WAITING_PERIOD
                           /\ pipes[k].closer = NoPrincipal
                           /\ wallet' = wallet
  <1> DEFINE settled == SettlePending(pipes[k])
             signed == MapBalances(sender, k, my, their)
             closed == ClosedPipe(signed.b1, signed.b2, nonce)
             q == [closed EXCEPT !.expiresAt = height + WAITING_PERIOD, !.closer = sender]
  <1>1. /\ k \in mapped
        /\ settled.closer = NoPrincipal
        /\ settled.pending1 = NoPending /\ settled.pending2 = NoPending
        /\ NonceCheck(pipes[k], nonce)
        /\ my + their = settled.balance1 + settled.balance2
        /\ StorePipe(k, q)
        /\ Emit("force-close", k, q, sender)
        /\ UNCHANGED <<adminVars, mapped, wallet, held, height>>
    BY DEF ForceClose, HasPending
  <1>2. /\ height \in Nat /\ height + WAITING_PERIOD \in Nat
        /\ height + WAITING_PERIOD < MAX_HEIGHT
    BY PipeFacts, Heights
  <1>3. sender \in Principals
    BY PipeFacts DEF Parties
  <1>4. /\ settled \in Pipe /\ Claims(settled) = Claims(pipes[k])
        /\ settled.nonce = pipes[k].nonce /\ settled.closer = pipes[k].closer
    BY <1>2, PipeFacts, SettleFacts, SettleFields
  <1>5. signed.b1 \in Nat /\ signed.b2 \in Nat /\ signed.b1 + signed.b2 = my + their
    BY MapBalancesFacts
  <1>6. /\ closed \in Pipe /\ Claims(closed) = my + their /\ closed.nonce = nonce
        /\ closed.pending1 = NoPending /\ closed.pending2 = NoPending
    BY <1>5, ClosedPipeFacts DEF ClosedPipe, EmptyPipe
  <1>7. /\ q \in Pipe /\ Claims(q) = Claims(closed)
        /\ q.nonce = nonce /\ q.expiresAt = height + WAITING_PERIOD
        /\ q.closer = sender /\ q.pending1 = NoPending /\ q.pending2 = NoPending
    BY <1>2, <1>3, <1>6 DEF Pipe, Claims
  <1>8. Claims(settled) = my + their
    BY <1>1, <1>4 DEF Claims, NoPending, Pipe
  <1>9. Closure(k, q)
    BY <1>2, <1>3, <1>7, PrincipalAssumption, HeightAssumption DEF Closure
  <1>10. held' = [held EXCEPT ![k] = Claims(q)]
    BY <1>1, <1>4, <1>6, <1>7, <1>8, PipeFacts DEF IInv, TypeOK
  <1>11. event' \in Event
    BY <1>1, <1>3, <1>7, EmitFacts DEF EventTypes
  <1>12. StepTo(k, q)
    BY <1>1, <1>7, <1>9, <1>10, <1>11, PipeFacts DEF StepTo, StorePipe, IInv, TypeOK
  <1>13. QED
    BY <1>1, <1>4, <1>6, <1>7, <1>8, <1>12 DEF NonceCheck

\* The claims on a closing pipe are its two balances.
LEMMA ClosingClaims ==
    ASSUME IInv, NEW k \in PipeKeys, pipes[k].closer # NoPrincipal
    PROVE  Claims(pipes[k]) = pipes[k].balance1 + pipes[k].balance2
  BY PipeFacts DEF Closure, Claims, NoPending, Pipe

\* dispute-closure: before the expiry a newer message has the claims paid out.
LEMMA DisputeClosureStep ==
    ASSUME IInv, NEW k \in PipeKeys, NEW for \in Parties(k),
           NEW my \in Nat, NEW their \in Nat, NEW nonce \in Nat, NEW validAfter \in Int,
           NEW key1, NEW key2,
           DisputeClosure(k, for, my, their, nonce, validAfter, key1, key2)
    PROVE  /\ StepTo(k, EmptyPipe(nonce))
           /\ nonce > pipes[k].nonce
           /\ my + their = Claims(pipes[k])
           /\ Payout(k, for, my, Other(k, for), their)
  <1> DEFINE signed == MapBalances(for, k, my, their)
  <1>1. /\ k \in mapped
        /\ pipes[k].closer # NoPrincipal
        /\ NonceCheck(pipes[k], nonce)
        /\ my + their = pipes[k].balance1 + pipes[k].balance2
        /\ ResetPipe(k, nonce)
        /\ Emit("dispute-closure", k, ClosedPipe(signed.b1, signed.b2, nonce), for)
        /\ Payout(k, for, my, Other(k, for), their)
        /\ UNCHANGED <<adminVars, mapped, height>>
    BY DEF DisputeClosure
  <1>2. my + their = Claims(pipes[k])
    BY <1>1, ClosingClaims
  <1>3. for \in Principals
    BY PipeFacts DEF Parties
  <1>4. signed.b1 \in Nat /\ signed.b2 \in Nat
    BY MapBalancesFacts
  <1>5. wallet' \in [Principals -> Nat] /\ held' = [held EXCEPT ![k] = Claims(EmptyPipe(nonce))]
    BY <1>1, <1>2, <1>3, OtherFacts, PayoutFacts
  <1>6. event' \in Event
    BY <1>1, <1>3, <1>4, ClosedPipeFacts, EmitFacts DEF EventTypes
  <1>7. StepTo(k, EmptyPipe(nonce))
    BY <1>1, <1>5, <1>6, PipeFacts, EmptyPipeFacts, EmptyClosure DEF StepTo, ResetPipe, StorePipe
  <1>8. QED
    BY <1>1, <1>2, <1>7 DEF NonceCheck

\* finalize: after the expiry the claims are paid out as they stand.
LEMMA FinalizeStep ==
    ASSUME IInv, NEW k \in PipeKeys, NEW sender \in Principals, Finalize(k, sender)
    PROVE  /\ StepTo(k, EmptyPipe(pipes[k].nonce))
           /\ pipes[k].closer # NoPrincipal
           /\ height >= pipes[k].expiresAt
           /\ pipes[k].balance1 + pipes[k].balance2 = Claims(pipes[k])
           /\ Payout(k, k.principal1, pipes[k].balance1, k.principal2, pipes[k].balance2)
  <1>1. /\ k \in mapped
        /\ pipes[k].closer # NoPrincipal
        /\ height >= pipes[k].expiresAt
        /\ ResetPipe(k, pipes[k].nonce)
        /\ Emit("finalize", k, pipes[k], sender)
        /\ Payout(k, k.principal1, pipes[k].balance1, k.principal2, pipes[k].balance2)
        /\ UNCHANGED <<adminVars, mapped, height>>
    BY DEF Finalize, FinalizeWhen
  <1>2. /\ pipes[k] \in Pipe /\ pipes[k].nonce \in Nat
        /\ pipes[k].balance1 \in Nat /\ pipes[k].balance2 \in Nat
    BY PipeFacts DEF Pipe
  <1>3. pipes[k].balance1 + pipes[k].balance2 = Claims(pipes[k])
    BY <1>1, ClosingClaims
  <1>4. /\ wallet' \in [Principals -> Nat]
        /\ held' = [held EXCEPT ![k] = Claims(EmptyPipe(pipes[k].nonce))]
    BY <1>1, <1>2, <1>3, PipeFacts, PayoutFacts
  <1>5. event' \in Event
    BY <1>1, <1>2, EmitFacts DEF EventTypes
  <1>6. StepTo(k, EmptyPipe(pipes[k].nonce))
    BY <1>1, <1>2, <1>4, <1>5, PipeFacts, EmptyPipeFacts, EmptyClosure DEF StepTo, ResetPipe, StorePipe
  <1>7. QED
    BY <1>1, <1>3, <1>6

\* deposit: the balances computed back from the signed ones, with the pending
\* deposits, are the signed total.
LEMMA DepositToPipeFacts ==
    ASSUME IInv, NEW k \in PipeKeys, NEW sender \in Parties(k), NEW amount \in Nat,
           NEW my \in Nat, NEW their \in Nat, NEW nonce \in Nat, NEW key1, NEW key2,
           DepositToPipe(k, sender, amount, my, their, nonce, key1, key2)
    PROVE  /\ k \in mapped /\ UNCHANGED <<adminVars, mapped, height>>
           /\ event' \in Event
           /\ nonce > pipes[k].nonce /\ pipes[k].closer = NoPrincipal
           /\ \E q \in Pipe : /\ Closure(k, q) /\ StorePipe(k, q)
                              /\ Claims(q) = Claims(pipes[k]) + amount
                              /\ q.nonce = nonce /\ q.closer = NoPrincipal
  <1> DEFINE signed == MapBalances(sender, k, my, their)
             settled == SettlePending(pipes[k])
             pre == PreBalances(settled, k, sender, my, their, amount)
             updated == AddPending(settled, k, sender, amount)
             q == [updated EXCEPT !.balance1 = pre.b1, !.balance2 = pre.b2, !.nonce = nonce]
  <1>1. /\ k \in mapped
        /\ ValidateTransition(k, signed.b1, signed.b2, nonce, "deposit", sender, amount, NoHeight)
        /\ NoUnderflow(pre)
        /\ PendingOf(settled, k, sender) = NoPending
        /\ StorePipe(k, q)
        /\ Emit("deposit", k, updated, sender)
        /\ UNCHANGED <<adminVars, mapped, height>>
    BY DEF DepositToPipe
  <1>2. /\ nonce > pipes[k].nonce
        /\ DepositCheck(pipes[k], k, signed.b1, signed.b2, sender, amount, NoHeight)
    BY <1>1 DEF ValidateTransition, NonceCheck
  <1>3. pipes[k].closer = NoPrincipal
    BY <1>2 DEF DepositCheck
  <1>4. signed.b1 \in Nat /\ signed.b2 \in Nat /\ signed.b1 + signed.b2 = my + their
    BY MapBalancesFacts
  <1>5. my + their = Claims(pipes[k]) + amount
    <2> DEFINE state == PipeBalanceState(pipes[k], HeightOf(NoHeight))
    <2>1. HeightOf(NoHeight) \in Int
      BY PipeFacts, Heights DEF HeightOf, NoHeight
    <2>2. signed.b1 + signed.b2 = state.confirmedTotal + state.pendingTotal + amount
      BY <1>2 DEF DepositCheck
    <2>3. /\ state.confirmedTotal \in Nat /\ state.pendingTotal \in Nat
          /\ state.confirmedTotal + state.pendingTotal = Claims(pipes[k])
      BY <2>1, PipeFacts, StateTotals
    <2>4. QED
      BY <1>4, <2>2, <2>3
  <1>6. height \in 0..Horizon /\ height \in Nat
    BY PipeFacts, Heights
  <1>7. /\ settled \in Pipe /\ settled.closer = NoPrincipal
        /\ settled.expiresAt = pipes[k].expiresAt
    BY <1>3, <1>6, PipeFacts, SettleFacts, SettleFields
  <1>8. /\ updated \in Pipe
        /\ updated.closer = NoPrincipal /\ updated.expiresAt = pipes[k].expiresAt
        /\ sender = k.principal1 => updated.pending1.amount = amount /\ updated.pending2 = settled.pending2
        /\ sender # k.principal1 => updated.pending2.amount = amount /\ updated.pending1 = settled.pending1
    BY <1>1, <1>6, <1>7, AddPendingFacts
  <1>9. settled.pending1.amount \in Nat /\ settled.pending2.amount \in Nat
    BY <1>7 DEF Pipe, Pending
  <1>10. /\ pre.b1 \in Nat /\ pre.b2 \in Nat
         /\ pre.b1 + pre.b2 + updated.pending1.amount + updated.pending2.amount = my + their
    <2>1. CASE sender = k.principal1
      BY <1>1, <1>8, <1>9, <2>1 DEF PreBalances, NoUnderflow
    <2>2. CASE sender # k.principal1
      BY <1>1, <1>8, <1>9, <2>2 DEF PreBalances, NoUnderflow
    <2>3. QED
      BY <2>1, <2>2
  <1>11. /\ q \in Pipe /\ q.nonce = nonce /\ q.closer = NoPrincipal
         /\ q.expiresAt = pipes[k].expiresAt
         /\ Claims(q) = pre.b1 + pre.b2 + updated.pending1.amount + updated.pending2.amount
    BY <1>8, <1>10 DEF Pipe, Claims
  <1>12. Closure(k, q)
    BY <1>3, <1>11, PipeFacts DEF Closure
  <1>13. event' \in Event
    BY <1>1, <1>8, PipeFacts, EmitFacts DEF EventTypes, Parties
  <1>14. QED
    BY <1>1, <1>2, <1>3, <1>5, <1>10, <1>11, <1>12, <1>13

\* With the transfer of the sender.
LEMMA DepositStep ==
    ASSUME IInv, NEW k \in PipeKeys, NEW sender \in Parties(k), NEW amount \in Nat,
           NEW my \in Nat, NEW their \in Nat, NEW nonce \in Nat, NEW key1, NEW key2,
           Deposit(k, sender, amount, my, their, nonce, key1, key2)
    PROVE  \E q \in Pipe : /\ StepTo(k, q)
                           /\ Claims(q) = Claims(pipes[k]) + amount
                           /\ q.nonce = nonce /\ nonce > pipes[k].nonce
                           /\ q.closer = NoPrincipal /\ pipes[k].closer = NoPrincipal
                           /\ TransferIn(k, sender, amount)
  <1>1. /\ DepositToPipe(k, sender, amount, my, their, nonce, key1, key2)
        /\ TransferIn(k, sender, amount)
    BY DEF Deposit
  <1>2. /\ k \in mapped /\ UNCHANGED <<adminVars, mapped, height>>
        /\ event' \in Event
        /\ nonce > pipes[k].nonce /\ pipes[k].closer = NoPrincipal
    BY <1>1, DepositToPipeFacts
  <1>3. PICK q \in Pipe : /\ Closure(k, q) /\ StorePipe(k, q)
                          /\ Claims(q) = Claims(pipes[k]) + amount
                          /\ q.nonce = nonce /\ q.closer = NoPrincipal
    BY <1>1, DepositToPipeFacts
  <1>4. wallet' \in [Principals -> Nat] /\ held' = [held EXCEPT ![k] = Claims(q)]
    BY <1>1, <1>3, TransferInFacts, PipeFacts DEF Parties
  <1>5. StepTo(k, q)
    BY <1>2, <1>3, <1>4, PipeFacts DEF StepTo, StorePipe
  <1>6. QED
    BY <1>1, <1>2, <1>3, <1>5

\* withdraw: the check of the signatures against the stored pipe leaves no pending
\* deposit, so the claims fall by the amount withdrawn.
LEMMA WithdrawStep ==
    ASSUME IInv, NEW k \in PipeKeys, NEW sender \in Parties(k), NEW amount \in Nat,
           NEW my \in Nat, NEW their \in Nat, NEW nonce \in Nat, NEW key1, NEW key2,
           Withdraw(k, sender, amount, my, their, nonce, key1, key2)
    PROVE  \E q \in Pipe : /\ StepTo(k, q)
                           /\ Claims(q) = Claims(pipes[k]) - amount
                           /\ q.nonce = nonce /\ nonce > pipes[k].nonce
                           /\ q.closer = NoPrincipal /\ pipes[k].closer = NoPrincipal
                           /\ ExecuteWithdraw(k, sender, amount)
                           /\ amount <= Claims(pipes[k])
  <1> DEFINE signed == MapBalances(sender, k, my, their)
             settled == SettlePending(pipes[k])
             q == WithdrawnPipe(k, signed.b1, signed.b2, nonce)
             state == PipeBalanceState(pipes[k], height)
             newState == PipeBalanceState(q, height)
  <1>1. /\ k \in mapped
        /\ ValidateTransition(k, signed.b1, signed.b2, nonce, "withdraw", sender, amount, NoHeight)
        /\ StorePipe(k, q)
        /\ BalanceCheck(q, signed.b1, signed.b2, NoHeight)
        /\ ExecuteWithdraw(k, sender, amount)
        /\ Emit("withdraw", k, q, sender)
        /\ UNCHANGED <<adminVars, mapped, height>>
    BY DEF Withdraw, VerifySignatures
  <1>2. /\ nonce > pipes[k].nonce
        /\ WithdrawalCheck(pipes[k], k, signed.b1, signed.b2, sender, amount, NoHeight)
    BY <1>1 DEF ValidateTransition, NonceCheck
  <1>3. /\ pipes[k].closer = NoPrincipal
        /\ state.confirmedTotal >= amount
        /\ signed.b1 + signed.b2 = state.confirmedTotal - amount
    BY <1>2 DEF WithdrawalCheck, HeightOf
  <1>4. signed.b1 \in Nat /\ signed.b2 \in Nat
    BY MapBalancesFacts
  <1>5. height \in 0..Horizon /\ height \in Nat
    BY PipeFacts, Heights
  <1>6. /\ settled \in Pipe /\ settled.closer = NoPrincipal
        /\ settled.expiresAt = pipes[k].expiresAt
        /\ state.pending1 = settled.pending1.amount /\ state.pending2 = settled.pending2.amount
    BY <1>3, <1>5, PipeFacts, SettleFacts, SettleFields
  <1>7. /\ q \in Pipe /\ q.nonce = nonce /\ q.closer = NoPrincipal
        /\ q.expiresAt = pipes[k].expiresAt
        /\ q.pending1 = settled.pending1 /\ q.pending2 = settled.pending2
        /\ q.balance1 = signed.b1 /\ q.balance2 = signed.b2
    BY <1>4, <1>6 DEF WithdrawnPipe, Pipe
  <1>8. signed.b1 + signed.b2 = Claims(q)
    <2>1. signed.b1 + signed.b2 = newState.confirmedTotal + newState.pendingTotal
      BY <1>1 DEF BalanceCheck, HeightOf
    <2>2. QED
      BY <1>5, <1>7, <2>1, StateTotals
  <1>9. settled.pending1.amount = 0 /\ settled.pending2.amount = 0
    <2>1. settled.pending1.amount \in Nat /\ settled.pending2.amount \in Nat
      BY <1>6 DEF Pipe, Pending
    <2>2. Claims(q) = signed.b1 + signed.b2 + settled.pending1.amount + settled.pending2.amount
      BY <1>7 DEF Claims
    <2>3. QED
      BY <1>4, <1>8, <2>1, <2>2
  <1>10. state.confirmedTotal = Claims(pipes[k]) /\ state.confirmedTotal \in Nat
    BY <1>5, <1>6, <1>9, PipeFacts, StateTotals
  <1>11. Claims(q) = Claims(pipes[k]) - amount /\ amount <= Claims(pipes[k])
    BY <1>3, <1>8, <1>10
  <1>12. Closure(k, q)
    BY <1>3, <1>7, PipeFacts DEF Closure
  <1>13. held' = [held EXCEPT ![k] = Claims(q)]
    BY <1>1, <1>11, PipeFacts DEF ExecuteWithdraw
  <1>14. wallet' \in [Principals -> Nat]
    <2>1. wallet \in [Principals -> Nat] /\ sender \in Principals
      BY PipeFacts DEF IInv, TypeOK, Parties
    <2>2. wallet' = [wallet EXCEPT ![sender] = wallet[sender] + amount]
      BY <1>1 DEF ExecuteWithdraw
    <2>3. QED
      BY <2>1, <2>2
  <1>15. event' \in Event
    BY <1>1, <1>7, PipeFacts, EmitFacts DEF EventTypes, Parties
  <1>16. StepTo(k, q)
    BY <1>1, <1>7, <1>12, <1>13, <1>14, <1>15, PipeFacts DEF StepTo, StorePipe
  <1>17. QED
    BY <1>1, <1>2, <1>3, <1>7, <1>11, <1>16

--------------------------------------------------------------------------------
(* The invariant holds *)

\* The four things a transaction can do to pipe k, as the escrow sees them.
Locks(k, q) ==
    /\ pipes[k].closer = NoPrincipal /\ q.closer = NoPrincipal
    /\ q.nonce >= pipes[k].nonce
    /\ \E p \in Parties(k), n \in Nat :
          TransferIn(k, p, n) /\ Claims(q) = Claims(pipes[k]) + n
Unlocks(k, q) ==
    /\ pipes[k].closer = NoPrincipal /\ q.closer = NoPrincipal
    /\ q.nonce > pipes[k].nonce
    /\ \E p \in Parties(k), n \in Nat :
          /\ ExecuteWithdraw(k, p, n)
          /\ n <= Claims(pipes[k]) /\ Claims(q) = Claims(pipes[k]) - n
GivesNotice(k, q) ==
    /\ pipes[k].closer = NoPrincipal
    /\ q.expiresAt = height + WAITING_PERIOD
    /\ q.nonce >= pipes[k].nonce
    /\ Claims(q) = Claims(pipes[k])
    /\ wallet' = wallet
Settles(k, q) ==
    /\ q = EmptyPipe(q.nonce)
    /\ \/ q.nonce > pipes[k].nonce
       \/ /\ q.nonce = pipes[k].nonce
          /\ pipes[k].closer # NoPrincipal
          /\ height >= pipes[k].expiresAt
    /\ \E p \in Parties(k), x, y \in Nat :
          Payout(k, p, x, Other(k, p), y) /\ x + y = Claims(pipes[k])

\* fund-pipe locks tokens, force-cancel gives notice; neither consumes a message.
LEMMA UnsignedCallStep ==
    ASSUME IInv, NEW k \in PipeKeys, NEW p \in Parties(k), UnsignedCall(k, p)
    PROVE  /\ event'.type \notin SignedEvents
           /\ \E q \in Pipe : /\ StepTo(k, q) /\ q.nonce \in Nonces
                              /\ Locks(k, q) \/ GivesNotice(k, q)
  <1>1. p \in Principals /\ pipes[k].nonce \in Nonces /\ pipes[k].nonce \in Nat
    BY PipeFacts DEF Parties, IInv, Pipe
  <1>2. CASE \E amount \in Amounts, nonce \in Nonces : FundPipe(k, p, amount, nonce)
    <2>1. PICK amount \in Amounts, nonce \in Nonces : FundPipe(k, p, amount, nonce)
      BY <1>2
    <2>2. amount \in Nat /\ nonce \in Nat
      BY DEF Amounts, Nonces
    <2>3. PICK q \in Pipe : /\ StepTo(k, q)
                            /\ Claims(q) = Claims(pipes[k]) + amount
                            /\ q.closer = NoPrincipal
                            /\ q.nonce >= pipes[k].nonce
                            /\ q.nonce \in {nonce, pipes[k].nonce}
                            /\ pipes[k].closer = NoPrincipal
                            /\ TransferIn(k, p, amount)
      BY <1>1, <2>1, <2>2, FundPipeStep
    <2>4. q.nonce \in Nonces
      BY <1>1, <2>3
    <2>5. Locks(k, q)
      BY <2>2, <2>3 DEF Locks
    <2>6. event'.type \notin SignedEvents
      BY <2>1 DEF FundPipe, Emit, SignedEvents
    <2>7. QED
      BY <2>3, <2>4, <2>5, <2>6
  <1>3. CASE ForceCancel(k, p)
    <2>1. PICK q \in Pipe : /\ StepTo(k, q)
                            /\ Claims(q) = Claims(pipes[k])
                            /\ q.nonce = pipes[k].nonce
                            /\ q.expiresAt = height + WAITING_PERIOD
                            /\ pipes[k].closer = NoPrincipal
                            /\ wallet' = wallet
      BY <1>3, ForceCancelStep
    <2>2. GivesNotice(k, q) /\ q.nonce \in Nonces
      BY <1>1, <2>1 DEF GivesNotice
    <2>3. event'.type \notin SignedEvents
      BY <1>3 DEF ForceCancel, Emit, SignedEvents
    <2>4. QED
      BY <2>1, <2>2, <2>3
  <1>4. QED
    BY <1>2, <1>3 DEF UnsignedCall

\* finalize settles the pipe and consumes no message.
LEMMA FinalizeCallStep ==
    ASSUME IInv, NEW k \in PipeKeys, NEW sender \in Principals, Finalize(k, sender)
    PROVE  /\ event'.type \notin SignedEvents
           /\ \E q \in Pipe : StepTo(k, q) /\ q.nonce \in Nonces /\ Settles(k, q)
  <1> DEFINE q == EmptyPipe(pipes[k].nonce)
  <1>1. /\ pipes[k].nonce \in Nonces
        /\ pipes[k].balance1 \in Nat /\ pipes[k].balance2 \in Nat
    BY PipeFacts DEF IInv, Pipe
  <1>2. q.nonce = pipes[k].nonce
    BY DEF EmptyPipe, ClosedPipe
  <1>3. k.principal1 \in Parties(k) /\ Other(k, k.principal1) = k.principal2
    BY DEF Parties, Other
  <1>4. /\ StepTo(k, q)
        /\ pipes[k].closer # NoPrincipal
        /\ height >= pipes[k].expiresAt
        /\ pipes[k].balance1 + pipes[k].balance2 = Claims(pipes[k])
        /\ Payout(k, k.principal1, pipes[k].balance1, k.principal2, pipes[k].balance2)
    BY FinalizeStep
  <1>5. Settles(k, q)
    BY <1>1, <1>2, <1>3, <1>4 DEF Settles
  <1>6. event'.type \notin SignedEvents
    BY DEF Finalize, FinalizeWhen, Emit, SignedEvents
  <1>7. QED
    BY <1>1, <1>2, <1>4, <1>5, <1>6 DEF StepTo

\* A call that carries signatures is one of the four, and raises the nonce.
LEMMA SignedCallStep ==
    ASSUME IInv, NEW k \in PipeKeys, NEW p \in Parties(k), SignedCall(k, p)
    PROVE  \E q \in Pipe : /\ StepTo(k, q) /\ q.nonce \in Nonces /\ q.nonce > pipes[k].nonce
                           /\ Locks(k, q) \/ Unlocks(k, q) \/ GivesNotice(k, q) \/ Settles(k, q)
  <1>1. p \in Principals
    BY PipeFacts DEF Parties
  <1>2. PICK b \in BalancePairs, nonce \in Nonces, key1 \in SigningKeys, key2 \in SigningKeys :
          \/ ClosePipe(k, p, b[1], b[2], nonce, key1, key2)
          \/ \E validAfter \in ValidAfters :
                \/ ForceClose(k, p, b[1], b[2], nonce, validAfter, key1, key2)
                \/ DisputeClosure(k, p, b[1], b[2], nonce, validAfter, key1, key2)
          \/ \E amount \in Amounts :
                \/ Deposit(k, p, amount, b[1], b[2], nonce, key1, key2)
                \/ Withdraw(k, p, amount, b[1], b[2], nonce, key1, key2)
    BY DEF SignedCall
  <1>3. b[1] \in Nat /\ b[2] \in Nat /\ nonce \in Nat
    BY DEF BalancePairs, Amounts, Nonces
  <1>4. EmptyPipe(nonce).nonce = nonce
    BY DEF EmptyPipe, ClosedPipe
  <1>5. CASE ClosePipe(k, p, b[1], b[2], nonce, key1, key2)
    <2>1. /\ StepTo(k, EmptyPipe(nonce)) /\ nonce > pipes[k].nonce
          /\ b[1] + b[2] = Claims(pipes[k]) /\ Payout(k, p, b[1], Other(k, p), b[2])
      BY <1>1, <1>3, <1>5, ClosePipeStep
    <2>2. Settles(k, EmptyPipe(nonce))
      BY <1>3, <1>4, <2>1 DEF Settles
    <2>3. QED
      BY <1>4, <2>1, <2>2 DEF StepTo
  <1>6. ASSUME NEW validAfter \in ValidAfters,
               ForceClose(k, p, b[1], b[2], nonce, validAfter, key1, key2)
        PROVE  \E q \in Pipe : /\ StepTo(k, q) /\ q.nonce \in Nonces /\ q.nonce > pipes[k].nonce
                               /\ GivesNotice(k, q)
    <2>1. validAfter \in Int
      BY HeightAssumption
    <2>2. PICK q \in Pipe : /\ StepTo(k, q)
                            /\ Claims(q) = Claims(pipes[k])
                            /\ q.nonce = nonce /\ nonce > pipes[k].nonce
                            /\ q.expiresAt = height + WAITING_PERIOD
                            /\ pipes[k].closer = NoPrincipal
                            /\ wallet' = wallet
      BY <1>3, <1>6, <2>1, ForceCloseStep
    <2>3. pipes[k].nonce \in Nat
      BY PipeFacts DEF Pipe
    <2>4. GivesNotice(k, q)
      BY <1>3, <2>2, <2>3 DEF GivesNotice
    <2>5. QED
      BY <2>2, <2>4
  <1>7. ASSUME NEW validAfter \in ValidAfters,
               DisputeClosure(k, p, b[1], b[2], nonce, validAfter, key1, key2)
        PROVE  \E q \in Pipe : /\ StepTo(k, q) /\ q.nonce \in Nonces /\ q.nonce > pipes[k].nonce
                               /\ Settles(k, q)
    <2>1. validAfter \in Int
      BY HeightAssumption
    <2>2. /\ StepTo(k, EmptyPipe(nonce)) /\ nonce > pipes[k].nonce
          /\ b[1] + b[2] = Claims(pipes[k]) /\ Payout(k, p, b[1], Other(k, p), b[2])
      BY <1>3, <1>7, <2>1, DisputeClosureStep
    <2>3. Settles(k, EmptyPipe(nonce))
      BY <1>3, <1>4, <2>2 DEF Settles
    <2>4. QED
      BY <1>4, <2>2, <2>3 DEF StepTo
  <1>8. ASSUME NEW amount \in Amounts,
               Deposit(k, p, amount, b[1], b[2], nonce, key1, key2)
        PROVE  \E q \in Pipe : /\ StepTo(k, q) /\ q.nonce \in Nonces /\ q.nonce > pipes[k].nonce
                               /\ Locks(k, q)
    <2>1. amount \in Nat /\ pipes[k].nonce \in Nat
      BY PipeFacts DEF Amounts, Pipe
    <2>2. PICK q \in Pipe : /\ StepTo(k, q)
                            /\ Claims(q) = Claims(pipes[k]) + amount
                            /\ q.nonce = nonce /\ nonce > pipes[k].nonce
                            /\ q.closer = NoPrincipal /\ pipes[k].closer = NoPrincipal
                            /\ TransferIn(k, p, amount)
      BY <1>3, <1>8, <2>1, DepositStep
    <2>3. Locks(k, q)
      BY <1>3, <2>1, <2>2 DEF Locks
    <2>4. QED
      BY <2>2, <2>3
  <1>9. ASSUME NEW amount \in Amounts,
               Withdraw(k, p, amount, b[1], b[2], nonce, key1, key2)
        PROVE  \E q \in Pipe : /\ StepTo(k, q) /\ q.nonce \in Nonces /\ q.nonce > pipes[k].nonce
                               /\ Unlocks(k, q)
    <2>1. amount \in Nat
      BY DEF Amounts
    <2>2. PICK q \in Pipe : /\ StepTo(k, q)
                            /\ Claims(q) = Claims(pipes[k]) - amount
                            /\ q.nonce = nonce /\ nonce > pipes[k].nonce
                            /\ q.closer = NoPrincipal /\ pipes[k].closer = NoPrincipal
                            /\ ExecuteWithdraw(k, p, amount)
                            /\ amount <= Claims(pipes[k])
      BY <1>3, <1>9, <2>1, WithdrawStep
    <2>3. Unlocks(k, q)
      BY <2>1, <2>2 DEF Unlocks
    <2>4. QED
      BY <2>2, <2>3
  <1>10. QED
    BY <1>2, <1>5, <1>6, <1>7, <1>8, <1>9

\* A transaction on a pipe is one of the four things an escrow does with it.
LEMMA PipeCallStep ==
    ASSUME IInv, NEW k \in PipeKeys, PipeCall(k)
    PROVE  \E q \in Pipe : /\ StepTo(k, q) /\ q.nonce \in Nonces
                           /\ event'.type \in SignedEvents => q.nonce > pipes[k].nonce
                           /\ Locks(k, q) \/ Unlocks(k, q) \/ GivesNotice(k, q) \/ Settles(k, q)
  BY UnsignedCallStep, SignedCallStep, FinalizeCallStep DEF PipeCall

\* Administration touches no pipe and no token.
LEMMA AdminStep ==
    ASSUME IInv, Admin
    PROVE  IInv' /\ UNCHANGED <<pipes, wallet, held, height>>
  <1>1. CASE \E p \in Principals, token \in Tokens : InitContract(p, token)
    BY <1>1 DEF InitContract, IInv, TypeOK, EscrowBacksPipes, ClosureWellFormed,
         PipesUseSupportedToken, UnmappedPipesAreEmpty
  <1>2. CASE \E p, agent \in Principals : RegisterAgent(p, agent)
    BY <1>2 DEF RegisterAgent, IInv, TypeOK, EscrowBacksPipes, ClosureWellFormed,
         PipesUseSupportedToken, UnmappedPipesAreEmpty
  <1>3. CASE \E p \in Principals : DeregisterAgent(p)
    BY <1>3 DEF DeregisterAgent, IInv, TypeOK, EscrowBacksPipes, ClosureWellFormed,
         PipesUseSupportedToken, UnmappedPipesAreEmpty
  <1>4. QED
    BY <1>1, <1>2, <1>3 DEF Admin

\* A Bitcoin block only brings expiries and confirmations nearer.
LEMMA BurnBlockStep ==
    ASSUME IInv, BurnBlock
    PROVE  IInv' /\ UNCHANGED <<pipes, wallet, held>>
  <1> USE DEF BurnBlock, adminVars
  <1>1. TypeOK'
    BY HeightAssumption DEF IInv, TypeOK
  <1>2. ClosureWellFormed'
    BY HeightAssumption DEF IInv, TypeOK, ClosureWellFormed, Pipe
  <1>3. QED
    BY <1>1, <1>2 DEF IInv, EscrowBacksPipes, PipesUseSupportedToken, UnmappedPipesAreEmpty

\* The initial state.
LEMMA InitInvariant ==
    ASSUME Init PROVE IInv
  <1> USE DEF Init
  <1>1. EmptyPipe(0) \in Pipe /\ Claims(EmptyPipe(0)) = 0
    BY EmptyPipeFacts
  <1>2. TypeOK
    <2>1. supportedToken \in Tokens /\ wallet \in [Principals -> Nat]
      BY PrincipalAssumption
    <2>2. height \in 0..Horizon
      BY HeightAssumption
    <2>3. pipes \in [PipeKeys -> Pipe]
      BY <1>1
    <2>4. held \in [PipeKeys -> Int]
      OBVIOUS
    <2>5. QED
      BY <2>1, <2>2, <2>3, <2>4 DEF TypeOK
  <1>3. EscrowBacksPipes /\ UnmappedPipesAreEmpty /\ PipesUseSupportedToken
    BY <1>1 DEF EscrowBacksPipes, UnmappedPipesAreEmpty, PipesUseSupportedToken
  <1>4. ClosureWellFormed
    BY DEF ClosureWellFormed, EmptyPipe, ClosedPipe
  <1>5. \A k \in PipeKeys : pipes[k].nonce \in Nonces
    BY HeightAssumption DEF Nonces, EmptyPipe, ClosedPipe
  <1>6. QED
    BY <1>2, <1>3, <1>4, <1>5 DEF IInv

\* Every step of the contract.
LEMMA NextInvariant ==
    ASSUME IInv, [Next]_vars PROVE IInv'
  <1>1. CASE BurnBlock
    BY <1>1, BurnBlockStep
  <1>2. CASE Admin
    BY <1>2, AdminStep
  <1>3. ASSUME NEW k \in PipeKeys, PipeCall(k) PROVE IInv'
    BY <1>3, PipeCallStep, StepPreserves
  <1>4. CASE UNCHANGED vars
    BY <1>4 DEF vars, IInv, TypeOK, EscrowBacksPipes, ClosureWellFormed,
         PipesUseSupportedToken, UnmappedPipesAreEmpty
  <1>5. QED
    BY <1>1, <1>2, <1>3, <1>4 DEF Next

\* The invariant: the contract's books always balance.
THEOREM Invariance == Spec => []IInv
  BY InitInvariant, NextInvariant, PTL DEF Spec

--------------------------------------------------------------------------------
(* The theorems about states *)

\* The contract's maps always have their types: in particular no balance is
\* negative, though deposit computes balances by subtraction.
THEOREM TypeCorrect == Spec => []TypeOK
  BY Invariance, PTL DEF IInv

\* Payouts never use another pipe's tokens, and none are stranded: the tokens that
\* came in through a pipe and did not leave are always what its two sides can claim.
THEOREM EscrowBacked == Spec => []EscrowBacksPipes
  BY Invariance, PTL DEF IInv

\* A closing pipe never has a pending deposit that finalize or dispute-closure
\* would lose, and its expiry is set exactly while it has a closer.
THEOREM ClosuresWellFormed == Spec => []ClosureWellFormed
  BY Invariance, PTL DEF IInv

\* The token check of fund-pipe is enough for all later calls on the pipe.
THEOREM SupportedTokenOnly == Spec => []PipesUseSupportedToken
  BY Invariance, PTL DEF IInv

--------------------------------------------------------------------------------
(* The theorems about steps *)

\* A step is a transaction on one pipe, or it leaves the pipes and tokens alone.
LEMMA NextCases ==
    ASSUME IInv, [Next]_vars
    PROVE  \/ \E k \in PipeKeys, q \in Pipe :
                 /\ StepTo(k, q) /\ q.nonce \in Nonces
                 /\ event'.type \in SignedEvents => q.nonce > pipes[k].nonce
                 /\ Locks(k, q) \/ Unlocks(k, q) \/ GivesNotice(k, q) \/ Settles(k, q)
           \/ UNCHANGED <<pipes, wallet, held>> /\ (BurnBlock \/ UNCHANGED height)
  <1>1. CASE BurnBlock
    BY <1>1, BurnBlockStep
  <1>2. CASE Admin
    BY <1>2, AdminStep
  <1>3. CASE \E k \in PipeKeys : PipeCall(k)
    BY <1>3, PipeCallStep
  <1>4. CASE UNCHANGED vars
    BY <1>4 DEF vars
  <1>5. QED
    BY <1>1, <1>2, <1>3, <1>4 DEF Next

\* A transaction on pipe k changes that pipe, and its books, alone.
LEMMA StepFrame ==
    ASSUME IInv, NEW k \in PipeKeys, NEW q, StepTo(k, q)
    PROVE  /\ pipes'[k] = q /\ held'[k] = Claims(q)
           /\ \A j \in PipeKeys \ {k} : pipes'[j] = pipes[j]
  BY DEF IInv, TypeOK, StepTo

\* A nonce never falls, and no signed message is consumed twice.
THEOREM NoReplay == Spec => NoncesRise
  <1>1. IInv /\ [Next]_vars => [\A k \in PipeKeys : NonceRises(k)]_vars
    <2> SUFFICES ASSUME IInv, [Next]_vars, NEW j \in PipeKeys
                 PROVE  NonceRises(j)
      OBVIOUS
    <2>1. pipes[j].nonce \in Nat
      BY PipeFacts DEF Pipe
    <2>2. CASE pipes'[j] = pipes[j]
      BY <2>1, <2>2 DEF NonceRises
    <2>3. CASE pipes'[j] # pipes[j]
      <3>1. PICK k \in PipeKeys, q \in Pipe :
                 /\ StepTo(k, q)
                 /\ event'.type \in SignedEvents => q.nonce > pipes[k].nonce
                 /\ Locks(k, q) \/ Unlocks(k, q) \/ GivesNotice(k, q) \/ Settles(k, q)
        BY <2>3, NextCases
      <3>2. j = k /\ pipes'[j] = q
        BY <2>3, <3>1, StepFrame
      <3>3. q.nonce >= pipes[j].nonce
        <4>1. q.nonce \in Nat
          BY DEF Pipe
        <4>2. QED
          BY <2>1, <3>1, <3>2, <4>1 DEF Locks, Unlocks, GivesNotice, Settles
      <3>4. QED
        BY <3>1, <3>2, <3>3 DEF NonceRises
    <2>4. QED
      BY <2>2, <2>3
  <1>2. Spec => [][\A k \in PipeKeys : NonceRises(k)]_vars
    BY <1>1, Invariance, PTL DEF Spec
  <1>3. QED
    BY <1>2 DEF NoncesRise

\* A forced closure ends in a full payout and nothing else: by a newer message
\* before the expiry, by finalize after it.
THEOREM ClosuresEnd == Spec => ClosureEndsInPayout
  <1>1. IInv /\ [Next]_vars => [\A k \in PipeKeys : EndsInPayout(k)]_vars
    <2> SUFFICES ASSUME IInv, [Next]_vars, NEW j \in PipeKeys,
                        pipes[j].closer # NoPrincipal, pipes'[j] # pipes[j]
                 PROVE  /\ pipes'[j] = EmptyPipe(pipes'[j].nonce)
                        /\ held'[j] = 0
                        /\ height < pipes[j].expiresAt => pipes'[j].nonce > pipes[j].nonce
      BY DEF EndsInPayout
    <2>1. PICK k \in PipeKeys, q \in Pipe :
               /\ StepTo(k, q)
               /\ Locks(k, q) \/ Unlocks(k, q) \/ GivesNotice(k, q) \/ Settles(k, q)
      BY NextCases
    <2>2. j = k /\ pipes'[j] = q /\ held'[j] = Claims(q)
      BY <2>1, StepFrame
    <2>3. Settles(k, q)
      BY <2>1, <2>2 DEF Locks, Unlocks, GivesNotice
    <2>4. Claims(q) = 0
      <3>1. q.nonce \in Nat /\ q = EmptyPipe(q.nonce)
        BY <2>3 DEF Settles, Pipe
      <3>2. QED
        BY <3>1, EmptyPipeFacts
    <2>5. height \in Nat /\ pipes[j].expiresAt \in Nat
      BY PipeFacts, Heights DEF Pipe
    <2>6. height < pipes[j].expiresAt => q.nonce > pipes[j].nonce
      BY <2>2, <2>3, <2>5 DEF Settles
    <2>7. QED
      BY <2>2, <2>3, <2>4, <2>6 DEF Settles
  <1>2. Spec => [][\A k \in PipeKeys : EndsInPayout(k)]_vars
    BY <1>1, Invariance, PTL DEF Spec
  <1>3. QED
    BY <1>2 DEF ClosureEndsInPayout

--------------------------------------------------------------------------------
(* The contract implements the escrow *)

\* The escrow's view of a transaction on pipe k.
LEMMA EscrowView ==
    ASSUME IInv, NEW k \in PipeKeys, NEW q \in Pipe, StepTo(k, q)
    PROVE  Escrow!Set(k, Claims(q), q.nonce, q.expiresAt)
  <1>1. pipes'[k] = q /\ \A j \in PipeKeys \ {k} : pipes'[j] = pipes[j]
    BY StepFrame
  <1>2. Locked' = [Locked EXCEPT ![k] = Claims(q)]
    BY <1>1 DEF Locked
  <1>3. Version' = [Version EXCEPT ![k] = q.nonce]
    BY <1>1 DEF Version
  <1>4. Deadline' = [Deadline EXCEPT ![k] = q.expiresAt]
    BY <1>1 DEF Deadline
  <1>5. QED
    BY <1>2, <1>3, <1>4 DEF Escrow!Set, StepTo

\* What the escrow's variables are for pipe k.
LEMMA EscrowState ==
    ASSUME IInv, NEW k \in PipeKeys
    PROVE  /\ Locked[k] = Claims(pipes[k]) /\ Locked[k] \in Nat
           /\ Version[k] = pipes[k].nonce /\ Version[k] \in Nat
           /\ Deadline[k] = pipes[k].expiresAt /\ Deadline[k] \in Nat
           /\ Deadline[k] = MAX_HEIGHT <=> pipes[k].closer = NoPrincipal
           /\ Escrow!Owners(k) = Parties(k) /\ Parties(k) \subseteq Principals
           /\ \A p \in Parties(k) : wallet[p] \in Nat
           /\ Nonces = Escrow!Versions
  <1>1. pipes[k] \in Pipe /\ Closure(k, pipes[k]) /\ Parties(k) \subseteq Principals
    BY PipeFacts DEF Parties
  <1>2. Claims(pipes[k]) \in Nat
    BY <1>1 DEF Claims, Pipe, Pending
  <1>3. \A p \in Parties(k) : wallet[p] \in Nat
    BY <1>1 DEF IInv, TypeOK
  <1>4. QED
    BY <1>1, <1>2, <1>3 DEF Locked, Version, Deadline, Closure, Pipe, Parties,
         Escrow!Owners, Escrow!Versions, Nonces

\* A payout of x to p and y to the other party is one to the two in their order.
LEMMA PayoutInOrder ==
    ASSUME IInv, NEW k \in PipeKeys, NEW p \in Parties(k), NEW x \in Nat, NEW y \in Nat,
           Payout(k, p, x, Other(k, p), y), x + y = Claims(pipes[k])
    PROVE  \E n \in 0..Locked[k] :
              wallet' = [wallet EXCEPT ![k.principal1] = @ + n,
                                       ![k.principal2] = @ + (Locked[k] - n)]
  <1>1. wallet' = [wallet EXCEPT ![p] = @ + x, ![Other(k, p)] = @ + y]
    BY DEF Payout
  <1>2. Locked[k] = x + y /\ x \in 0..Locked[k] /\ y \in 0..Locked[k]
        /\ Locked[k] - x = y /\ Locked[k] - y = x
    BY EscrowState
  <1>3. CASE p = k.principal1
    BY <1>1, <1>2, <1>3 DEF Other
  <1>4. CASE p # k.principal1
    <2>1. p = k.principal2 /\ Other(k, p) = k.principal1
      BY <1>4 DEF Parties, Other
    <2>2. k.principal1 # k.principal2
      BY <1>4, <2>1
    <2>3. wallet' = [wallet EXCEPT ![k.principal1] = @ + y, ![k.principal2] = @ + x]
      BY <1>1, <2>1, <2>2 DEF IInv, TypeOK
    <2>4. QED
      BY <1>2, <2>3
  <1>5. QED
    BY <1>3, <1>4

\* Each of the four is a step of the escrow.
LEMMA EscrowStep ==
    ASSUME IInv, NEW k \in PipeKeys, NEW q \in Pipe, StepTo(k, q), q.nonce \in Nonces,
           Locks(k, q) \/ Unlocks(k, q) \/ GivesNotice(k, q) \/ Settles(k, q)
    PROVE  Escrow!Next
  <1>1. q.nonce \in Escrow!Versions /\ Closure(k, q)
    BY EscrowState DEF StepTo
  <1>2. CASE Locks(k, q)
    <2>1. PICK p \in Parties(k), n \in Nat :
               TransferIn(k, p, n) /\ Claims(q) = Claims(pipes[k]) + n
      BY <1>2 DEF Locks
    <2>2. Escrow!Set(k, Locked[k] + n, q.nonce, MAX_HEIGHT)
      BY <1>1, <1>2, <2>1, EscrowView, EscrowState DEF Locks, Closure
    <2>3. Escrow!Lock(k, p, n, q.nonce)
      BY <1>2, <2>1, <2>2, EscrowState DEF Escrow!Lock, Locks, TransferIn
    <2>4. n \in 0..wallet[p]
      BY <2>1, EscrowState DEF TransferIn
    <2>5. QED
      BY <1>1, <2>3, <2>4, EscrowState DEF Escrow!Next
  <1>3. CASE Unlocks(k, q)
    <2>1. PICK p \in Parties(k), n \in Nat :
               /\ ExecuteWithdraw(k, p, n)
               /\ n <= Claims(pipes[k]) /\ Claims(q) = Claims(pipes[k]) - n
      BY <1>3 DEF Unlocks
    <2>2. Escrow!Set(k, Locked[k] - n, q.nonce, MAX_HEIGHT)
      BY <1>1, <1>3, <2>1, EscrowView, EscrowState DEF Unlocks, Closure
    <2>3. Escrow!Unlock(k, p, n, q.nonce)
      BY <1>3, <2>1, <2>2, EscrowState DEF Escrow!Unlock, Unlocks, ExecuteWithdraw
    <2>4. n \in 0..Locked[k]
      BY <2>1, EscrowState
    <2>5. QED
      BY <1>1, <2>3, <2>4, EscrowState DEF Escrow!Next
  <1>4. CASE GivesNotice(k, q)
    <2>1. Escrow!Set(k, Locked[k], q.nonce, height + WAITING_PERIOD)
      BY <1>4, EscrowView, EscrowState DEF GivesNotice
    <2>2. Escrow!GiveNotice(k, q.nonce)
      BY <1>4, <2>1, EscrowState DEF Escrow!GiveNotice, GivesNotice
    <2>3. QED
      BY <1>1, <2>2 DEF Escrow!Next
  <1>5. CASE Settles(k, q)
    <2>1. PICK p \in Parties(k), x \in Nat, y \in Nat :
               Payout(k, p, x, Other(k, p), y) /\ x + y = Claims(pipes[k])
      BY <1>5 DEF Settles
    <2>2. PICK n \in 0..Locked[k] :
               wallet' = [wallet EXCEPT ![k.principal1] = @ + n,
                                        ![k.principal2] = @ + (Locked[k] - n)]
      BY <2>1, PayoutInOrder
    <2>3. Claims(q) = 0 /\ q.expiresAt = MAX_HEIGHT
      <3>1. q = EmptyPipe(q.nonce) /\ q.nonce \in Nat
        BY <1>5 DEF Settles, Pipe
      <3>2. EmptyPipe(q.nonce).expiresAt = MAX_HEIGHT
        BY DEF EmptyPipe, ClosedPipe
      <3>3. QED
        BY <3>1, <3>2, EmptyPipeFacts
    <2>4. Escrow!Set(k, 0, q.nonce, MAX_HEIGHT)
      BY <2>3, EscrowView
    <2>5. \/ q.nonce > Version[k]
          \/ q.nonce = Version[k] /\ Deadline[k] # MAX_HEIGHT /\ height >= Deadline[k]
      BY <1>5, EscrowState DEF Settles
    <2>6. Escrow!Settle(k, n, q.nonce)
      BY <2>2, <2>4, <2>5 DEF Escrow!Settle
    <2>7. QED
      BY <1>1, <2>6 DEF Escrow!Next
  <1>6. QED
    BY <1>2, <1>3, <1>4, <1>5

\* The contract implements the escrow: every transaction adds tokens, takes some out
\* by a newer agreement, gives notice or settles, and only as the escrow allows.
THEOREM Implements == Spec => ImplementsEscrow
  <1>1. Init => Escrow!Init
    <2> SUFFICES ASSUME Init PROVE Escrow!Init
      OBVIOUS
    <2>1. \A k \in PipeKeys : pipes[k] = EmptyPipe(0) /\ Claims(EmptyPipe(0)) = 0
      BY EmptyPipeFacts DEF Init
    <2>2. EmptyPipe(0).nonce = 0 /\ EmptyPipe(0).expiresAt = MAX_HEIGHT
      BY DEF EmptyPipe, ClosedPipe
    <2>3. QED
      BY <2>1, <2>2 DEF Init, Escrow!Init, Locked, Version, Deadline
  <1>2. IInv /\ [Next]_vars => [Escrow!Next]_(Escrow!escrowVars)
    <2> SUFFICES ASSUME IInv, [Next]_vars
                 PROVE  Escrow!Next \/ UNCHANGED Escrow!escrowVars
      OBVIOUS
    <2>1. ASSUME NEW k \in PipeKeys, NEW q \in Pipe, StepTo(k, q), q.nonce \in Nonces,
                 Locks(k, q) \/ Unlocks(k, q) \/ GivesNotice(k, q) \/ Settles(k, q)
          PROVE  Escrow!Next
      BY <2>1, EscrowStep
    <2>2. ASSUME UNCHANGED <<pipes, wallet>>
          PROVE  UNCHANGED <<wallet, Locked, Version, Deadline>>
      BY <2>2 DEF Locked, Version, Deadline
    <2>3. CASE BurnBlock /\ UNCHANGED <<pipes, wallet>>
      BY <2>2, <2>3 DEF BurnBlock, Escrow!Next, Escrow!Tick
    <2>4. CASE UNCHANGED <<pipes, wallet, height>>
      BY <2>2, <2>4 DEF Escrow!escrowVars
    <2>5. QED
      BY <2>1, <2>3, <2>4, NextCases
  <1>3. QED
    BY <1>1, <1>2, Invariance, PTL DEF Spec, ImplementsEscrow, Escrow!Spec

--------------------------------------------------------------------------------
(* Deposits wait for their confirmations: the inductive invariant *)

\* A pending deposit has an amount: close-pipe and withdraw look at amounts only, and
\* would overlook one of nothing.
Deposited(pending) == pending = NoPending \/ pending.amount > 0

DepositsHaveAmounts ==
    \A k \in PipeKeys : Deposited(pipes[k].pending1) /\ Deposited(pipes[k].pending2)

\* No deposit is left to wait for confirmations.
NothingWaits(p) ==
    SettledPending(p.pending1) = NoPending /\ SettledPending(p.pending2) = NoPending

\* What a call may do to one side: settle it, or put a deposit where none is waiting.
SideStep(old, new) ==
    \/ new = SettledPending(old)
    \/ SettledPending(old) = NoPending /\ Deposited(new)

\* What a call may do to the deposits of a pipe that it replaces by q.
DepositStepTo(p, q) ==
    /\ SideStep(p.pending1, q.pending1)
    /\ SideStep(p.pending2, q.pending2)
    /\ q.closer # NoPrincipal => NothingWaits(p)

--------------------------------------------------------------------------------
(* Each call is such a step *)

\* A call that leaves no deposits needs a pipe where none waits.
LEMMA ClearsDeposits ==
    ASSUME NEW p, NEW q, NothingWaits(p), q.pending1 = NoPending, q.pending2 = NoPending
    PROVE  DepositStepTo(p, q)
  BY DEF DepositStepTo, SideStep, NothingWaits, Deposited

\* A call that settles the pipe and opens no closure.
LEMMA SettlesDeposits ==
    ASSUME NEW p \in Pipe, NEW q, q.closer = NoPrincipal,
           q.pending1 = SettlePending(p).pending1, q.pending2 = SettlePending(p).pending2
    PROVE  DepositStepTo(p, q)
  BY SettleFields DEF DepositStepTo, SideStep

\* A call that adds a deposit where none waits.
LEMMA AddsDeposit ==
    ASSUME NEW p \in Pipe, NEW k, NEW sender, NEW amount \in Nat, amount > 0,
           height \in 0..Horizon,
           PendingOf(SettlePending(p), k, sender) = NoPending,
           NEW q, q.closer = NoPrincipal,
           q.pending1 = AddPending(SettlePending(p), k, sender, amount).pending1,
           q.pending2 = AddPending(SettlePending(p), k, sender, amount).pending2
    PROVE  DepositStepTo(p, q)
  <1> DEFINE settled == SettlePending(p)
             added == AddPending(settled, k, sender, amount)
  <1>1. settled \in Pipe
    BY Heights, SettleFacts
  <1>2. /\ settled.pending1 = SettledPending(p.pending1)
        /\ settled.pending2 = SettledPending(p.pending2)
    BY SettleFields
  <1>3. /\ sender = k.principal1 => added.pending1.amount = amount
                                    /\ added.pending2 = settled.pending2
        /\ sender # k.principal1 => added.pending2.amount = amount
                                    /\ added.pending1 = settled.pending1
    BY <1>1, AddPendingFacts
  <1> HIDE DEF settled, added
  <1>4. q.pending1 = added.pending1 /\ q.pending2 = added.pending2
        /\ PendingOf(settled, k, sender) = NoPending
    BY DEF added, settled
  <1>5. QED
    BY <1>2, <1>3, <1>4 DEF DepositStepTo, SideStep, Deposited, PendingOf

\* Deposits of nothing are none, so nothing waits when the pending amounts are 0.
LEMMA NoAmountNothingWaits ==
    ASSUME IInv, DepositsHaveAmounts, NEW k \in PipeKeys,
           PipeBalanceState(pipes[k], height).pendingTotal = 0
    PROVE  NothingWaits(pipes[k])
  <1> DEFINE p == pipes[k]
             settled == SettlePending(p)
             state == PipeBalanceState(p, height)
  <1>1. p \in Pipe /\ height \in Nat
    BY PipeFacts, Heights
  <1>2. /\ settled \in Pipe
        /\ state.pending1 = SettledPending(p.pending1).amount
        /\ state.pending2 = SettledPending(p.pending2).amount
    BY <1>1, SettleFacts, SettleFields
  <1>3. state.pending1 = 0 /\ state.pending2 = 0
    BY <1>1, StateTotals
  <1>4. Deposited(p.pending1) /\ Deposited(p.pending2)
    BY DEF DepositsHaveAmounts
  <1>5. ASSUME NEW pending, Deposited(pending), SettledPending(pending).amount = 0
        PROVE  SettledPending(pending) = NoPending
    BY <1>5 DEF Deposited, SettledPending
  <1>6. QED
    BY <1>2, <1>3, <1>4, <1>5 DEF NothingWaits

\* A pipe that is closing has nothing that waits.
LEMMA ClosingNothingWaits ==
    ASSUME IInv, NEW k \in PipeKeys, pipes[k].closer # NoPrincipal
    PROVE  NothingWaits(pipes[k])
  BY PipeFacts DEF Closure, NothingWaits, SettledPending

\* fund-pipe and deposit wait for the deposit of the same side to be confirmed.
LEMMA DepositCalls ==
    ASSUME IInv, NEW k \in PipeKeys, NEW p \in Parties(k), NEW amount \in Nat,
           NEW nonce \in Nat, NEW my \in Nat, NEW their \in Nat, NEW key1, NEW key2,
           \/ FundPipe(k, p, amount, nonce)
           \/ Deposit(k, p, amount, my, their, nonce, key1, key2)
    PROVE  DepositStepTo(pipes[k], pipes'[k])
  <1>1. pipes[k] \in Pipe /\ height \in 0..Horizon /\ pipes \in [PipeKeys -> Pipe]
    BY PipeFacts DEF IInv, TypeOK
  <1>2. CASE FundPipe(k, p, amount, nonce)
    <2> DEFINE pipe == IF k \in mapped THEN pipes[k] ELSE EmptyPipe(nonce)
               updated == AddPending(SettlePending(pipe), k, p, amount)
    <2>1. pipe \in Pipe
      BY <1>1, EmptyPipeFacts
    <2>2. /\ pipes'[k] = updated /\ amount > 0
          /\ PendingOf(SettlePending(pipe), k, p) = NoPending
          /\ SettlePending(pipe).closer = NoPrincipal
      BY <1>1, <1>2 DEF FundPipe, StorePipe, TransferIn
    <2>3. pipe.pending1 = pipes[k].pending1 /\ pipe.pending2 = pipes[k].pending2
      BY DEF IInv, UnmappedPipesAreEmpty, EmptyPipe, ClosedPipe
    <2> HIDE DEF pipe
    <2>4. updated.closer = NoPrincipal
      BY <1>1, <2>1, <2>2, Heights, SettleFacts, AddPendingFacts
    <2>5. DepositStepTo(pipe, pipes'[k])
      BY <1>1, <2>1, <2>2, <2>4, AddsDeposit
    <2>6. QED
      BY <2>3, <2>5 DEF DepositStepTo, NothingWaits
  <1>3. CASE Deposit(k, p, amount, my, their, nonce, key1, key2)
    <2> DEFINE settled == SettlePending(pipes[k])
               updated == AddPending(settled, k, p, amount)
               pre == PreBalances(settled, k, p, my, their, amount)
               q == [updated EXCEPT !.balance1 = pre.b1, !.balance2 = pre.b2, !.nonce = nonce]
    <2>1. /\ pipes'[k] = q /\ amount > 0
          /\ PendingOf(settled, k, p) = NoPending
          /\ pipes[k].closer = NoPrincipal
      BY <1>1, <1>3 DEF Deposit, DepositToPipe, StorePipe, TransferIn, ValidateTransition,
             DepositCheck
    <2>2. settled \in Pipe /\ settled.closer = NoPrincipal
      BY <1>1, <2>1, Heights, SettleFacts, SettleFields
    <2>3. updated \in Pipe /\ updated.closer = NoPrincipal
      BY <1>1, <2>1, <2>2, AddPendingFacts
    <2>4. /\ q.closer = NoPrincipal
          /\ q.pending1 = updated.pending1 /\ q.pending2 = updated.pending2
      BY <2>3 DEF Pipe
    <2> HIDE DEF q
    <2>5. QED
      BY <1>1, <2>1, <2>4, AddsDeposit
  <1>4. QED
    BY <1>2, <1>3

\* force-cancel and force-close look at the settled pipe and refuse what still waits.
LEMMA ForcedClosures ==
    ASSUME IInv, NEW k \in PipeKeys, NEW p \in Parties(k),
           NEW my, NEW their, NEW nonce, NEW validAfter, NEW key1, NEW key2,
           \/ ForceCancel(k, p)
           \/ ForceClose(k, p, my, their, nonce, validAfter, key1, key2)
    PROVE  DepositStepTo(pipes[k], pipes'[k])
  <1> DEFINE settled == SettlePending(pipes[k])
  <1>1. pipes[k] \in Pipe /\ pipes \in [PipeKeys -> Pipe] /\ settled \in Pipe
    BY PipeFacts, Heights, SettleFacts DEF IInv, TypeOK
  <1>2. settled.pending1 = NoPending /\ settled.pending2 = NoPending
    BY DEF ForceCancel, ForceClose, HasPending
  <1>3. NothingWaits(pipes[k])
    BY <1>1, <1>2, SettleFields DEF NothingWaits
  <1>4. pipes'[k].pending1 = NoPending /\ pipes'[k].pending2 = NoPending
    <2>1. CASE ForceCancel(k, p)
      <3>1. pipes'[k] = [settled EXCEPT !.expiresAt = height + WAITING_PERIOD, !.closer = p]
        BY <1>1, <2>1 DEF ForceCancel, StorePipe
      <3> HIDE DEF settled
      <3>2. QED
        BY <1>1, <1>2, <3>1 DEF Pipe
    <2>2. CASE ForceClose(k, p, my, their, nonce, validAfter, key1, key2)
      BY <1>1, <2>2 DEF ForceClose, StorePipe, ClosedPipe
    <2>3. QED
      BY <2>1, <2>2
  <1>5. QED
    BY <1>3, <1>4, ClearsDeposits

\* close-pipe, dispute-closure and finalize reset a pipe where nothing waits.
LEMMA Payouts ==
    ASSUME IInv, DepositsHaveAmounts, NEW k \in PipeKeys, NEW p, NEW my, NEW their, NEW nonce,
           NEW validAfter, NEW key1, NEW key2,
           \/ ClosePipe(k, p, my, their, nonce, key1, key2)
           \/ DisputeClosure(k, p, my, their, nonce, validAfter, key1, key2)
           \/ Finalize(k, p)
    PROVE  DepositStepTo(pipes[k], pipes'[k])
  <1>1. \E n : pipes'[k] = EmptyPipe(n)
    BY DEF ClosePipe, DisputeClosure, Finalize, FinalizeWhen, ResetPipe, StorePipe, IInv, TypeOK
  <1>2. pipes'[k].pending1 = NoPending /\ pipes'[k].pending2 = NoPending
    BY <1>1 DEF EmptyPipe, ClosedPipe
  <1>3. \/ PipeBalanceState(pipes[k], height).pendingTotal = 0
        \/ pipes[k].closer # NoPrincipal
    BY DEF ClosePipe, DisputeClosure, Finalize, FinalizeWhen, ValidateTransition, CloseCheck,
       HeightOf
  <1>4. NothingWaits(pipes[k])
    BY <1>3, NoAmountNothingWaits, ClosingNothingWaits
  <1>5. QED
    BY <1>2, <1>4, ClearsDeposits

\* withdraw settles the pipe and keeps its deposits.
LEMMA Withdrawals ==
    ASSUME IInv, NEW k \in PipeKeys, NEW p \in Parties(k), NEW amount \in Nat,
           NEW my \in Nat, NEW their \in Nat, NEW nonce \in Nat, NEW key1, NEW key2,
           Withdraw(k, p, amount, my, their, nonce, key1, key2)
    PROVE  DepositStepTo(pipes[k], pipes'[k])
  <1> DEFINE signed == MapBalances(p, k, my, their)
             settled == SettlePending(pipes[k])
             q == WithdrawnPipe(k, signed.b1, signed.b2, nonce)
  <1>1. pipes[k] \in Pipe /\ pipes \in [PipeKeys -> Pipe] /\ settled \in Pipe
    BY PipeFacts, Heights, SettleFacts DEF IInv, TypeOK
  <1>2. pipes'[k] = q /\ pipes[k].closer = NoPrincipal
    BY <1>1 DEF Withdraw, StorePipe, ValidateTransition, WithdrawalCheck
  <1>3. settled.closer = NoPrincipal
    BY <1>1, <1>2, SettleFields
  <1>4. /\ q.pending1 = settled.pending1 /\ q.pending2 = settled.pending2
        /\ q.closer = settled.closer
    BY <1>1 DEF WithdrawnPipe, Pipe
  <1> HIDE DEF q
  <1>5. QED
    BY <1>1, <1>2, <1>3, <1>4, SettlesDeposits

\* Every call on a pipe.
LEMMA PipeCallDeposits ==
    ASSUME IInv, DepositsHaveAmounts, NEW k \in PipeKeys, PipeCall(k)
    PROVE  DepositStepTo(pipes[k], pipes'[k])
  <1>1. ASSUME NEW p \in Parties(k), SignedCall(k, p)
        PROVE  DepositStepTo(pipes[k], pipes'[k])
    <2>1. PICK b \in BalancePairs, nonce \in Nonces, key1 \in SigningKeys, key2 \in SigningKeys :
            \/ ClosePipe(k, p, b[1], b[2], nonce, key1, key2)
            \/ \E validAfter \in ValidAfters :
                  \/ ForceClose(k, p, b[1], b[2], nonce, validAfter, key1, key2)
                  \/ DisputeClosure(k, p, b[1], b[2], nonce, validAfter, key1, key2)
            \/ \E amount \in Amounts :
                  \/ Deposit(k, p, amount, b[1], b[2], nonce, key1, key2)
                  \/ Withdraw(k, p, amount, b[1], b[2], nonce, key1, key2)
      BY <1>1 DEF SignedCall
    <2>2. b[1] \in Nat /\ b[2] \in Nat /\ nonce \in Nat /\ Amounts \subseteq Nat
      BY DEF BalancePairs, Amounts, Nonces
    <2>3. QED
      BY <2>1, <2>2, Payouts, ForcedClosures, DepositCalls, Withdrawals
  <1>2. ASSUME NEW p \in Parties(k), UnsignedCall(k, p)
        PROVE  DepositStepTo(pipes[k], pipes'[k])
    <2>1. Amounts \subseteq Nat /\ Nonces \subseteq Nat /\ 0 \in Nat
      BY DEF Amounts, Nonces
    <2>2. CASE \E amount \in Amounts, nonce \in Nonces : FundPipe(k, p, amount, nonce)
      BY <2>1, <2>2, DepositCalls
    <2>3. CASE ForceCancel(k, p)
      BY <2>3, ForcedClosures
    <2>4. QED
      BY <1>2, <2>2, <2>3 DEF UnsignedCall
  <1>3. ASSUME NEW p \in Principals, Finalize(k, p)
        PROVE  DepositStepTo(pipes[k], pipes'[k])
    BY <1>3, Payouts
  <1>4. QED
    BY <1>1, <1>2, <1>3 DEF PipeCall

\* A step settles or adds deposits in this way, or leaves the pipe alone.
LEMMA StepDeposits ==
    ASSUME IInv, DepositsHaveAmounts, [Next]_vars, NEW k \in PipeKeys
    PROVE  pipes'[k] = pipes[k] \/ DepositStepTo(pipes[k], pipes'[k])
  <1>1. ASSUME NEW j \in PipeKeys, PipeCall(j)
        PROVE  pipes'[k] = pipes[k] \/ DepositStepTo(pipes[k], pipes'[k])
    <2>1. CASE j = k
      BY <1>1, <2>1, PipeCallDeposits
    <2>2. CASE j # k
      BY <1>1, <2>2, PipeCallStep, StepFrame
    <2>3. QED
      BY <2>1, <2>2
  <1>2. CASE BurnBlock \/ Admin \/ UNCHANGED vars
    BY <1>2, BurnBlockStep, AdminStep DEF vars
  <1>3. QED
    BY <1>1, <1>2 DEF Next

--------------------------------------------------------------------------------
(* The theorem *)

\* Every pending deposit has an amount.
THEOREM AmountsInvariant == Spec => []DepositsHaveAmounts
  <1>1. Init => DepositsHaveAmounts
    BY DEF Init, DepositsHaveAmounts, Deposited, EmptyPipe, ClosedPipe
  <1>2. IInv /\ DepositsHaveAmounts /\ [Next]_vars => DepositsHaveAmounts'
    <2> SUFFICES ASSUME IInv, DepositsHaveAmounts, [Next]_vars, NEW k \in PipeKeys
                 PROVE  Deposited(pipes'[k].pending1) /\ Deposited(pipes'[k].pending2)
      BY DEF DepositsHaveAmounts, Deposited
    <2>1. Deposited(pipes[k].pending1) /\ Deposited(pipes[k].pending2)
      BY DEF DepositsHaveAmounts
    <2>2. QED
      BY <2>1, StepDeposits DEF DepositStepTo, SideStep, SettledPending, Deposited
  <1>3. QED
    BY <1>1, <1>2, Invariance, PTL DEF Spec

\* A deposit is kept, unspent, until it is confirmed: no call changes it, pays the pipe
\* out or starts its closure before.
THEOREM UnconfirmedStays == Spec => UnconfirmedDepositsStay
  <1>1. IInv /\ DepositsHaveAmounts /\ [Next]_vars
            => [\A k \in PipeKeys : UnconfirmedStay(k)]_vars
    <2> SUFFICES ASSUME IInv, DepositsHaveAmounts, [Next]_vars, NEW k \in PipeKeys
                 PROVE  UnconfirmedStay(k)
      OBVIOUS
    <2>1. /\ height \in Nat
          /\ pipes[k].pending1 \in Pending /\ pipes[k].pending2 \in Pending
      BY PipeFacts, Heights DEF Pipe
    <2>2. ASSUME NEW pending \in Pending, height < pending.burnHeight
          PROVE  SettledPending(pending) = pending /\ pending # NoPending
      <3>1. pending.burnHeight \in Nat /\ NoPending.burnHeight = 0
        BY DEF Pending, NoPending
      <3>2. ~(height >= pending.burnHeight) /\ pending.burnHeight # 0
        BY <2>1, <2>2, <3>1
      <3>3. QED
        BY <3>1, <3>2 DEF SettledPending, Mature
    <2>3. CASE DepositStepTo(pipes[k], pipes'[k])
      BY <2>1, <2>2, <2>3 DEF UnconfirmedStay, DepositStepTo, SideStep, NothingWaits
    <2>4. CASE pipes'[k] = pipes[k]
      <3>1. pipes[k].closer # NoPrincipal => NothingWaits(pipes[k])
        BY ClosingNothingWaits
      <3>2. QED
        BY <2>1, <2>2, <2>4, <3>1 DEF UnconfirmedStay, NothingWaits
    <2>5. QED
      BY <2>3, <2>4, StepDeposits
  <1>2. QED
    BY <1>1, Invariance, AmountsInvariant, PTL DEF Spec, UnconfirmedDepositsStay

================================================================================
