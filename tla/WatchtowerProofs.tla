--------------------------- MODULE WatchtowerProofs ----------------------------
(***************************************************************************)
(* Proofs about Watchtower, for every value of its constants: a closure    *)
(* against which the node stores a winning state is disputed before it     *)
(* ends, and the node's closures are the chain's once all is posted.       *)
(***************************************************************************)
EXTENDS Watchtower, StackflowContractProofs

--------------------------------------------------------------------------------
(* What is in the feed, in a call and in the tables *)

BurnNotice == [type : {"burn"}, height : 0..Horizon]

\* The sender of a closing event is a party, and the closer if one is printed.
ChainNotice ==
    {e \in [type : EventTypes, key : PipeKeys, pipe : Pipe, sender : Principals,
            txid : 0..MaxClosures, blockHeight : 0..Horizon] :
        Forced(e) => /\ e.sender \in {Us, Peer}
                     /\ e.pipe.closer \in {NoPrincipal, e.sender}
                     /\ e.txid # 0}

Transactions == [state : States, opens : BOOLEAN]
Disputes == [id : Node!AttemptIds, sent : BOOLEAN, tx : Transactions]
Rows == [closer : {Us, Peer}, nonce : Nat]

Calls ==
    {c \in [events : Seq(ChainNotice), rest : Seq(ChainNotice), dispute : Disputes \cup {None}] :
        Len(c.rest) <= Len(c.events)}

SystemTypes ==
    /\ agreed \subseteq States
    /\ feed \in Seq(ChainNotice \cup BurnNotice)
    /\ closureCount \in 0..MaxClosures
    /\ owed \in States \cup {None}
    /\ closures \in [PipeKeys -> Rows \cup {None}]
    /\ signatures \in [Node!Sides -> States \cup {None}]
    /\ \A side \in Node!Sides :
          signatures[side] # None => <<signatures[side].key, signatures[side].for>> = side
    /\ attempts \in [Node!AttemptIds -> BOOLEAN \cup {None}]
    /\ payments \subseteq Hashes /\ revealed \subseteq Hashes
    /\ mempool \subseteq Transactions
    /\ ingests \in [Ingests -> Calls]

\* How many of its events a call has handled; the others are its rest.
Handled(c) == Len(c.events) - Len(c.rest)

RestFollows(c) == \A k \in 1..Len(c.rest) : c.rest[k] = c.events[Handled(c) + k]

\* A call goes through its events in order, and its dispute was sent if it says so.
InOrder(c, pool) ==
    /\ RestFollows(c)
    /\ Len(c.events) <= MaxBatch
    /\ c # Node!Idle => c.events # <<>>
    /\ c.dispute # None /\ c.dispute.sent => c.dispute.tx \in pool

CallsInOrder == \A i \in Ingests : InOrder(ingests[i], mempool)

--------------------------------------------------------------------------------
(* The obligation to dispute *)

\* Nothing has the number of a closure that did not happen yet.
UpTo(c, n) ==
    /\ \A k \in 1..Len(c.events) : Forced(c.events[k]) => c.events[k].txid <= n
    /\ c.dispute # None => c.dispute.id[1] <= n

Numbered ==
    /\ \A k \in 1..Len(feed) : Forced(feed[k]) => feed[k].txid <= closureCount
    /\ \A i \in Ingests : UpTo(ingests[i], closureCount)
    /\ \A id \in Node!AttemptIds : attempts[id] # None => id[1] <= closureCount

\* The event of closure n, and what it says of the pipe p that Peer is closing.
Opens(e, n) == Forced(e) /\ e.txid = n

Describes(e, p) ==
    /\ e.key = ThePipe
    /\ Node!Closer(e) = Peer
    /\ e.pipe.nonce = p.nonce
    /\ e.pipe.balance1 = p.balance1 /\ e.pipe.balance2 = p.balance2
    /\ e.blockHeight + WAITING_PERIOD = p.expiresAt

\* A dispute of closure n.
Disputing(d, n) == d # None /\ d.id = <<n, Us>>

Winning(tx) == tx.opens /\ Wins(tx.state, OnChain)

\* The dispute was sent and will win, or was submitted in vain.
DisputeMade == SubmissionFailed \/ \E tx \in mempool : Winning(tx)

\* What is owed: a state that is due is stored.
OwedStored ==
    /\ OnChain.closer = Peer
    /\ closureCount # 0
    /\ Stored # None /\ Stored.nonce >= owed.nonce /\ Due(Stored, OnChain)
    /\ event.type # "finalize"

\* The events of the closure in the feed or in a call describe it.
Tells(c, n, p) == \A k \in 1..Len(c.events) : Opens(c.events[k], n) => Describes(c.events[k], p)

EventsDescribe ==
    /\ \A k \in 1..Len(feed) : Opens(feed[k], closureCount) => Describes(feed[k], OnChain)
    /\ \A i \in Ingests : Tells(ingests[i], closureCount, OnChain)

\* Every dispute of it wins, and none counts as submitted that was not sent.
DisputesWin ==
    /\ \A i \in Ingests : \A d \in Disputes :
          ingests[i].dispute = d /\ Disputing(d, closureCount) => Winning(d.tx)
    /\ attempts[<<closureCount, Us>>] = TRUE => \E tx \in mempool : Winning(tx)

\* The event waits in the feed until it was handled, and a call that handled it has
\* submitted the dispute or is about to.
Answers(c, n) == \A k \in 1..Handled(c) : Opens(c.events[k], n) => Disputing(c.dispute, n)

EventLeads ==
    \/ DisputeMade
    \/ /\ \E k \in 1..Len(feed) : Opens(feed[k], closureCount)
       /\ \A i \in Ingests : Answers(ingests[i], closureCount)

\* After the waiting period nobody works on it any more.
Free(c, n) ==
    ~Disputing(c.dispute, n) /\ \A k \in 1..Len(c.events) : ~Opens(c.events[k], n)

OverAfterExpiry ==
    height >= OnChain.expiresAt =>
        /\ SubmissionFailed
        /\ \A k \in 1..Len(feed) : ~Opens(feed[k], closureCount)
        /\ \A i \in Ingests : Free(ingests[i], closureCount)

Debt ==
    owed # None =>
        OwedStored /\ EventsDescribe /\ DisputesWin /\ EventLeads /\ OverAfterExpiry

WatchInv == IInv /\ SystemTypes /\ CallsInOrder /\ Numbered /\ Debt

--------------------------------------------------------------------------------
(* The closures of the node and of the chain, while posts do not overlap *)

Affects(e) == Forced(e) \/ e.type \in Node!TerminalEvents

RowOf(e) ==
    IF Forced(e) THEN [closer |-> Node!Closer(e), nonce |-> e.pipe.nonce] ELSE None

ChainRow ==
    IF OnChain.closer = NoPrincipal THEN None
    ELSE [closer |-> OnChain.closer, nonce |-> OnChain.nonce]

\* The last event of the feed that affects a closure leads to the row of the chain; if
\* there is none, the table has it.
FeedLeads ==
    \E m \in 0..Len(feed) :
        /\ \A l \in (m + 1)..Len(feed) : ~Affects(feed[l])
        /\ m = 0 => closures[ThePipe] = ChainRow
        /\ m # 0 => Affects(feed[m]) /\ RowOf(feed[m]) = ChainRow

FeedRises ==
    \A k \in 1..Len(feed) : \A l \in (k + 1)..Len(feed) :
        Forced(feed[k]) /\ Forced(feed[l]) => feed[k].txid < feed[l].txid

\* One call at most is not between two awaits.
Running(c) == c # Node!Idle /\ c.dispute = None

OneRuns == \A i, j \in Ingests : Running(ingests[i]) /\ Running(ingests[j]) => i = j

Alone == \A i, j \in Ingests : i = j

InFeed(c, f) == Len(c.events) <= Len(f) /\ \A k \in 1..Len(c.events) : c.events[k] = f[k]

\* A call works on the head of the feed, unless another one, of a single closing event,
\* overtook it while it waited for its dispute.
WorksOn(c, f) == Alone \/ c.rest # <<>> \/ ~Forced(c.events[1]) => InFeed(c, f)

\* Event k is the last one of those handled that affects a closure.
LastOf(c, k) ==
    Affects(c.events[k]) /\ \A l \in (k + 1)..Handled(c) : ~Affects(c.events[l])

\* What a call has handled of the head of the feed is in the table.
Reflects(c, f, row) ==
    InFeed(c, f) => \A k \in 1..Handled(c) : LastOf(c, k) => row = RowOf(c.events[k])

\* What is further down the feed is newer than the closing event of a call.
NewerFollow(c, f) ==
    \A k \in 2..Len(f) : Forced(f[k]) /\ Forced(c.events[1]) => c.events[1].txid < f[k].txid

\* A call that waits for its dispute waits at a closing event.
WaitsAtClosing(c) == c.dispute # None => Handled(c) >= 1 /\ Forced(c.events[Handled(c)])

Follows(c, f, row) ==
    /\ c # Node!Idle => WorksOn(c, f) /\ Reflects(c, f, row) /\ NewerFollow(c, f)
    /\ WaitsAtClosing(c)

CallsFollow == \A i \in Ingests : Follows(ingests[i], feed, closures[ThePipe])

ViewInv == FeedLeads /\ FeedRises /\ OneRuns /\ CallsFollow

--------------------------------------------------------------------------------
(* The chain *)

\* The pipe and its parties.
LEMMA Pair ==
    /\ ThePipe \in PipeKeys /\ \A k \in PipeKeys : k = ThePipe
    /\ Us \in Principals /\ Peer \in Principals /\ Us # Peer
    /\ Us # NoPrincipal /\ Peer # NoPrincipal
    /\ Parties(ThePipe) = {Us, Peer}
    /\ Us \in {ThePipe.principal1, ThePipe.principal2}
    /\ <<ThePipe, Us>> \in Node!Sides
  <1>1. ThePipe \in PipeKeys /\ \A k \in PipeKeys : k = ThePipe
    BY PairAssumption
  <1>2. Us \in {ThePipe.principal1, ThePipe.principal2}
        /\ Peer \in {ThePipe.principal1, ThePipe.principal2}
    BY PairAssumption
  <1>3. Us \in Principals /\ Peer \in Principals
    BY <1>1, <1>2, KeyAssumption
  <1>4. Us # NoPrincipal /\ Peer # NoPrincipal
    BY <1>3, PrincipalAssumption
  <1>5. <<ThePipe, Us>> \in Node!Sides
    BY <1>1, <1>2, <1>3 DEF Node!Sides
  <1>6. QED
    BY <1>1, <1>2, <1>3, <1>4, <1>5, PairAssumption DEF Parties

\* The fields of a state.
LEMMA StateFacts ==
    ASSUME NEW s \in States
    PROVE  /\ s.key = ThePipe /\ s.for = Us
           /\ s.my \in Nat /\ s.their \in Nat
           /\ s.nonce \in Nonces /\ s.nonce \in Nat /\ s.validAfter \in Int
           /\ s.hash \in Hashes \cup {None} /\ s # None
  BY StateAssumption, NodeConstants DEF Node!NodeAssumption, Nonces, NoHeight

\* The fields of a call.
LEMMA CallFacts ==
    ASSUME NEW c \in Calls
    PROVE  /\ c.events \in Seq(ChainNotice) /\ c.rest \in Seq(ChainNotice)
           /\ Len(c.events) \in Nat /\ Len(c.rest) \in Nat
           /\ Handled(c) \in 0..Len(c.events)
           /\ c.dispute \in Disputes \cup {None}
           /\ c = [events |-> c.events, rest |-> c.rest, dispute |-> c.dispute]
           /\ \A k \in 1..Len(c.events) : c.events[k] \in ChainNotice /\ c.events[k].txid \in Nat
           /\ c.dispute # None => c.dispute.id[1] \in Nat
  <1> DEFINE N == ChainNotice
             D == Disputes \cup {None}
  <1>1. c \in [events : Seq(N), rest : Seq(N), dispute : D] /\ Len(c.rest) <= Len(c.events)
    BY DEF Calls
  <1> HIDE DEF N, D
  <1>2. /\ c.events \in Seq(N) /\ c.rest \in Seq(N) /\ c.dispute \in D
        /\ c = [events |-> c.events, rest |-> c.rest, dispute |-> c.dispute]
    BY <1>1
  <1>3. Len(c.events) \in Nat /\ Len(c.rest) \in Nat
        /\ \A k \in 1..Len(c.events) : c.events[k] \in N
    BY <1>2
  <1>4. Handled(c) \in 0..Len(c.events)
    BY <1>1, <1>3 DEF Handled
  <1>5. \A e \in N : e.txid \in Nat
    BY PairAssumption DEF N, ChainNotice
  <1>6. c.dispute # None => c.dispute.id[1] \in Nat
    <2>1. ASSUME NEW d \in Disputes
          PROVE  d.id[1] \in Nat
      <3>1. d.id \in Node!AttemptIds
        BY DEF Disputes
      <3>2. d.id[1] \in 1..MaxClosures
        BY <3>1 DEF Node!AttemptIds
      <3>3. QED
        BY <3>2, PairAssumption
    <2>2. QED
      BY <1>2, <2>1 DEF D
  <1>7. QED
    BY <1>2, <1>3, <1>4, <1>5, <1>6 DEF N, D

\* What a transaction may do to the pipe: nothing, move tokens while it is open, start a
\* closure, or end one.
Rests == event' = NoEvent /\ UNCHANGED pipes

Moves ==
    /\ event' \in Event /\ event'.type \in {"fund-pipe", "deposit", "withdraw"}
    /\ OnChain.closer = NoPrincipal /\ OnChain'.closer = NoPrincipal

Starts ==
    /\ event' \in Event /\ event'.type \in {"force-cancel", "force-close"}
    /\ closureCount < MaxClosures
    /\ event'.sender \in {Us, Peer}
    /\ event'.pipe.closer \in {NoPrincipal, event'.sender}
    /\ event'.pipe.nonce = OnChain'.nonce
    /\ event'.pipe.balance1 = OnChain'.balance1
    /\ event'.pipe.balance2 = OnChain'.balance2
    /\ OnChain.closer = NoPrincipal
    /\ OnChain'.closer = event'.sender
    /\ OnChain'.expiresAt = height + WAITING_PERIOD

Ends ==
    /\ event' \in Event /\ event'.type \in {"close-pipe", "dispute-closure", "finalize"}
    /\ OnChain'.closer = NoPrincipal
    /\ event'.type = "finalize" =>
          OnChain.closer # NoPrincipal /\ height >= OnChain.expiresAt

\* A step of the contract on the pipe that keeps its books.
LEMMA PipeStep ==
    ASSUME IInv, NEW q, StepTo(ThePipe, q), q.nonce \in Nonces
    PROVE  IInv' /\ OnChain' = q /\ UNCHANGED height /\ event' \in Event
  BY Pair, StepPreserves, StepFrame DEF OnChain, StepTo

\* A signed movement of tokens.
LEMMA MoveFundsStep ==
    ASSUME IInv, NEW p \in {Us, Peer}, MoveFunds(p)
    PROVE  IInv' /\ UNCHANGED height /\ Moves
  <1>1. PICK b \in BalancePairs, nonce \in Nonces, amount \in Amounts \ {0} :
          \/ Deposit(ThePipe, p, amount, b[1], b[2], nonce, p, Other(ThePipe, p))
          \/ Withdraw(ThePipe, p, amount, b[1], b[2], nonce, p, Other(ThePipe, p))
    BY DEF MoveFunds
  <1>2. /\ ThePipe \in PipeKeys /\ p \in Parties(ThePipe)
        /\ amount \in Nat /\ b[1] \in Nat /\ b[2] \in Nat /\ nonce \in Nat
    BY Pair DEF BalancePairs, Amounts, Nonces
  <1>3. PICK q : /\ StepTo(ThePipe, q) /\ q.nonce = nonce
                 /\ q.closer = NoPrincipal /\ OnChain.closer = NoPrincipal
    <2>1. CASE Deposit(ThePipe, p, amount, b[1], b[2], nonce, p, Other(ThePipe, p))
      BY <1>2, <2>1, DepositStep DEF OnChain
    <2>2. CASE Withdraw(ThePipe, p, amount, b[1], b[2], nonce, p, Other(ThePipe, p))
      BY <1>2, <2>2, WithdrawStep DEF OnChain
    <2>3. QED
      BY <1>1, <2>1, <2>2
  <1>4. \E type \in {"deposit", "withdraw"} : \E u : Emit(type, ThePipe, u, p)
    BY <1>1, Zenon DEF Deposit, DepositToPipe, Withdraw
  <1>5. QED
    BY <1>3, <1>4, PipeStep DEF Moves, Emit

\* A closure that is forced without signatures.
LEMMA ForceCancelStarts ==
    ASSUME IInv, NEW p \in {Us, Peer}, closureCount < MaxClosures, ForceCancel(ThePipe, p)
    PROVE  IInv' /\ UNCHANGED height /\ Starts
  <1> DEFINE settled == SettlePending(OnChain)
             closing == [settled EXCEPT !.expiresAt = height + WAITING_PERIOD, !.closer = p]
  <1>1. /\ ThePipe \in PipeKeys /\ p \in Parties(ThePipe) /\ p \in Principals
        /\ OnChain \in Pipe /\ OnChain.nonce \in Nonces /\ height \in Nat
    BY Pair, PipeFacts, Heights DEF OnChain, IInv
  <1>2. PICK q : /\ StepTo(ThePipe, q) /\ q.nonce = OnChain.nonce
                 /\ q.expiresAt = height + WAITING_PERIOD /\ OnChain.closer = NoPrincipal
    BY <1>1, ForceCancelStep DEF OnChain
  <1>3. /\ StorePipe(ThePipe, closing) /\ Emit("force-cancel", ThePipe, settled, p)
        /\ settled.closer = NoPrincipal
    BY Zenon DEF ForceCancel, OnChain
  <1>4. settled \in Pipe
    BY <1>1, SettleFacts
  <1> HIDE DEF settled
  <1>5. closing.closer = p /\ closing.nonce = settled.nonce
        /\ closing.balance1 = settled.balance1 /\ closing.balance2 = settled.balance2
    BY <1>4 DEF Pipe
  <1>6. OnChain' = closing
    BY <1>1, <1>3 DEF StorePipe, OnChain, IInv, TypeOK
  <1> HIDE DEF closing
  <1>7. IInv' /\ OnChain' = q /\ UNCHANGED height /\ event' \in Event
    BY <1>1, <1>2, PipeStep
  <1>8. /\ event'.type = "force-cancel" /\ event'.sender = p /\ event'.pipe = settled
    BY <1>3 DEF Emit
  <1>9. QED
    BY <1>2, <1>3, <1>5, <1>6, <1>7, <1>8 DEF Starts

\* A closure that is forced with a state that both signed.
LEMMA ForceCloseStarts ==
    ASSUME IInv, NEW p \in {Us, Peer}, NEW s \in States, closureCount < MaxClosures,
           ForceCloseWith(p, s)
    PROVE  IInv' /\ UNCHANGED height /\ Starts
  <1> DEFINE my == My(p, s)
             their == Their(p, s)
             signed == MapBalances(p, ThePipe, my, their)
             closed == ClosedPipe(signed.b1, signed.b2, s.nonce)
             closing == [closed EXCEPT !.expiresAt = height + WAITING_PERIOD, !.closer = p]
  <1>1. /\ ThePipe \in PipeKeys /\ p \in Parties(ThePipe)
        /\ s.nonce \in Nonces /\ s.nonce \in Nat /\ s.validAfter \in Int
        /\ my \in Nat /\ their \in Nat
    BY Pair, StateFacts DEF My, Their
  <1>2. ForceClose(ThePipe, p, my, their, s.nonce, s.validAfter, p, Other(ThePipe, p))
    BY DEF ForceCloseWith
  <1> HIDE DEF my, their
  <1>3. PICK q : /\ StepTo(ThePipe, q) /\ q.nonce = s.nonce
                 /\ q.expiresAt = height + WAITING_PERIOD /\ OnChain.closer = NoPrincipal
    BY <1>1, <1>2, ForceCloseStep DEF OnChain
  <1>4. StorePipe(ThePipe, closing) /\ Emit("force-close", ThePipe, closing, p)
    BY <1>2, Zenon DEF ForceClose
  <1>5. closing.closer = p
    BY DEF ClosedPipe
  <1>6. OnChain' = closing
    BY <1>1, <1>4 DEF StorePipe, OnChain, IInv, TypeOK
  <1> HIDE DEF closing
  <1>7. IInv' /\ OnChain' = q /\ UNCHANGED height /\ event' \in Event
    BY <1>1, <1>3, PipeStep
  <1>8. /\ event'.type = "force-close" /\ event'.sender = p /\ event'.pipe = closing
    BY <1>4 DEF Emit
  <1>9. QED
    BY <1>3, <1>5, <1>6, <1>7, <1>8 DEF Starts

\* A closure, forced or agreed upon, that ends in a payout.
LEMMA EndsInReset ==
    ASSUME IInv,
           \/ \E p \in {Us, Peer} : CloseTogether(p) \/ Finalize(ThePipe, p)
           \/ \E tx \in Transactions : MineDispute(tx)
    PROVE  IInv' /\ UNCHANGED height /\ Ends
  <1>1. ThePipe \in PipeKeys /\ OnChain.nonce \in Nonces
    BY Pair DEF IInv, OnChain
  <1>2. ASSUME NEW n \in Nonces, StepTo(ThePipe, EmptyPipe(n))
        PROVE  IInv' /\ UNCHANGED height /\ event' \in Event /\ OnChain'.closer = NoPrincipal
    <2>1. EmptyPipe(n).nonce = n /\ EmptyPipe(n).closer = NoPrincipal
      BY DEF EmptyPipe, ClosedPipe
    <2>2. QED
      BY <1>2, <2>1, PipeStep
  <1>3. ASSUME NEW p \in {Us, Peer}, CloseTogether(p)
        PROVE  IInv' /\ UNCHANGED height /\ Ends
    <2>1. PICK b \in BalancePairs, nonce \in Nonces :
            ClosePipe(ThePipe, p, b[1], b[2], nonce, p, Other(ThePipe, p))
      BY <1>3 DEF CloseTogether
    <2>2. b[1] \in Nat /\ b[2] \in Nat /\ nonce \in Nat /\ p \in Principals
      BY Pair DEF BalancePairs, Amounts, Nonces
    <2>3. StepTo(ThePipe, EmptyPipe(nonce))
      BY <1>1, <2>1, <2>2, ClosePipeStep
    <2>4. event'.type = "close-pipe"
      BY <2>1 DEF ClosePipe, Emit
    <2>5. QED
      BY <1>2, <2>3, <2>4 DEF Ends
  <1>4. ASSUME NEW p \in {Us, Peer}, Finalize(ThePipe, p)
        PROVE  IInv' /\ UNCHANGED height /\ Ends
    <2>1. /\ StepTo(ThePipe, EmptyPipe(OnChain.nonce))
          /\ OnChain.closer # NoPrincipal /\ height >= OnChain.expiresAt
      BY <1>1, <1>4, Pair, FinalizeStep DEF OnChain
    <2>2. event'.type = "finalize"
      BY <1>4 DEF Finalize, FinalizeWhen, Emit
    <2>3. QED
      BY <1>1, <1>2, <2>1, <2>2 DEF Ends
  <1>5. ASSUME NEW tx \in Transactions, MineDispute(tx)
        PROVE  IInv' /\ UNCHANGED height /\ Ends
    <2> DEFINE s == tx.state
    <2>1. s \in States
      BY DEF Transactions
    <2>2. DisputeClosure(ThePipe, Us, s.my, s.their, s.nonce, s.validAfter, Us, Peer)
      BY <1>5 DEF MineDispute
    <2>3. /\ s.my \in Nat /\ s.their \in Nat /\ s.nonce \in Nonces /\ s.nonce \in Nat
          /\ s.validAfter \in Int /\ Us \in Parties(ThePipe)
      BY <2>1, StateFacts, Pair
    <2>4. StepTo(ThePipe, EmptyPipe(s.nonce))
      BY <1>1, <2>2, <2>3, DisputeClosureStep
    <2>5. event'.type = "dispute-closure"
      BY <2>2 DEF DisputeClosure, Emit
    <2>6. QED
      BY <1>2, <2>3, <2>4, <2>5 DEF Ends
  <1>6. QED
    BY <1>3, <1>4, <1>5

\* Every transaction keeps the books and is one of those.
LEMMA TransactionStep ==
    ASSUME IInv, agreed \subseteq States, mempool \subseteq Transactions, Transaction
    PROVE  /\ IInv' /\ UNCHANGED height
           /\ Rests \/ Moves \/ Starts \/ Ends
  <1>1. ASSUME NEW p \in Principals, NEW token \in Tokens, InitContract(p, token)
        PROVE  IInv' /\ UNCHANGED height /\ Rests
    <2>1. IInv'
      BY <1>1, AdminStep DEF Admin
    <2>2. QED
      BY <1>1, <2>1 DEF InitContract, Rests
  <1>2. ASSUME NEW p \in {Us, Peer}, NEW amount \in Amounts \ {0},
               FundPipe(ThePipe, p, amount, OnChain.nonce)
        PROVE  IInv' /\ UNCHANGED height /\ Moves
    <2>1. /\ ThePipe \in PipeKeys /\ p \in Principals /\ amount \in Nat
          /\ OnChain.nonce \in Nonces /\ OnChain.nonce \in Nat
      BY Pair DEF IInv, OnChain, Amounts, Nonces
    <2>2. PICK q : /\ StepTo(ThePipe, q) /\ q.closer = NoPrincipal
                   /\ q.nonce = OnChain.nonce /\ OnChain.closer = NoPrincipal
      BY <1>2, <2>1, FundPipeStep DEF OnChain
    <2>3. \E u : Emit("fund-pipe", ThePipe, u, p)
      BY <1>2, Zenon DEF FundPipe
    <2>4. QED
      BY <2>1, <2>2, <2>3, PipeStep DEF Moves, Emit
  <1>3. ASSUME NEW p \in {Us, Peer}, Close(p)
        PROVE  IInv' /\ UNCHANGED height /\ (Starts \/ Ends)
    BY <1>3, ForceCancelStarts, ForceCloseStarts, EndsInReset DEF Close
  <1>4. QED
    BY <1>1, <1>2, <1>3, MoveFundsStep, EndsInReset DEF Transaction

\* What is posted of the transaction just made.
PostedEvent ==
    [type |-> event'.type, key |-> event'.key, pipe |-> event'.pipe, sender |-> event'.sender,
     txid |-> closureCount', blockHeight |-> height]

PostedBlock == [type |-> "burn", height |-> height']

\* The five things that the chain can do.
ChainRests ==
    /\ Rests /\ UNCHANGED <<height, closureCount, feed>> /\ owed' \in {owed, None}

ChainMoves ==
    /\ Moves /\ UNCHANGED <<height, closureCount>> /\ owed' = None
    /\ feed' = Append(feed, PostedEvent)

ChainStarts ==
    /\ Starts /\ UNCHANGED height /\ closureCount' = closureCount + 1
    /\ event'.sender = Us => owed' = owed
    /\ event'.sender = Peer => owed' = IF Due(Stored, OnChain') THEN Stored ELSE None
    /\ feed' = Append(feed, PostedEvent)

ChainEnds ==
    /\ Ends /\ UNCHANGED <<height, closureCount>> /\ owed' = None
    /\ feed' = Append(feed, PostedEvent)

ChainGrows ==
    /\ Timely /\ Rests /\ height' = height + 1 /\ height' \in 0..Horizon
    /\ UNCHANGED closureCount
    /\ owed' \in {owed, None} /\ (OnChain.closer # NoPrincipal => owed' = owed)
    /\ feed' = Append(feed, PostedBlock)

\* A step of the chain keeps the books and is one of them.
LEMMA ChainStep ==
    ASSUME IInv, SystemTypes, Chain
    PROVE  /\ IInv' /\ UNCHANGED <<agreed, nodeVars>>
           /\ ChainRests \/ ChainMoves \/ ChainStarts \/ ChainEnds \/ ChainGrows
  <1>1. /\ feed \in Seq(ChainNotice \cup BurnNotice) /\ feed' = feed \o Notice
        /\ height \in Nat /\ UNCHANGED <<agreed, nodeVars>>
    BY PipeFacts, Pair, Heights DEF SystemTypes, Chain
  <1>2. \A n : feed \o <<n>> = Append(feed, n)
    BY <1>1
  <1>3. feed \o <<>> = feed
    BY <1>1
  <1>4. /\ ~Forced(event') => closureCount' = closureCount
        /\ Forced(event') => closureCount' = closureCount + 1
    BY DEF Chain
  <1>5. /\ owed' \in {owed, None} \/ (Forced(event') /\ event'.sender = Peer)
        /\ Forced(event') /\ event'.sender = Peer
              => \/ OnChain'.closer = NoPrincipal
                 \/ owed' = IF Due(Stored, OnChain') THEN Stored ELSE None
        /\ ~(Forced(event') /\ event'.sender = Peer) /\ OnChain'.closer = NoPrincipal => owed' = None
        /\ ~(Forced(event') /\ event'.sender = Peer) /\ OnChain'.closer # NoPrincipal => owed' = owed
    BY DEF Chain, OnChain
  <1>6. CASE Transaction
    <2>1. IInv' /\ UNCHANGED height /\ (Rests \/ Moves \/ Starts \/ Ends)
      BY <1>6, TransactionStep DEF SystemTypes
    <2>2. CASE Rests
      <3>1. event' = NoEvent /\ ~Forced(event')
        BY <2>2 DEF Rests, Forced, NoEvent
      <3>2. Notice = <<>>
        BY <2>1, <3>1 DEF Notice
      <3>3. ChainRests
        BY <1>1, <1>3, <1>4, <1>5, <2>1, <2>2, <3>1, <3>2 DEF ChainRests
      <3>4. QED
        BY <1>1, <2>1, <3>3
    <2>3. ASSUME event' \in Event
          PROVE  feed' = Append(feed, PostedEvent)
      <3>1. event'.type \in EventTypes
        BY <2>3 DEF Event
      <3>2. event' # NoEvent
        BY <3>1 DEF NoEvent, EventTypes
      <3>3. Notice = <<PostedEvent>>
        BY <2>1, <3>2, Zenon DEF Notice, PostedEvent
      <3>4. QED
        BY <1>1, <1>2, <3>3
    <2>4. CASE Moves
      <3>1. ~Forced(event') /\ OnChain'.closer = NoPrincipal /\ event' \in Event
        BY <2>4 DEF Moves, Forced
      <3>2. ChainMoves
        BY <1>4, <1>5, <2>1, <2>3, <2>4, <3>1 DEF ChainMoves
      <3>3. QED
        BY <1>1, <2>1, <3>2
    <2>5. CASE Starts
      <3>1. /\ Forced(event') /\ event' \in Event /\ OnChain'.closer = event'.sender
            /\ event'.sender \in {Us, Peer}
        BY <2>5 DEF Starts, Forced
      <3>2. ChainStarts
        BY <1>4, <1>5, <2>1, <2>3, <2>5, <3>1, Pair DEF ChainStarts
      <3>3. QED
        BY <1>1, <2>1, <3>2
    <2>6. CASE Ends
      <3>1. ~Forced(event') /\ OnChain'.closer = NoPrincipal /\ event' \in Event
        BY <2>6 DEF Ends, Forced
      <3>2. ChainEnds
        BY <1>4, <1>5, <2>1, <2>3, <2>6, <3>1 DEF ChainEnds
      <3>3. QED
        BY <1>1, <2>1, <3>2
    <2>7. QED
      BY <2>1, <2>2, <2>4, <2>5, <2>6
  <1>7. CASE Timely /\ BurnBlock
    <2>1. Rests /\ height' = height + 1 /\ ~Forced(event')
      BY <1>7 DEF BurnBlock, Rests, Forced, NoEvent
    <2>2. IInv'
      BY <1>7, NextInvariant DEF Next
    <2>3. height' \in 0..Horizon /\ height' # height
      BY <1>1, <2>1, <2>2 DEF IInv, TypeOK
    <2>4. Notice = <<PostedBlock>>
      BY <2>3, Zenon DEF Notice, PostedBlock
    <2>5. OnChain' = OnChain
      BY <2>1 DEF Rests, OnChain
    <2>6. ChainGrows
      BY <1>1, <1>2, <1>4, <1>5, <1>7, <2>1, <2>3, <2>4, <2>5 DEF ChainGrows
    <2>7. QED
      BY <1>1, <2>2, <2>6
  <1>8. QED
    BY <1>6, <1>7 DEF Chain

\* What is appended to the feed is a notice; its number is that of the latest closure.
LEMMA PostedFacts ==
    ASSUME IInv, SystemTypes, ChainMoves \/ ChainStarts \/ ChainEnds
    PROVE  /\ PostedEvent \in ChainNotice
           /\ closureCount' \in 0..MaxClosures /\ closureCount' \in Nat
           /\ PostedEvent.txid = closureCount'
           /\ Forced(PostedEvent) <=> ChainStarts
           /\ Affects(PostedEvent) <=> ~ChainMoves
  <1>1. /\ event' \in Event /\ height \in 0..Horizon /\ closureCount \in 0..MaxClosures
        /\ MaxClosures \in Nat
    BY Pair, PipeFacts, PairAssumption
       DEF ChainMoves, ChainStarts, ChainEnds, Moves, Starts, Ends, SystemTypes
  <1>2. closureCount' \in 0..MaxClosures /\ closureCount' \in Nat
        /\ (ChainStarts => closureCount' # 0)
    BY <1>1 DEF ChainMoves, ChainStarts, ChainEnds, Starts
  <1>3. /\ Forced(PostedEvent) <=> event'.type \in {"force-cancel", "force-close"}
        /\ Affects(PostedEvent) <=> event'.type \in {"force-cancel", "force-close", "close-pipe",
                                                   "dispute-closure", "finalize"}
        /\ PostedEvent.txid = closureCount'
    BY DEF Forced, PostedEvent, Affects, Node!TerminalEvents
  <1>4. /\ Forced(PostedEvent) <=> ChainStarts
        /\ Affects(PostedEvent) <=> ~ChainMoves
    BY <1>3 DEF ChainMoves, ChainStarts, ChainEnds, Moves, Starts, Ends
  <1>5. Forced(PostedEvent) => /\ PostedEvent.sender \in {Us, Peer}
                               /\ PostedEvent.pipe.closer \in {NoPrincipal, PostedEvent.sender}
                               /\ PostedEvent.txid # 0
    BY <1>2, <1>4 DEF ChainStarts, Starts, PostedEvent
  <1>6. PostedEvent \in [type : EventTypes, key : PipeKeys, pipe : Pipe, sender : Principals,
                         txid : 0..MaxClosures, blockHeight : 0..Horizon]
    BY <1>1, <1>2 DEF Event, PostedEvent
  <1>7. QED
    BY <1>2, <1>3, <1>4, <1>5, <1>6 DEF ChainNotice

\* A burn notice is no closing event.
LEMMA BurnFacts ==
    ASSUME ChainGrows
    PROVE  /\ PostedBlock \in BurnNotice
           /\ ~Forced(PostedBlock) /\ ~Affects(PostedBlock)
  BY DEF ChainGrows, PostedBlock, BurnNotice, Forced, Affects, Node!TerminalEvents

\* Appending to a sequence.
LEMMA AppendFacts ==
    ASSUME NEW S, NEW s \in Seq(S), NEW e \in S
    PROVE  /\ Append(s, e) \in Seq(S)
           /\ Len(Append(s, e)) = Len(s) + 1 /\ Len(s) \in Nat
           /\ \A k \in 1..Len(s) : Append(s, e)[k] = s[k]
           /\ Append(s, e)[Len(s) + 1] = e
           /\ \A k \in 1..Len(s) : s[k] \in S
  OBVIOUS

\* The feed after a step of the chain: as it was, or with one notice more.
LEMMA FeedGrows ==
    ASSUME IInv, SystemTypes,
           ChainRests \/ ChainMoves \/ ChainStarts \/ ChainEnds \/ ChainGrows
    PROVE  /\ feed' \in Seq(ChainNotice \cup BurnNotice)
           /\ Len(feed) \in Nat /\ Len(feed) <= Len(feed')
           /\ \A k \in 1..Len(feed) : feed'[k] = feed[k]
           /\ ChainRests => feed' = feed
           /\ ~ChainRests => Len(feed') = Len(feed) + 1
           /\ ChainMoves \/ ChainStarts \/ ChainEnds => feed'[Len(feed) + 1] = PostedEvent
           /\ ChainGrows => feed'[Len(feed) + 1] = PostedBlock
  <1> DEFINE All == ChainNotice \cup BurnNotice
  <1>1. feed \in Seq(All)
    BY DEF SystemTypes
  <1> HIDE DEF All
  <1>2. CASE ChainRests
    <2>1. ~ChainMoves /\ ~ChainStarts /\ ~ChainEnds /\ ~ChainGrows
      BY <1>2 DEF ChainRests, ChainMoves, ChainStarts, ChainEnds, ChainGrows,
           Rests, Moves, Starts, Ends, NoEvent, IInv, TypeOK
    <2>2. feed' = feed
      BY <1>2 DEF ChainRests
    <2>3. QED
      BY <1>1, <1>2, <2>1, <2>2 DEF All
  <1>3. CASE ChainMoves \/ ChainStarts \/ ChainEnds
    <2>1. PostedEvent \in All /\ feed' = Append(feed, PostedEvent)
      BY <1>3, PostedFacts DEF All, ChainMoves, ChainStarts, ChainEnds
    <2>2. ~ChainRests /\ ~ChainGrows
      BY <1>3 DEF ChainRests, ChainMoves, ChainStarts, ChainEnds, ChainGrows,
           Rests, Moves, Starts, Ends, NoEvent
    <2>3. QED
      BY <1>1, <1>3, <2>1, <2>2, AppendFacts DEF All
  <1>4. CASE ChainGrows
    <2>1. PostedBlock \in All /\ feed' = Append(feed, PostedBlock)
      BY <1>4, BurnFacts DEF All, ChainGrows
    <2>2. ~ChainRests /\ ~ChainMoves /\ ~ChainStarts /\ ~ChainEnds
      BY <1>4 DEF ChainRests, ChainMoves, ChainStarts, ChainEnds, ChainGrows,
           Rests, Moves, Starts, Ends, NoEvent, IInv, TypeOK
    <2>3. QED
      BY <1>1, <1>4, <2>1, <2>2, AppendFacts DEF All
  <1>5. QED
    BY <1>2, <1>3, <1>4

\* A step of the chain keeps the types and the numbers.
LEMMA ChainTypes ==
    ASSUME WatchInv, UNCHANGED <<agreed, nodeVars>>,
           ChainRests \/ ChainMoves \/ ChainStarts \/ ChainEnds \/ ChainGrows
    PROVE  SystemTypes' /\ CallsInOrder' /\ Numbered'
  <1> USE DEF WatchInv
  <1>1. /\ UNCHANGED <<agreed, closures, signatures, attempts, payments, revealed, mempool,
                       ingests>>
    BY DEF nodeVars
  <1>2. feed' \in Seq(ChainNotice \cup BurnNotice)
    BY FeedGrows
  <1>3. closureCount' \in 0..MaxClosures /\ closureCount \in Nat /\ closureCount' >= closureCount
        /\ closureCount' \in Nat
    BY PostedFacts, PairAssumption
       DEF SystemTypes, ChainRests, ChainMoves, ChainStarts, ChainEnds, ChainGrows
  <1>4. owed' \in States \cup {None}
    <2>1. Stored \in States \cup {None}
      BY Pair DEF SystemTypes, Stored
    <2>2. ChainStarts => event'.sender \in {Us, Peer}
      BY DEF ChainStarts, Starts
    <2>3. owed' \in {owed, Stored, None}
      BY <2>2 DEF ChainRests, ChainMoves, ChainStarts, ChainEnds, ChainGrows
    <2>4. QED
      BY <2>1, <2>3 DEF SystemTypes
  <1>5. SystemTypes'
    BY <1>1, <1>2, <1>3, <1>4 DEF SystemTypes
  <1>6. CallsInOrder'
    BY <1>1 DEF CallsInOrder
  <1>7. \A k \in 1..Len(feed') : Forced(feed'[k]) => feed'[k].txid <= closureCount'
    <2>1. SUFFICES ASSUME NEW k \in 1..Len(feed'), Forced(feed'[k])
                   PROVE  feed'[k].txid <= closureCount'
      OBVIOUS
    <2>2. CASE k \in 1..Len(feed)
      <3>1. feed'[k] = feed[k]
        BY <2>2, FeedGrows
      <3>2. feed[k].txid \in Nat /\ feed[k].txid <= closureCount
        <4>1. feed[k] \in ChainNotice \cup BurnNotice
          BY <2>2 DEF SystemTypes
        <4>2. QED
          BY <2>1, <2>2, <3>1, <4>1 DEF Numbered, ChainNotice, BurnNotice, Forced
      <3>3. QED
        BY <1>3, <3>1, <3>2
    <2>3. CASE k \notin 1..Len(feed)
      <3>1. ~ChainRests /\ k = Len(feed) + 1
        BY <2>1, <2>3, FeedGrows
      <3>2. QED
        BY <1>3, <2>1, <3>1, FeedGrows, PostedFacts, BurnFacts
    <2>4. QED
      BY <2>2, <2>3
  <1>8. ASSUME NEW i \in Ingests
        PROVE  UpTo(ingests[i], closureCount')
    <2>1. ingests[i] \in Calls /\ UpTo(ingests[i], closureCount)
      BY DEF SystemTypes, Numbered
    <2>2. \A k \in 1..Len(ingests[i].events) : ingests[i].events[k].txid \in Nat
      BY <2>1, CallFacts
    <2>3. ingests[i].dispute # None => ingests[i].dispute.id[1] \in Nat
      BY <2>1, CallFacts
    <2>4. QED
      BY <1>3, <2>1, <2>2, <2>3 DEF UpTo
  <1>9. \A id \in Node!AttemptIds : attempts[id] # None => id[1] <= closureCount'
    BY <1>3 DEF Numbered, Node!AttemptIds
  <1>10. QED
    BY <1>1, <1>5, <1>6, <1>7, <1>8, <1>9 DEF Numbered

\* While the pipe stays and time and knowledge only grow, a state that wins goes on to
\* win, and one that is due stays due.
LEMMA WinsStays ==
    ASSUME NEW s, OnChain' = OnChain, height \in Int, height' \in Int, height' >= height,
           revealed \subseteq revealed', s.validAfter \in Int
    PROVE  /\ Wins(s, OnChain) => Wins(s, OnChain)'
           /\ Due(s, OnChain) => Due(s, OnChain)'
  <1>1. Wins(s, OnChain) => Wins(s, OnChain)'
    BY DEF Wins
  <1>2. QED
    BY <1>1 DEF Due

\* A dispute that wins now wins later, while the pipe is the same.
LEMMA WinningStays ==
    ASSUME NEW tx \in Transactions, OnChain' = OnChain, height \in Int, height' \in Int,
           height' >= height, revealed \subseteq revealed', Winning(tx)
    PROVE  Winning(tx)'
  <1>1. tx.state \in States /\ tx.state.validAfter \in Int
    BY StateFacts DEF Transactions
  <1>2. QED
    BY <1>1, WinsStays DEF Winning

\* A dispute that was made stays made, unless it is recorded anew.
LEMMA DisputeStaysMade ==
    ASSUME SystemTypes, OnChain' = OnChain, height \in Int, height' \in Int, height' >= height,
           revealed \subseteq revealed', mempool \subseteq mempool',
           UNCHANGED <<closureCount, attempts>>
    PROVE  /\ (\E tx \in mempool : Winning(tx)) => (\E tx \in mempool : Winning(tx))'
           /\ DisputeMade => DisputeMade'
  <1>1. ASSUME NEW tx \in mempool, Winning(tx)
        PROVE  tx \in mempool' /\ Winning(tx)'
    BY <1>1, WinningStays DEF SystemTypes
  <1>2. SubmissionFailed => SubmissionFailed'
    BY DEF SubmissionFailed
  <1>3. QED
    BY <1>1, <1>2 DEF DisputeMade

\* The number of the dispute of the latest closure, and types at hand.
LEMMA LatestFacts ==
    ASSUME WatchInv, closureCount # 0
    PROVE  /\ <<closureCount, Us>> \in Node!AttemptIds /\ closureCount \in Nat
           /\ height \in Int /\ height \in 0..Horizon
           /\ Stored \in States \cup {None}
           /\ OnChain \in Pipe
           /\ OnChain.expiresAt \in Nat
  BY Pair, PipeFacts, PairAssumption DEF WatchInv, SystemTypes, Node!AttemptIds, Stored, OnChain, Pipe

\* The start of a closure makes a debt of a state that is due; all that is known of
\* closures so far is of earlier ones.
LEMMA StartsDebt ==
    ASSUME WatchInv, UNCHANGED nodeVars, ChainStarts, IInv', SystemTypes', owed' # None
    PROVE  (OwedStored /\ EventsDescribe /\ DisputesWin /\ EventLeads /\ OverAfterExpiry)'
  <1> USE DEF WatchInv
  <1>1. /\ closureCount \in Nat /\ closureCount' = closureCount + 1
        /\ closureCount' \in 1..MaxClosures /\ closureCount' # closureCount
        /\ height' = height /\ height \in Nat
        /\ WAITING_PERIOD \in Nat /\ WAITING_PERIOD # 0
        /\ UNCHANGED <<signatures, attempts, revealed, mempool, ingests>>
    BY PairAssumption, HeightAssumption, Pair, PipeFacts, Heights
       DEF ChainStarts, Starts, SystemTypes, nodeVars
  <1>2. /\ event'.sender = Peer /\ owed' = Stored /\ Due(Stored, OnChain')
        /\ OnChain'.closer = Peer /\ OnChain'.expiresAt = height + WAITING_PERIOD
    <2>1. owed = None
      BY Pair DEF Debt, OwedStored, ChainStarts, Starts
    <2>2. event'.sender = Peer
      BY <2>1, Pair DEF ChainStarts, Starts
    <2>3. QED
      BY <2>2 DEF ChainStarts, Starts
  <1>3. Stored' = Stored /\ Stored \in States /\ Stored.nonce \in Nat
    <2>1. Stored \in States \cup {None} /\ Stored' = Stored
      BY <1>1, Pair DEF SystemTypes, Stored
    <2>2. QED
      BY <1>2, <2>1, StateFacts
  <1>4. OwedStored'
    <2>1. Due(Stored, OnChain)'
      BY <1>1, <1>2, <1>3 DEF Due, Wins
    <2>2. event'.type # "finalize"
      BY DEF ChainStarts, Starts
    <2>3. QED
      BY <1>1, <1>2, <1>3, <2>1, <2>2, StateFacts DEF OwedStored
  <1>5. /\ PostedEvent.key = ThePipe /\ Node!Closer(PostedEvent) = Peer
        /\ PostedEvent.pipe.nonce = OnChain'.nonce
        /\ PostedEvent.pipe.balance1 = OnChain'.balance1
        /\ PostedEvent.pipe.balance2 = OnChain'.balance2
        /\ PostedEvent.blockHeight = height
        /\ Forced(PostedEvent) /\ PostedEvent.txid = closureCount'
    <2>1. PostedEvent.key = ThePipe
      BY Pair DEF ChainStarts, Starts, Event, PostedEvent
    <2>2. QED
      BY <1>2, <2>1, PostedFacts DEF ChainStarts, Starts, PostedEvent, Node!Closer
  <1>6. \A k \in 1..Len(feed) : ~Opens(feed'[k], closureCount')
    <2>1. ASSUME NEW k \in 1..Len(feed), Forced(feed[k])
          PROVE  feed[k].txid # closureCount'
      <3>1. feed[k] \in ChainNotice \cup BurnNotice /\ feed[k].txid <= closureCount
        BY <2>1 DEF SystemTypes, Numbered
      <3>2. feed[k].txid \in Nat
        BY <2>1, <3>1 DEF ChainNotice, BurnNotice, Forced
      <3>3. QED
        BY <1>1, <3>1, <3>2
    <2>2. QED
      BY <2>1, FeedGrows DEF Opens, Forced
  <1>7. ASSUME NEW i \in Ingests
        PROVE  /\ Free(ingests[i], closureCount')
               /\ Tells(ingests[i], closureCount', OnChain')
               /\ Answers(ingests[i], closureCount')
    <2>1. ingests[i] \in Calls /\ ingests'[i] = ingests[i]
      BY <1>1 DEF SystemTypes
    <2>2. \A k \in 1..Len(ingests[i].events) : ingests[i].events[k].txid \in Nat
      BY <2>1, CallFacts
    <2>3. ingests[i].dispute # None => ingests[i].dispute.id[1] \in Nat
      BY <2>1, CallFacts
    <2>4. Handled(ingests[i]) \in 0..Len(ingests[i].events) /\ Len(ingests[i].events) \in Nat
      BY <2>1, CallFacts
    <2>5. UpTo(ingests[i], closureCount)
      BY DEF Numbered
    <2>6. Free(ingests[i], closureCount')
      BY <1>1, <2>2, <2>3, <2>5 DEF UpTo, Opens, Disputing, Free
    <2>7. QED
      BY <2>4, <2>6 DEF Free, Tells, Answers
  <1>8. Len(feed') = Len(feed) + 1 /\ feed'[Len(feed) + 1] = PostedEvent /\ Len(feed) \in Nat
    <2>1. ~ChainRests
      BY DEF ChainRests, ChainStarts, Rests, Starts, NoEvent
    <2>2. QED
      BY <2>1, FeedGrows
  <1>9. EventsDescribe'
    <2>1. ASSUME NEW k \in 1..Len(feed'), Opens(feed'[k], closureCount')
          PROVE  Describes(feed'[k], OnChain')
      <3>1. k = Len(feed) + 1
        BY <1>6, <1>8, <2>1
      <3>2. feed'[k] = PostedEvent
        BY <1>8, <3>1
      <3>3. QED
        BY <1>2, <1>5, <3>2 DEF Describes, Node!Closer
    <2>2. QED
      BY <1>1, <1>7, <2>1 DEF EventsDescribe
  <1>10. DisputesWin'
    <2>1. attempts[<<closureCount', Us>>] = None
      <3>1. <<closureCount', Us>> \in Node!AttemptIds
        BY <1>1, Pair DEF Node!AttemptIds
      <3>2. QED
        BY <1>1, <3>1 DEF Numbered
    <2>2. None # TRUE
      BY NodeConstants DEF Node!NodeAssumption
    <2>3. ~(attempts'[<<closureCount', Us>>] = TRUE)
      BY <1>1, <2>1, <2>2
    <2>4. ASSUME NEW i \in Ingests, NEW d, ingests'[i].dispute = d, Disputing(d, closureCount')
          PROVE  FALSE
      BY <1>1, <1>7, <2>4 DEF Free
    <2>5. QED
      BY <2>3, <2>4 DEF DisputesWin
  <1>11. EventLeads'
    <2>1. Len(feed) + 1 \in 1..Len(feed') /\ Opens(feed'[Len(feed) + 1], closureCount')
      BY <1>5, <1>8 DEF Opens, Forced
    <2>2. QED
      BY <1>1, <1>7, <2>1 DEF EventLeads
  <1>12. OverAfterExpiry'
    BY <1>1, <1>2 DEF OverAfterExpiry
  <1>13. QED
    BY <1>4, <1>9, <1>10, <1>11, <1>12

\* Other steps of the chain end the debt or leave its closure alone; a block that ends the
\* waiting period finds everything done.
LEMMA ChainDebt ==
    ASSUME WatchInv, UNCHANGED <<agreed, nodeVars>>, IInv', SystemTypes',
           ChainRests \/ ChainMoves \/ ChainStarts \/ ChainEnds \/ ChainGrows
    PROVE  Debt'
  <1> USE DEF WatchInv
  <1> SUFFICES ASSUME owed' # None
               PROVE  (OwedStored /\ EventsDescribe /\ DisputesWin /\ EventLeads
                          /\ OverAfterExpiry)'
    BY DEF Debt
  <1>1. CASE ChainStarts
    BY <1>1, StartsDebt
  <1>2. CASE ChainRests \/ ChainGrows
    <2>1. /\ owed # None /\ owed' = owed /\ UNCHANGED <<pipes, closureCount>>
          /\ event' = NoEvent /\ OnChain' = OnChain
          /\ UNCHANGED <<signatures, attempts, payments, revealed, ingests, mempool>>
      BY <1>2 DEF ChainRests, ChainGrows, Rests, OnChain, nodeVars
    <2>2. OwedStored /\ EventsDescribe /\ DisputesWin /\ EventLeads /\ OverAfterExpiry
      BY <2>1 DEF Debt
    <2>3. /\ closureCount # 0 /\ height \in Int /\ OnChain.expiresAt \in Nat
          /\ Stored \in States /\ Stored' = Stored
      BY <2>1, <2>2, LatestFacts DEF OwedStored, Stored
    <2>4. height' \in Int /\ height' >= height
      BY <1>2, <2>3 DEF ChainRests, ChainGrows
    <2>5. OwedStored'
      <3>1. Due(Stored, OnChain)'
        BY <2>1, <2>2, <2>3, <2>4, WinsStays, StateFacts DEF OwedStored
      <3>2. QED
        BY <2>1, <2>2, <2>3, <3>1 DEF OwedStored, NoEvent
    <2>6. \A k \in 1..Len(feed') :
             Opens(feed'[k], closureCount') => /\ k \in 1..Len(feed) /\ feed'[k] = feed[k]
                                               /\ Opens(feed[k], closureCount)
      <3>1. ASSUME NEW k \in 1..Len(feed'), Opens(feed'[k], closureCount')
            PROVE  k \in 1..Len(feed)
        <4>1. CASE ChainRests
          BY <3>1, <4>1, FeedGrows
        <4>2. CASE ChainGrows
          <5>1. ~Forced(feed'[Len(feed) + 1])
            BY <4>2, FeedGrows, BurnFacts
          <5>2. Len(feed') <= Len(feed) + 1 /\ Len(feed) \in Nat
            BY <1>2, FeedGrows
          <5>3. QED
            BY <3>1, <5>1, <5>2 DEF Opens, Forced
        <4>3. QED
          BY <1>2, <4>1, <4>2
      <3>2. QED
        BY <2>1, <3>1, FeedGrows DEF Opens, Forced
    <2>7. EventsDescribe'
      BY <2>1, <2>2, <2>6 DEF EventsDescribe
    <2>8. /\ (\E tx \in mempool : Winning(tx)) => (\E tx \in mempool : Winning(tx))'
          /\ DisputeMade => DisputeMade'
      BY <2>1, <2>3, <2>4, DisputeStaysMade
    <2>9. DisputesWin'
      <3>1. ASSUME NEW i \in Ingests, NEW d \in Disputes, ingests[i].dispute = d,
                   Disputing(d, closureCount)
            PROVE  Winning(d.tx)'
        <4>1. d.tx \in Transactions /\ Winning(d.tx)
          BY <2>2, <3>1 DEF Disputes, DisputesWin
        <4>2. QED
          BY <2>1, <2>3, <2>4, <4>1, WinningStays
      <3>2. QED
        BY <2>1, <2>2, <2>8, <3>1 DEF DisputesWin
    <2>10. EventLeads'
      <3>1. ASSUME NEW k \in 1..Len(feed), Opens(feed[k], closureCount)
            PROVE  k \in 1..Len(feed') /\ Opens(feed'[k], closureCount')
        BY <1>2, <2>1, <3>1, FeedGrows DEF Opens, Forced
      <3>2. QED
        BY <2>1, <2>2, <2>8, <3>1 DEF EventLeads
    <2>11. OverAfterExpiry'
      <3>1. SUFFICES ASSUME height' >= OnChain.expiresAt
                     PROVE  /\ SubmissionFailed
                            /\ \A k \in 1..Len(feed) : ~Opens(feed[k], closureCount)
                            /\ \A i \in Ingests : Free(ingests[i], closureCount)
        BY <2>1, <2>6 DEF OverAfterExpiry, SubmissionFailed
      <3>2. CASE height >= OnChain.expiresAt
        BY <2>2, <3>2 DEF OverAfterExpiry
      <3>3. CASE ~(height >= OnChain.expiresAt)
        <4>1. ChainGrows /\ height + 1 = OnChain.expiresAt
          BY <1>2, <2>3, <3>1, <3>3 DEF ChainRests, ChainGrows
        <4>2. /\ feed = <<>> /\ ingests = [i \in Ingests |-> Node!Idle]
              /\ \A tx \in mempool : ~(tx.opens /\ Wins(tx.state, OnChain))
          BY <2>2, <4>1 DEF ChainGrows, Timely, OwedStored
        <4>3. SubmissionFailed
          BY <2>2, <4>2 DEF EventLeads, DisputeMade, Winning
        <4>4. QED
          BY <4>2, <4>3 DEF Node!Idle, Disputing, Free
      <3>4. QED
        BY <3>2, <3>3
    <2>12. QED
      BY <2>5, <2>7, <2>9, <2>10, <2>11
  <1>3. CASE ChainMoves \/ ChainEnds
    BY <1>3 DEF ChainMoves, ChainEnds
  <1>4. QED
    BY <1>1, <1>2, <1>3

--------------------------------------------------------------------------------
(* Calls of the node *)

\* A call that is over.
LEMMA IdleFacts ==
    /\ Node!Idle \in Calls
    /\ \A n, pool : InOrder(Node!Idle, pool) /\ UpTo(Node!Idle, n)
    /\ \A n, p : Tells(Node!Idle, n, p) /\ Answers(Node!Idle, n) /\ Free(Node!Idle, n)
    /\ \A n : ~Disputing(Node!Idle.dispute, n)
  <1>1. /\ Node!Idle.events = <<>> /\ Node!Idle.rest = <<>> /\ Node!Idle.dispute = None
        /\ Node!Idle = [events |-> <<>>, rest |-> <<>>, dispute |-> None]
    BY DEF Node!Idle
  <1>2. Handled(Node!Idle) = 0 /\ Len(<<>>) = 0
    BY <1>1 DEF Handled
  <1>3. Node!Idle \in Calls
    BY <1>1 DEF Calls
  <1>4. QED
    BY <1>1, <1>2, <1>3, PairAssumption
       DEF InOrder, UpTo, Tells, Answers, Free, Disputing, RestFollows

\* A call that begins.
LEMMA PostedCall ==
    ASSUME NEW s \in Seq(ChainNotice), s # <<>>, Len(s) <= MaxBatch,
           NEW c, c = [events |-> s, rest |-> s, dispute |-> None]
    PROVE  /\ c \in Calls /\ c.events = s /\ c.dispute = None /\ Handled(c) = 0
           /\ \A pool : InOrder(c, pool)
  <1>1. c.events = s /\ c.rest = s /\ c.dispute = None /\ Len(s) \in Nat
    OBVIOUS
  <1>2. c \in Calls
    BY <1>1 DEF Calls
  <1>3. Handled(c) = 0
    BY <1>1 DEF Handled
  <1>4. QED
    BY <1>1, <1>2, <1>3 DEF InOrder, RestFollows

\* A call that has handled one event more.
LEMMA OnwardFacts ==
    ASSUME NEW c \in Calls, c.rest # <<>>, RestFollows(c), NEW d \in Disputes \cup {None},
           NEW next, next = Node!Onward(c, d)
    PROVE  /\ next \in Calls /\ next.events = c.events /\ next.dispute = d
           /\ next.rest = Tail(c.rest)
           /\ Handled(next) = Handled(c) + 1 /\ Handled(next) \in 1..Len(c.events)
           /\ RestFollows(next)
           /\ Head(c.rest) = c.events[Handled(next)]
           /\ Head(c.rest) \in ChainNotice
  <1> DEFINE N == ChainNotice
             D == Disputes \cup {None}
  <1>1. /\ c.events \in Seq(N) /\ c.rest \in Seq(N) /\ c.dispute \in D
        /\ c \in [events : Seq(N), rest : Seq(N), dispute : D]
        /\ Len(c.events) \in Nat /\ Len(c.rest) \in Nat
        /\ Handled(c) \in 0..Len(c.events)
    BY CallFacts DEF Calls
  <1>2. d \in D
    OBVIOUS
  <1>3. ASSUME NEW A, NEW B, NEW C, NEW x \in [events : A, rest : B, dispute : C],
               NEW r \in B, NEW y \in C, NEW z, z = [x EXCEPT !.rest = r, !.dispute = y]
        PROVE  /\ z \in [events : A, rest : B, dispute : C]
               /\ z.events = x.events /\ z.rest = r /\ z.dispute = y
    BY <1>3
  <1>4. next = [c EXCEPT !.rest = Tail(c.rest), !.dispute = d]
    BY DEF Node!Onward
  <1> DEFINE All == Seq(N)
  <1>5. Tail(c.rest) \in All
    BY <1>1
  <1> HIDE DEF All
  <1>6. /\ next \in [events : All, rest : All, dispute : D]
        /\ next.events = c.events /\ next.rest = Tail(c.rest) /\ next.dispute = d
    <2>1. c \in [events : All, rest : All, dispute : D]
      BY <1>1 DEF All
    <2> HIDE DEF D
    <2>2. QED
      BY <1>2, <1>3, <1>4, <1>5, <2>1
  <1> HIDE DEF N, D
  <1>7. /\ Tail(c.rest) \in Seq(N) /\ Len(Tail(c.rest)) = Len(c.rest) - 1 /\ Len(c.rest) >= 1
        /\ \A k \in 1..Len(c.rest) - 1 : Tail(c.rest)[k] = c.rest[k + 1]
        /\ Head(c.rest) = c.rest[1] /\ Head(c.rest) \in N
    BY <1>1
  <1>8. Len(c.rest) <= Len(c.events)
    BY <1>1 DEF Handled
  <1>9. next \in Calls
    BY <1>1, <1>2, <1>6, <1>7, <1>8 DEF Calls, All, N, D
  <1>10. Handled(next) = Handled(c) + 1 /\ Handled(next) \in 1..Len(c.events)
    BY <1>1, <1>6, <1>7 DEF Handled
  <1>11. RestFollows(next)
    <2>1. ASSUME NEW k \in 1..Len(Tail(c.rest))
          PROVE  Tail(c.rest)[k] = c.events[Handled(c) + 1 + k]
      <3>1. k + 1 \in 1..Len(c.rest) /\ Tail(c.rest)[k] = c.rest[k + 1]
        BY <1>1, <1>7
      <3>2. c.rest[k + 1] = c.events[Handled(c) + (k + 1)]
        BY <3>1 DEF RestFollows
      <3>3. Handled(c) + (k + 1) = Handled(c) + 1 + k
        BY <1>1
      <3>4. QED
        BY <3>1, <3>2, <3>3
    <2>2. QED
      BY <1>6, <1>10, <2>1 DEF RestFollows
  <1>12. Head(c.rest) = c.events[Handled(next)]
    BY <1>1, <1>7, <1>10 DEF RestFollows
  <1>13. QED
    BY <1>6, <1>7, <1>9, <1>10, <1>11, <1>12 DEF N

\* A step of one call.
LEMMA CallChange ==
    ASSUME WatchInv, NEW i \in Ingests, NEW c \in Calls, ingests' = [ingests EXCEPT ![i] = c],
           InOrder(c, mempool'), UpTo(c, closureCount), mempool \subseteq mempool',
           closureCount' = closureCount
    PROVE  /\ ingests' \in [Ingests -> Calls] /\ CallsInOrder'
           /\ \A j \in Ingests : UpTo(ingests[j], closureCount)'
           /\ \A j \in Ingests : j # i => ingests'[j] = ingests[j]
           /\ ingests'[i] = c
  <1>1. ingests \in [Ingests -> Calls]
    BY DEF WatchInv, SystemTypes
  <1>2. /\ \A j \in Ingests : j # i => ingests'[j] = ingests[j]
        /\ ingests'[i] = c /\ ingests' \in [Ingests -> Calls]
    BY <1>1
  <1>3. ASSUME NEW j \in Ingests
        PROVE  InOrder(ingests'[j], mempool') /\ UpTo(ingests'[j], closureCount)
    <2>1. InOrder(ingests[j], mempool) /\ UpTo(ingests[j], closureCount)
      BY DEF WatchInv, CallsInOrder, Numbered
    <2>2. InOrder(ingests[j], mempool')
      BY <2>1 DEF InOrder
    <2>3. QED
      BY <1>2, <2>1, <2>2
  <1>4. QED
    BY <1>2, <1>3 DEF CallsInOrder

\* What a call must be for the debt.
Fits(c) ==
    /\ Tells(c, closureCount, OnChain)
    /\ \A d \in Disputes : c.dispute = d /\ Disputing(d, closureCount) => Winning(d.tx)
    /\ height >= OnChain.expiresAt => Free(c, closureCount)

AnswersOrMade(c) == DisputeMade \/ Answers(c, closureCount)

\* The calls fit while there is a debt.
LEMMA CallsFit ==
    ASSUME Debt, owed # None, NEW i \in Ingests
    PROVE  Fits(ingests[i]) /\ AnswersOrMade(ingests[i])
  BY DEF Fits, AnswersOrMade, Debt, EventsDescribe, DisputesWin, EventLeads, OverAfterExpiry

\* A step of the node or of its clients keeps the debt if the feed loses no more than
\* what leads to nothing and the calls fit.
LEMMA DebtKept ==
    ASSUME WatchInv, owed # None, UNCHANGED <<vars, closureCount>>, OwedStored',
           revealed \subseteq revealed', mempool \subseteq mempool',
           \A j \in Ingests : \E c \in Calls : ingests'[j] = c /\ Fits(c),
           \A k \in 1..Len(feed') : \E l \in 1..Len(feed) : feed'[k] = feed[l],
           EventLeads',
           attempts'[<<closureCount, Us>>] = TRUE =>
               \/ attempts[<<closureCount, Us>>] = TRUE
               \/ \E tx \in mempool' : Winning(tx)',
           SubmissionFailed => SubmissionFailed' \/ height < OnChain.expiresAt
    PROVE  Debt'
  <1> USE DEF WatchInv
  <1>1. OwedStored /\ EventsDescribe /\ DisputesWin /\ EventLeads /\ OverAfterExpiry
    BY DEF Debt
  <1>2. /\ closureCount' = closureCount /\ height' = height /\ OnChain' = OnChain
        /\ height \in Int /\ OnChain.expiresAt \in Int /\ closureCount # 0
    BY <1>1, LatestFacts DEF vars, OnChain, OwedStored
  <1>3. ASSUME NEW tx \in Transactions, Winning(tx)
        PROVE  Winning(tx)'
    BY <1>2, <1>3, WinningStays
  <1>4. ASSUME NEW j \in Ingests
        PROVE  /\ Tells(ingests'[j], closureCount, OnChain)
               /\ height >= OnChain.expiresAt => Free(ingests'[j], closureCount)
               /\ \A d \in Disputes :
                     ingests'[j].dispute = d /\ Disputing(d, closureCount) => Winning(d.tx)'
    <2>1. PICK c \in Calls : ingests'[j] = c /\ Fits(c)
      OBVIOUS
    <2>2. ASSUME NEW d \in Disputes, c.dispute = d, Disputing(d, closureCount)
          PROVE  Winning(d.tx)'
      <3>1. d.tx \in Transactions /\ Winning(d.tx)
        BY <2>1, <2>2 DEF Disputes, Fits
      <3>2. QED
        BY <1>3, <3>1
    <2>3. QED
      BY <2>1, <2>2 DEF Fits
  <1>5. EventsDescribe'
    BY <1>1, <1>2, <1>4 DEF EventsDescribe
  <1>6. DisputesWin'
    <2>1. (\E tx \in mempool : Winning(tx)) => \E tx \in mempool' : Winning(tx)'
      BY <1>3 DEF SystemTypes
    <2>2. QED
      BY <1>1, <1>2, <1>4, <2>1 DEF DisputesWin
  <1>7. OverAfterExpiry'
    BY <1>1, <1>2, <1>4 DEF OverAfterExpiry
  <1>8. QED
    BY <1>5, <1>6, <1>7 DEF Debt

--------------------------------------------------------------------------------
(* The dispute of a closing event *)

\* No state but the stored one is eligible.
LEMMA EligibleFacts ==
    ASSUME WatchInv, NEW e \in ChainNotice
    PROVE  /\ Node!Eligible(e) = {} \/ (Node!Eligible(e) = {Stored} /\ Stored \in States)
           /\ Node!Eligible(e) # {} => Node!Best(Node!Eligible(e)) = Stored
  <1>1. Node!Eligible(e) \subseteq {s \in States : s = Stored}
    <2>1. ASSUME NEW s \in Node!Eligible(e)
          PROVE  s \in States /\ s = Stored
      <3>1. s \in States /\ signatures[<<s.key, s.for>>] = s
        BY DEF Node!Eligible
      <3>2. QED
        BY <3>1, StateFacts DEF Stored
    <2>2. QED
      BY <2>1
  <1>2. CASE Node!Eligible(e) # {}
    <2>1. Node!Eligible(e) = {Stored} /\ Stored \in States
      BY <1>1, <1>2
    <2>2. Stored.nonce <= Stored.nonce
      BY <2>1, StateFacts
    <2>3. Node!Best({Stored}) = Stored
      BY <2>2 DEF Node!Best
    <2>4. QED
      BY <2>1, <2>3
  <1>3. QED
    BY <1>2

\* What is submitted disputes the closure of the event, with the stored state.
LEMMA DisputeFacts ==
    ASSUME WatchInv, NEW e \in ChainNotice, Forced(e)
    PROVE  /\ Node!Dispute(e) \in Disputes \cup {None}
           /\ Node!Dispute(e) # None => /\ Node!Dispute(e).id = <<e.txid, Us>>
                                        /\ ~Node!Dispute(e).sent
  <1> DEFINE s == Stored
             d == [id |-> <<e.txid, Us>>, sent |-> FALSE,
                   tx |-> [state |-> s, opens |-> s.hash \in revealed \cup {None}]]
  <1>1. CASE Node!Eligible(e) = {}
    BY <1>1 DEF Node!Dispute
  <1>2. CASE Node!Eligible(e) # {}
    <2>1. Node!Best(Node!Eligible(e)) = s /\ s \in States /\ s.for = Us
      BY <1>2, EligibleFacts, StateFacts
    <2>2. Node!Dispute(e) \in {None, d}
      BY <1>2, <2>1 DEF Node!Dispute, Node!AttemptId
    <2>3. e.txid \in 1..MaxClosures
      BY PairAssumption DEF ChainNotice
    <2>4. <<e.txid, Us>> \in Node!AttemptIds
      BY <2>3, Pair DEF Node!AttemptIds
    <2>5. d \in Disputes
      BY <2>1, <2>4 DEF Disputes, Transactions
    <2>6. d.id = <<e.txid, Us>> /\ ~d.sent
      OBVIOUS
    <2>7. QED
      BY <2>2, <2>5, <2>6
  <1>3. QED
    BY <1>1, <1>2

\* While it is owed, the event of the closure is answered with a dispute that wins, or
\* one was made.
LEMMA OwedDispute ==
    ASSUME WatchInv, owed # None, NEW e \in ChainNotice, Opens(e, closureCount),
           Describes(e, OnChain)
    PROVE  \/ Node!Dispute(e) = None /\ DisputeMade
           \/ Disputing(Node!Dispute(e), closureCount) /\ Winning(Node!Dispute(e).tx)
  <1> DEFINE s == Stored
             tx == [state |-> s, opens |-> s.hash \in revealed \cup {None}]
             d == [id |-> <<closureCount, Us>>, sent |-> FALSE, tx |-> tx]
  <1>1. OwedStored /\ DisputesWin
    BY DEF WatchInv, Debt
  <1>2. /\ s \in States /\ Due(s, OnChain) /\ Wins(s, OnChain)
        /\ OnChain.expiresAt \in Nat
    <2>1. s \in States \cup {None} /\ OnChain.expiresAt \in Nat
      BY <1>1, LatestFacts DEF OwedStored
    <2>2. QED
      BY <1>1, <2>1 DEF OwedStored, Due
  <1>3. s.key = ThePipe /\ s.for = Us /\ s.hash \in Hashes \cup {None} /\ s.validAfter \in Int
    BY <1>2, StateFacts
  <1>4. Node!Withheld(s) = FALSE /\ s.hash \in revealed \cup {None}
    <2>1. payments \subseteq Hashes /\ None \notin Hashes
      BY NodeConstants DEF WatchInv, SystemTypes, Node!NodeAssumption
    <2>2. s.hash = None \/ s.hash \in revealed
      BY <1>2 DEF Wins
    <2>3. QED
      BY <2>1, <2>2 DEF Node!Withheld
  <1>5. s.validAfter <= e.blockHeight
    <2>1. e.blockHeight \in Int /\ e.blockHeight + WAITING_PERIOD = OnChain.expiresAt
      BY DEF ChainNotice, Describes
    <2>2. WAITING_PERIOD \in Int /\ s.validAfter + WAITING_PERIOD <= OnChain.expiresAt
      BY <1>2, HeightAssumption DEF Due
    <2>3. QED
      BY <1>2, <1>3, <2>1, <2>2
  <1>6. Node!Newer(s, e) /\ Node!Beneficial(s, e) /\ s.for # Node!Closer(e)
    BY <1>2, <1>3, Pair DEF Node!Newer, Node!Beneficial, Node!SideBalance, Describes, Due, Wins
  <1>7. s \in Node!Eligible(e)
    BY <1>2, <1>3, <1>4, <1>5, <1>6 DEF Node!Eligible, Stored, Describes
  <1>8. Node!Eligible(e) # {} /\ Node!Best(Node!Eligible(e)) = s
    BY <1>7, EligibleFacts
  <1>9. Node!AttemptId(e, s) = <<closureCount, Us>>
    BY <1>3 DEF Node!AttemptId, Opens
  <1>10. Node!Dispute(e) = IF attempts[<<closureCount, Us>>] = TRUE THEN None ELSE d
    BY <1>8, <1>9 DEF Node!Dispute
  <1>11. CASE attempts[<<closureCount, Us>>] = TRUE
    BY <1>1, <1>10, <1>11 DEF DisputesWin, DisputeMade
  <1>12. CASE ~(attempts[<<closureCount, Us>>] = TRUE)
    <2>1. Node!Dispute(e) = d
      BY <1>10, <1>12
    <2>2. d \in Disputes
      <3>1. <<closureCount, Us>> \in Node!AttemptIds
        BY <1>1, LatestFacts DEF OwedStored
      <3>2. QED
        BY <1>2, <3>1 DEF Disputes, Transactions
    <2>3. None \notin Disputes
      BY NodeConstants DEF Node!NodeAssumption, Disputes, Transactions, Node!AttemptIds
    <2>4. Disputing(d, closureCount)
      BY <2>2, <2>3 DEF Disputing
    <2>5. d.tx = tx /\ tx.state = s /\ tx.opens = (s.hash \in revealed \cup {None})
      OBVIOUS
    <2>6. Winning(tx)
      BY <1>2, <1>4, <2>5 DEF Winning
    <2>7. QED
      BY <2>1, <2>4, <2>5, <2>6
  <1>13. QED
    BY <1>11, <1>12

--------------------------------------------------------------------------------
(* Steps of the node and of its clients *)

\* Such a step keeps the invariant if it keeps types, order, numbers and the debt.
LEMMA WatchKept ==
    ASSUME WatchInv, UNCHANGED <<vars, closureCount>>, SystemTypes', CallsInOrder',
           \A j \in Ingests : UpTo(ingests'[j], closureCount),
           \A id \in Node!AttemptIds : attempts'[id] # None => id[1] <= closureCount,
           \A k \in 1..Len(feed') : \E l \in 1..Len(feed) : feed'[k] = feed[l],
           Debt'
    PROVE  WatchInv'
  <1>1. IInv'
    BY NextInvariant DEF WatchInv
  <1>2. Numbered'
    BY DEF WatchInv, Numbered
  <1>3. QED
    BY <1>1, <1>2 DEF WatchInv

\* If it records no attempt, it keeps the debt while the event of the closure is in the
\* feed or a dispute was made.
LEMMA DebtStays ==
    ASSUME WatchInv, owed # None, UNCHANGED <<vars, closureCount, attempts>>, OwedStored',
           revealed \subseteq revealed', mempool \subseteq mempool',
           \A j \in Ingests : \E c \in Calls : ingests'[j] = c /\ Fits(c) /\ AnswersOrMade(c),
           \A k \in 1..Len(feed') : \E l \in 1..Len(feed) : feed'[k] = feed[l],
           DisputeMade \/ \E k \in 1..Len(feed') : Opens(feed'[k], closureCount)
    PROVE  Debt'
  <1>1. /\ OnChain' = OnChain /\ height' = height /\ height \in Int
        /\ OnChain.expiresAt \in Nat
    BY LatestFacts DEF vars, OnChain, WatchInv, Debt, OwedStored
  <1>2. DisputeMade => DisputeMade'
    BY <1>1, DisputeStaysMade DEF WatchInv
  <1>3. ASSUME NEW j \in Ingests
        PROVE  DisputeMade \/ Answers(ingests'[j], closureCount)
    BY DEF AnswersOrMade
  <1>4. EventLeads'
    BY <1>2, <1>3 DEF EventLeads
  <1>5. attempts' = attempts /\ (SubmissionFailed => SubmissionFailed')
    BY DEF SubmissionFailed
  <1>6. QED
    BY <1>4, <1>5, DebtKept

\* What is owed stays stored.
LEMMA StoredStays ==
    ASSUME WatchInv, owed # None, UNCHANGED <<vars, closureCount, owed, signatures>>,
           revealed \subseteq revealed'
    PROVE  OwedStored'
  <1>1. OwedStored
    BY DEF WatchInv, Debt
  <1>2. /\ OnChain' = OnChain /\ height' = height /\ height \in Int
        /\ Stored' = Stored /\ Stored \in States
        /\ closureCount' = closureCount /\ owed' = owed /\ event' = event
    BY <1>1, LatestFacts DEF vars, OnChain, OwedStored, Stored
  <1>3. Due(Stored, OnChain)'
    BY <1>1, <1>2, WinsStays, StateFacts DEF OwedStored
  <1>4. QED
    BY <1>1, <1>2, <1>3 DEF OwedStored

\* A step of one call that records no attempt.
LEMMA CallStep ==
    ASSUME WatchInv, NEW i \in Ingests, NEW c \in Calls, ingests' = [ingests EXCEPT ![i] = c],
           InOrder(c, mempool'), UpTo(c, closureCount), mempool \subseteq mempool',
           UNCHANGED <<vars, agreed, closureCount, owed, signatures, attempts, payments, revealed>>,
           closures' \in [PipeKeys -> Rows \cup {None}], mempool' \subseteq Transactions,
           feed' \in Seq(ChainNotice \cup BurnNotice),
           \A k \in 1..Len(feed') : \E l \in 1..Len(feed) : feed'[k] = feed[l],
           owed # None => /\ Fits(c) /\ AnswersOrMade(c)
                          /\ DisputeMade \/ \E k \in 1..Len(feed') : Opens(feed'[k], closureCount)
    PROVE  WatchInv'
  <1>1. /\ ingests' \in [Ingests -> Calls] /\ CallsInOrder'
        /\ \A j \in Ingests : UpTo(ingests'[j], closureCount)
        /\ \A j \in Ingests : j # i => ingests'[j] = ingests[j]
        /\ ingests'[i] = c
    BY CallChange
  <1>2. SystemTypes'
    BY <1>1 DEF WatchInv, SystemTypes
  <1>3. ASSUME owed # None
        PROVE  Debt'
    <2>1. \A j \in Ingests : \E x \in Calls : ingests'[j] = x /\ Fits(x) /\ AnswersOrMade(x)
      <3>1. ASSUME NEW j \in Ingests
            PROVE  Fits(ingests[j]) /\ AnswersOrMade(ingests[j]) /\ ingests[j] \in Calls
        BY <1>3, CallsFit DEF WatchInv, SystemTypes
      <3>2. QED
        BY <1>1, <1>3, <3>1
    <2>2. OwedStored'
      BY <1>3, StoredStays
    <2>3. QED
      BY <1>3, <2>1, <2>2, DebtStays
  <1>4. Debt'
    BY <1>3 DEF Debt
  <1>5. \A id \in Node!AttemptIds : attempts'[id] # None => id[1] <= closureCount
    BY DEF WatchInv, Numbered
  <1>6. QED
    BY <1>1, <1>2, <1>4, <1>5, WatchKept

\* A step in which the calls rest or end, and no attempt is recorded.
LEMMA RestingStep ==
    ASSUME WatchInv, UNCHANGED <<vars, closureCount, attempts>>, SystemTypes',
           mempool' = mempool, revealed \subseteq revealed',
           \A j \in Ingests : ingests'[j] \in {ingests[j], Node!Idle},
           \A k \in 1..Len(feed') : \E l \in 1..Len(feed) : feed'[k] = feed[l],
           owed' # None => /\ owed # None /\ OwedStored'
                           /\ DisputeMade \/ \E k \in 1..Len(feed') : Opens(feed'[k], closureCount)
    PROVE  WatchInv'
  <1>1. ASSUME NEW j \in Ingests
        PROVE  /\ InOrder(ingests'[j], mempool) /\ UpTo(ingests'[j], closureCount)
               /\ owed # None => \E c \in Calls : ingests'[j] = c /\ Fits(c) /\ AnswersOrMade(c)
    <2>1. InOrder(ingests[j], mempool) /\ UpTo(ingests[j], closureCount)
      BY DEF WatchInv, CallsInOrder, Numbered
    <2>2. owed # None => Fits(ingests[j]) /\ AnswersOrMade(ingests[j]) /\ ingests[j] \in Calls
      BY CallsFit DEF WatchInv, SystemTypes
    <2>3. /\ Fits(Node!Idle) /\ AnswersOrMade(Node!Idle) /\ Node!Idle \in Calls
          /\ InOrder(Node!Idle, mempool) /\ UpTo(Node!Idle, closureCount)
      BY IdleFacts DEF Fits, AnswersOrMade
    <2>4. ingests'[j] = ingests[j] \/ ingests'[j] = Node!Idle
      OBVIOUS
    <2>5. QED
      BY <2>1, <2>2, <2>3, <2>4
  <1>2. CallsInOrder'
    BY <1>1 DEF CallsInOrder
  <1>3. Debt'
    <2>1. CASE owed' # None
      BY <1>1, <2>1, DebtStays
    <2>2. CASE owed' = None
      BY <2>2 DEF Debt
    <2>3. QED
      BY <2>1, <2>2
  <1>4. \A id \in Node!AttemptIds : attempts'[id] # None => id[1] <= closureCount
    BY DEF WatchInv, Numbered
  <1>5. QED
    BY <1>1, <1>2, <1>3, <1>4, WatchKept

\* While a debt stays its event is in the feed, or a dispute was made.
LEMMA FeedLeadsOrMade ==
    ASSUME WatchInv, owed # None
    PROVE  DisputeMade \/ \E k \in 1..Len(feed) : Opens(feed[k], closureCount)
  BY DEF WatchInv, Debt, EventLeads

\* Signing a state.
LEMMA AgreeStep ==
    ASSUME WatchInv, NEW s \in States, Agree(s)
    PROVE  WatchInv'
  <1>1. /\ UNCHANGED <<vars, feed, closureCount, owed, nodeVars>>
        /\ agreed' = agreed \cup {s}
    BY DEF Agree
  <1>2. /\ UNCHANGED <<closures, signatures, attempts, payments, revealed, ingests, mempool>>
    BY <1>1 DEF nodeVars
  <1>3. SystemTypes'
    BY <1>1, <1>2 DEF WatchInv, SystemTypes
  <1>4. owed # None => OwedStored'
    BY <1>1, <1>2, StoredStays
  <1>5. QED
    BY <1>1, <1>2, <1>3, <1>4, FeedLeadsOrMade, RestingStep

\* A submitted state replaces what is owed only by a newer one that is due, too.
LEMMA SubmitStep ==
    ASSUME WatchInv, NEW s \in agreed, Submit(s)
    PROVE  WatchInv'
  <1>1. /\ UNCHANGED <<vars, agreed, closureCount, feed>>
        /\ UNCHANGED <<closures, attempts, payments, revealed, ingests, mempool>>
        /\ signatures' = [signatures EXCEPT ![<<s.key, s.for>>] = s]
        /\ Node!Replaces(s, signatures[<<s.key, s.for>>])
        /\ owed' = IF owed # None /\ s.nonce > owed.nonce /\ ~Due(s, OnChain) THEN None ELSE owed
    BY DEF Submit, Node!UpsertSignatureState
  <1>2. /\ s \in States /\ s # None /\ s.key = ThePipe /\ s.for = Us /\ s.nonce \in Nat
        /\ s.validAfter \in Int
    BY StateFacts DEF WatchInv, SystemTypes
  <1>3. /\ signatures' = [signatures EXCEPT ![<<ThePipe, Us>>] = s]
        /\ Stored # None => s.nonce > Stored.nonce
    BY <1>1, <1>2 DEF Node!Replaces, Stored
  <1>4. signatures \in [Node!Sides -> States \cup {None}] /\ <<ThePipe, Us>> \in Node!Sides
    BY Pair DEF WatchInv, SystemTypes
  <1>5. /\ signatures' \in [Node!Sides -> States \cup {None}]
        /\ \A side \in Node!Sides : side # <<ThePipe, Us>> => signatures'[side] = signatures[side]
        /\ Stored' = s
    BY <1>2, <1>3, <1>4 DEF Stored
  <1>6. \A side \in Node!Sides :
           signatures'[side] # None => <<signatures'[side].key, signatures'[side].for>> = side
    BY <1>2, <1>5 DEF WatchInv, SystemTypes, Stored
  <1>7. SystemTypes'
    BY <1>1, <1>5, <1>6 DEF WatchInv, SystemTypes
  <1>8. ASSUME owed' # None
        PROVE  owed # None /\ OwedStored'
    <2>1. owed # None /\ owed' = owed
      BY <1>1, <1>8
    <2>2. OwedStored /\ owed \in States
      BY <2>1 DEF WatchInv, Debt, SystemTypes
    <2>3. /\ Stored \in States /\ Stored.nonce \in Nat /\ owed.nonce \in Nat
          /\ height \in Int /\ OnChain' = OnChain /\ height' = height /\ event' = event
      BY <1>1, <2>2, LatestFacts, StateFacts DEF OwedStored, vars, OnChain
    <2>4. s.nonce > owed.nonce
      BY <1>2, <1>3, <2>2, <2>3 DEF OwedStored
    <2>5. Due(s, OnChain)
      BY <1>1, <1>8, <2>1, <2>4
    <2>6. Due(s, OnChain)'
      BY <1>1, <1>2, <2>3, <2>5, WinsStays
    <2>7. Due(Stored, OnChain)'
      BY <1>5, <2>6 DEF Due, Wins
    <2>8. QED
      BY <1>1, <1>2, <1>5, <2>1, <2>2, <2>3, <2>4, <2>7 DEF OwedStored
  <1>9. QED
    BY <1>1, <1>7, <1>8, FeedLeadsOrMade, RestingStep

\* A forwarded payment is tracked, pruned or revealed.
LEMMA PaymentStep ==
    ASSUME WatchInv, NodeStep, UNCHANGED feed, NEW h,
           \/ h \in Hashes /\ (Node!ForwardPayment(h) \/ Node!PrunePayment(h))
           \/ h \in Hashes /\ Node!RevealSecret(h)
    PROVE  WatchInv'
  <1>1. /\ UNCHANGED <<vars, agreed, feed, closureCount, owed>>
        /\ UNCHANGED <<closures, signatures, attempts, ingests, mempool>>
        /\ payments' \subseteq payments \cup {h}
        /\ revealed \subseteq revealed' /\ revealed' \subseteq revealed \cup {h}
    BY DEF NodeStep, Node!ForwardPayment, Node!PrunePayment, Node!RevealSecret
  <1>2. SystemTypes'
    BY <1>1 DEF WatchInv, SystemTypes
  <1>3. owed # None => OwedStored'
    BY <1>1, StoredStays
  <1>4. QED
    BY <1>1, <1>2, <1>3, FeedLeadsOrMade, RestingStep

\* A restart of the node.
LEMMA RestartStep ==
    ASSUME WatchInv, NodeStep, UNCHANGED feed, Node!Restart
    PROVE  WatchInv'
  <1>1. /\ UNCHANGED <<vars, agreed, feed, closureCount, owed>>
        /\ UNCHANGED <<closures, signatures, attempts, payments, revealed, mempool>>
        /\ ingests' = [i \in Ingests |-> Node!Idle]
    BY DEF NodeStep, Node!Restart, Node!store
  <1>2. SystemTypes'
    BY <1>1, IdleFacts DEF WatchInv, SystemTypes
  <1>3. owed # None => OwedStored'
    BY <1>1, StoredStays
  <1>4. QED
    BY <1>1, <1>2, <1>3, FeedLeadsOrMade, RestingStep

\* A sequence without its head, or without a prefix.
LEMMA DropFacts ==
    ASSUME NEW S, NEW s \in Seq(S), NEW n \in 0..Len(s)
    PROVE  /\ SubSeq(s, n + 1, Len(s)) \in Seq(S)
           /\ Len(SubSeq(s, n + 1, Len(s))) = Len(s) - n
           /\ \A k \in 1..Len(s) - n : SubSeq(s, n + 1, Len(s))[k] = s[n + k]
           /\ SubSeq(s, 1, n) \in Seq(S) /\ Len(SubSeq(s, 1, n)) = n
           /\ \A k \in 1..n : SubSeq(s, 1, n)[k] = s[k]
           /\ s # <<>> => /\ Tail(s) \in Seq(S) /\ Len(Tail(s)) = Len(s) - 1
                          /\ \A k \in 1..Len(s) - 1 : Tail(s)[k] = s[k + 1]
  OBVIOUS

\* A burn block is posted.
LEMMA PostBurnBlockStep ==
    ASSUME WatchInv, PostBurnBlock
    PROVE  WatchInv'
  <1> DEFINE All == ChainNotice \cup BurnNotice
  <1>1. /\ UNCHANGED <<vars, agreed, closureCount, owed>>
        /\ UNCHANGED <<closures, signatures, attempts, payments, revealed, ingests, mempool>>
        /\ feed # <<>> /\ Head(feed).type = "burn" /\ feed' = Tail(feed)
    BY DEF PostBurnBlock, NodeStep, Node!IngestBurnBlock
  <1>2. feed \in Seq(All) /\ Len(feed) \in Nat
    BY DEF WatchInv, SystemTypes
  <1> HIDE DEF All
  <1>3. /\ feed' \in Seq(All) /\ Len(feed') = Len(feed) - 1
        /\ \A k \in 1..Len(feed) - 1 : feed'[k] = feed[k + 1]
        /\ feed[1] = Head(feed)
    BY <1>1, <1>2, DropFacts
  <1>4. SystemTypes'
    BY <1>1, <1>3 DEF WatchInv, SystemTypes, All
  <1>5. \A k \in 1..Len(feed') : \E l \in 1..Len(feed) : feed'[k] = feed[l]
    BY <1>2, <1>3
  <1>6. owed # None => OwedStored'
    BY <1>1, StoredStays
  <1>7. ASSUME NEW k \in 1..Len(feed), Opens(feed[k], closureCount)
        PROVE  k - 1 \in 1..Len(feed') /\ feed'[k - 1] = feed[k]
    <2>1. k # 1
      BY <1>1, <1>3, <1>7 DEF Opens, Forced
    <2>2. QED
      BY <1>2, <1>3, <2>1
  <1>8. owed # None => DisputeMade \/ \E k \in 1..Len(feed') : Opens(feed'[k], closureCount)
    BY <1>7, FeedLeadsOrMade
  <1>9. QED
    BY <1>1, <1>4, <1>5, <1>6, <1>8, RestingStep

\* A post of events arrives.
LEMMA PostBlockStep ==
    ASSUME WatchInv, NEW i \in Ingests, PostBlock(i)
    PROVE  WatchInv'
  <1> DEFINE All == ChainNotice \cup BurnNotice
  <1>1. PICK n \in 1..MaxBatch :
          /\ n <= Len(feed) /\ \A j \in 1..n : feed[j].type # "burn"
          /\ Node!Post(i, SubSeq(feed, 1, n)) /\ NodeStep /\ UNCHANGED feed
    BY DEF PostBlock
  <1> DEFINE s == SubSeq(feed, 1, n)
             c == [events |-> s, rest |-> s, dispute |-> None]
  <1>2. feed \in Seq(All) /\ n \in 0..Len(feed) /\ n \in Nat /\ n >= 1
    BY <1>1, PairAssumption DEF WatchInv, SystemTypes
  <1> HIDE DEF All
  <1>3. /\ s \in Seq(All) /\ Len(s) = n /\ \A k \in 1..n : s[k] = feed[k]
    BY <1>2, DropFacts
  <1>4. /\ UNCHANGED <<vars, agreed, closureCount, owed, feed>>
        /\ UNCHANGED <<closures, signatures, attempts, payments, revealed, mempool>>
        /\ ingests' = [ingests EXCEPT ![i] = c]
    BY <1>1, Zenon DEF NodeStep, Node!Post, Node!store
  <1> HIDE DEF s
  <1>5. s \in Seq(ChainNotice)
    <2>1. ASSUME NEW k \in 1..n
          PROVE  s[k] \in ChainNotice
      <3>1. s[k] \in All /\ s[k].type # "burn"
        BY <1>1, <1>2, <1>3
      <3>2. QED
        BY <3>1 DEF All, BurnNotice
    <2>2. QED
      BY <1>3, <2>1
  <1>6. s # <<>> /\ Len(s) <= MaxBatch
    BY <1>2, <1>3, PairAssumption
  <1>7. /\ c \in Calls /\ c.events = s /\ c.dispute = None /\ Handled(c) = 0
        /\ \A pool : InOrder(c, pool)
    BY <1>5, <1>6, PostedCall
  <1> HIDE DEF c
  <1>8. \A k \in 1..Len(c.events) : k \in 1..Len(feed) /\ c.events[k] = feed[k]
    BY <1>2, <1>3, <1>7
  <1>9. UpTo(c, closureCount)
    BY <1>7, <1>8 DEF UpTo, WatchInv, Numbered
  <1>10. owed # None => Fits(c) /\ AnswersOrMade(c)
    <2>1. ASSUME owed # None
          PROVE  EventsDescribe /\ OverAfterExpiry
      BY <2>1 DEF WatchInv, Debt
    <2>2. \A m : ~Disputing(c.dispute, m) /\ Answers(c, m)
      BY <1>7 DEF Disputing, Answers
    <2>3. EventsDescribe => Tells(c, closureCount, OnChain)
      BY <1>8 DEF EventsDescribe, Tells
    <2>4. OverAfterExpiry /\ height >= OnChain.expiresAt => Free(c, closureCount)
      BY <1>8, <2>2 DEF OverAfterExpiry, Free
    <2>5. QED
      BY <2>1, <2>2, <2>3, <2>4 DEF Fits, AnswersOrMade
  <1>11. /\ closures' \in [PipeKeys -> Rows \cup {None}] /\ mempool' \subseteq Transactions
         /\ feed' \in Seq(ChainNotice \cup BurnNotice)
    BY <1>4 DEF WatchInv, SystemTypes
  <1>12. QED
    BY <1>4, <1>7, <1>9, <1>10, <1>11, FeedLeadsOrMade, CallStep

\* The prefix that an answer takes from the feed was handled: the event of the closure
\* is not in it, unless the dispute was made.
LEMMA AnswerStep ==
    ASSUME WatchInv, NEW i \in Ingests, Answer(i)
    PROVE  WatchInv'
  <1> DEFINE All == ChainNotice \cup BurnNotice
             events == ingests[i].events
             n == Len(events)
  <1>1. /\ UNCHANGED <<vars, agreed, closureCount, owed>>
        /\ UNCHANGED <<closures, signatures, attempts, payments, revealed, mempool>>
        /\ ingests' = [ingests EXCEPT ![i] = Node!Idle]
        /\ ingests[i].rest = <<>> /\ ingests[i].dispute = None
        /\ feed' = IF n <= Len(feed) /\ SubSeq(feed, 1, n) = events
                   THEN SubSeq(feed, n + 1, Len(feed)) ELSE feed
    BY DEF Answer, Node!Finish, NodeStep, Node!store
  <1>2. feed \in Seq(All) /\ Len(feed) \in Nat /\ ingests[i] \in Calls
    BY DEF WatchInv, SystemTypes
  <1>3. n \in Nat /\ Handled(ingests[i]) = n
    BY <1>1, <1>2, CallFacts DEF Handled
  <1> HIDE DEF All, n
  <1>4. CASE feed' = feed
    <2>1. closures' \in [PipeKeys -> Rows \cup {None}] /\ mempool' \subseteq Transactions
          /\ feed' \in Seq(ChainNotice \cup BurnNotice)
      BY <1>1, <1>4 DEF WatchInv, SystemTypes
    <2>2. owed # None => Fits(Node!Idle) /\ AnswersOrMade(Node!Idle)
      BY IdleFacts DEF Fits, AnswersOrMade
    <2>3. \A k \in 1..Len(feed') : \E l \in 1..Len(feed) : feed'[k] = feed[l]
      BY <1>4
    <2>4. owed # None => DisputeMade \/ \E k \in 1..Len(feed') : Opens(feed'[k], closureCount)
      BY <1>4, FeedLeadsOrMade
    <2>5. QED
      BY <1>1, <2>1, <2>2, <2>3, <2>4, IdleFacts, CallStep
  <1>5. CASE feed' # feed
    <2>1. /\ n \in 0..Len(feed) /\ SubSeq(feed, 1, n) = events
          /\ feed' = SubSeq(feed, n + 1, Len(feed))
      BY <1>1, <1>2, <1>3, <1>5
    <2>2. /\ feed' \in Seq(All) /\ Len(feed') = Len(feed) - n
          /\ \A k \in 1..Len(feed) - n : feed'[k] = feed[n + k]
          /\ \A k \in 1..n : SubSeq(feed, 1, n)[k] = feed[k]
      BY <1>2, <2>1, DropFacts
    <2>3. \A k \in 1..Len(feed') : n + k \in 1..Len(feed) /\ feed'[k] = feed[n + k]
      BY <1>2, <1>3, <2>1, <2>2
    <2>4. ASSUME owed # None, ~DisputeMade
          PROVE  \E k \in 1..Len(feed') : Opens(feed'[k], closureCount)
      <3>1. PICK k \in 1..Len(feed) : Opens(feed[k], closureCount)
        BY <2>4, FeedLeadsOrMade
      <3>2. Answers(ingests[i], closureCount)
        BY <2>4, CallsFit DEF WatchInv, AnswersOrMade
      <3>3. \A l \in 1..n : ~Opens(events[l], closureCount)
        BY <1>1, <1>3, <3>2 DEF Answers, Disputing
      <3>4. k \notin 1..n
        BY <2>1, <2>2, <3>1, <3>3
      <3>5. k - n \in 1..Len(feed') /\ feed'[k - n] = feed[k]
        BY <1>2, <1>3, <2>1, <2>2, <3>1, <3>4
      <3>6. QED
        BY <3>1, <3>5
    <2>5. closures' \in [PipeKeys -> Rows \cup {None}] /\ mempool' \subseteq Transactions
          /\ feed' \in Seq(ChainNotice \cup BurnNotice)
      BY <1>1, <2>2 DEF WatchInv, SystemTypes, All
    <2>6. owed # None => Fits(Node!Idle) /\ AnswersOrMade(Node!Idle)
      BY IdleFacts DEF Fits, AnswersOrMade
    <2>7. QED
      BY <1>1, <2>3, <2>4, <2>5, <2>6, IdleFacts, CallStep
  <1>6. QED
    BY <1>4, <1>5

\* A call handles its next event.
LEMMA ProceedStep ==
    ASSUME WatchInv, NEW i \in Ingests, NEW d \in Disputes \cup {None}, Node!Proceed(i, d),
           ingests[i].rest # <<>>, ingests[i].dispute = None,
           NEW e, e = Head(ingests[i].rest),
           d # None => Forced(e) /\ d.id = <<e.txid, Us>> /\ ~d.sent,
           owed # None /\ Opens(e, closureCount) /\ Describes(e, OnChain) =>
               \/ d = None /\ DisputeMade
               \/ Disputing(d, closureCount) /\ Winning(d.tx),
           UNCHANGED <<vars, agreed, closureCount, owed, feed>>,
           UNCHANGED <<signatures, attempts, payments, revealed, mempool>>,
           closures' \in [PipeKeys -> Rows \cup {None}]
    PROVE  WatchInv'
  <1> DEFINE old == ingests[i]
             c == Node!Onward(old, d)
  <1>1. ingests' = [ingests EXCEPT ![i] = c]
    BY DEF Node!Proceed
  <1>2. old \in Calls /\ InOrder(old, mempool) /\ UpTo(old, closureCount)
    BY DEF WatchInv, SystemTypes, CallsInOrder, Numbered
  <1>3. RestFollows(old) /\ old.rest # <<>>
    BY <1>2 DEF InOrder
  <1> HIDE DEF old, c
  <1>4. /\ c \in Calls /\ c.events = old.events /\ c.dispute = d
        /\ Handled(c) = Handled(old) + 1 /\ Handled(c) \in 1..Len(old.events)
        /\ Handled(old) \in 0..Len(old.events) /\ Len(old.events) \in Nat
        /\ RestFollows(c) /\ e = old.events[Handled(c)]
    BY <1>2, <1>3, OnwardFacts, CallFacts DEF c, old
  <1>5. old.events # <<>>
    BY <1>4
  <1>6. InOrder(c, mempool')
    BY <1>2, <1>4, <1>5 DEF InOrder
  <1>7. Forced(e) => e.txid <= closureCount
    BY <1>2, <1>4 DEF UpTo
  <1>8. UpTo(c, closureCount)
    BY <1>2, <1>4, <1>7 DEF UpTo
  <1>9. Disputing(d, closureCount) => Opens(e, closureCount)
    BY DEF Disputing, Opens
  <1>10. ASSUME owed # None
         PROVE  Fits(c) /\ AnswersOrMade(c)
    <2>1. Fits(old) /\ AnswersOrMade(old)
      BY <1>10, CallsFit DEF WatchInv, old
    <2>2. Tells(c, closureCount, OnChain) /\ Tells(old, closureCount, OnChain)
      BY <1>4, <2>1 DEF Fits, Tells
    <2>3. Opens(e, closureCount) => Describes(e, OnChain)
      BY <1>4, <2>2 DEF Tells
    <2>4. Disputing(d, closureCount) => Winning(d.tx)
      BY <1>9, <1>10, <2>3 DEF Disputing
    <2>5. height >= OnChain.expiresAt => Free(c, closureCount)
      BY <1>4, <1>9, <2>1 DEF Fits, Free
    <2>6. AnswersOrMade(c)
      <3>1. ASSUME ~DisputeMade, NEW k \in 1..Handled(c), Opens(c.events[k], closureCount)
            PROVE  Disputing(c.dispute, closureCount)
        <4>1. CASE k = Handled(c)
          BY <1>4, <1>10, <2>3, <3>1, <4>1
        <4>2. CASE k # Handled(c)
          <5>1. k \in 1..Handled(old)
            BY <1>4, <4>2
          <5>2. Answers(old, closureCount)
            BY <2>1, <3>1 DEF AnswersOrMade
          <5>3. Disputing(old.dispute, closureCount)
            BY <1>4, <3>1, <5>1, <5>2 DEF Answers
          <5>4. QED
            BY <5>3 DEF Disputing, old
        <4>3. QED
          BY <4>1, <4>2
      <3>2. QED
        BY <3>1 DEF AnswersOrMade, Answers
    <2>7. QED
      BY <1>4, <2>2, <2>4, <2>5, <2>6 DEF Fits
  <1>11. mempool' \subseteq Transactions /\ feed' \in Seq(ChainNotice \cup BurnNotice)
    BY DEF WatchInv, SystemTypes
  <1>12. QED
    BY <1>1, <1>4, <1>6, <1>8, <1>10, <1>11, FeedLeadsOrMade, CallStep

\* Every kind of event keeps the invariant.
LEMMA HandleEventStep ==
    ASSUME WatchInv, NEW i \in Ingests, Node!HandleEvent(i), NodeStep, UNCHANGED feed
    PROVE  WatchInv'
  <1> DEFINE e == Head(ingests[i].rest)
  <1>1. UNCHANGED <<vars, agreed, closureCount, owed, feed>>
    BY DEF NodeStep
  <1>2. ingests[i] \in Calls /\ closures \in [PipeKeys -> Rows \cup {None}]
        /\ RestFollows(ingests[i])
    BY DEF WatchInv, SystemTypes, CallsInOrder, InOrder
  <1>3. ASSUME ingests[i].rest # <<>>
        PROVE  e \in ChainNotice
    BY <1>2, <1>3, OnwardFacts
  <1>4. CASE Node!ObservePipe(i)
    <2>1. /\ ingests[i].dispute = None /\ ingests[i].rest # <<>> /\ ~Forced(e)
          /\ Node!Proceed(i, None)
          /\ UNCHANGED <<closures, signatures, attempts, payments, revealed, mempool>>
      BY <1>4 DEF Node!ObservePipe, Node!Handling, Forced
    <2> HIDE DEF e
    <2>2. ~Opens(e, closureCount)
      BY <2>1 DEF Opens
    <2>3. QED
      BY <1>1, <1>2, <2>1, <2>2, ProceedStep DEF e
  <1>5. CASE Node!EndClosure(i)
    <2>1. /\ ingests[i].dispute = None /\ ingests[i].rest # <<>> /\ ~Forced(e)
          /\ Node!Proceed(i, None) /\ closures' = [closures EXCEPT ![e.key] = None]
          /\ UNCHANGED <<signatures, attempts, payments, revealed, mempool>>
      BY <1>5 DEF Node!EndClosure, Node!Handling, Forced, Node!TerminalEvents
    <2> HIDE DEF e
    <2>2. ~Opens(e, closureCount)
      BY <2>1 DEF Opens
    <2>3. closures' \in [PipeKeys -> Rows \cup {None}]
      BY <1>2, <2>1
    <2>4. QED
      BY <1>1, <2>1, <2>2, <2>3, ProceedStep DEF e
  <1>6. CASE Node!OpenClosure(i)
    <2> DEFINE row == [closer |-> Node!Closer(e), nonce |-> e.pipe.nonce]
               d == Node!Dispute(e)
    <2>1. /\ ingests[i].dispute = None /\ ingests[i].rest # <<>> /\ Forced(e)
          /\ Node!Proceed(i, d) /\ closures' = [closures EXCEPT ![e.key] = row]
          /\ UNCHANGED <<signatures, attempts, payments, revealed, mempool>>
      BY <1>6 DEF Node!OpenClosure, Node!Handling, Forced, Node!OpenClosureEvents
    <2>2. e \in ChainNotice
      BY <1>3, <2>1
    <2> HIDE DEF e
    <2>3. row \in Rows
      BY <2>1, <2>2 DEF ChainNotice, Rows, Node!Closer, Pipe
    <2> HIDE DEF row
    <2>4. closures' \in [PipeKeys -> Rows \cup {None}]
      BY <1>2, <2>1, <2>3
    <2>5. d \in Disputes \cup {None} /\ (d # None => d.id = <<e.txid, Us>> /\ ~d.sent)
      BY <2>1, <2>2, DisputeFacts
    <2>6. owed # None /\ Opens(e, closureCount) /\ Describes(e, OnChain) =>
             \/ d = None /\ DisputeMade
             \/ Disputing(d, closureCount) /\ Winning(d.tx)
      BY <2>2, OwedDispute
    <2> HIDE DEF d
    <2>7. QED
      BY <1>1, <2>1, <2>4, <2>5, <2>6, ProceedStep DEF e
  <1>7. QED
    BY <1>4, <1>5, <1>6 DEF Node!HandleEvent

\* A dispute reaches the network.
LEMMA BroadcastStep ==
    ASSUME WatchInv, NEW i \in Ingests, Node!Broadcast(i), NodeStep, UNCHANGED feed
    PROVE  WatchInv'
  <1> DEFINE old == ingests[i]
             d == [old.dispute EXCEPT !.sent = TRUE]
             c == [old EXCEPT !.dispute = d]
  <1>1. /\ UNCHANGED <<vars, agreed, closureCount, owed, feed>>
        /\ UNCHANGED <<closures, signatures, attempts, payments, revealed>>
        /\ old.dispute # None /\ mempool' = mempool \cup {old.dispute.tx}
    BY DEF NodeStep, Node!Broadcast, Node!store
  <1>2. ingests' = [ingests EXCEPT ![i] = c]
    BY DEF Node!Broadcast
  <1>3. old \in Calls /\ InOrder(old, mempool) /\ UpTo(old, closureCount)
    BY DEF WatchInv, SystemTypes, CallsInOrder, Numbered
  <1> HIDE DEF old, c
  <1>4. old.dispute \in Disputes
    BY <1>1, <1>3, CallFacts
  <1>5. d \in Disputes /\ d.id = old.dispute.id /\ d.tx = old.dispute.tx
        /\ d.tx \in Transactions
    BY <1>4 DEF Disputes
  <1> HIDE DEF d
  <1>6. d # None
    BY <1>5, NodeConstants DEF Node!NodeAssumption, Disputes, Transactions, Node!AttemptIds
  <1>7. /\ c.events = old.events /\ c.rest = old.rest /\ c.dispute = d /\ c \in Calls
        /\ Handled(c) = Handled(old)
    BY <1>3, <1>5 DEF c, Calls, Handled
  <1>8. InOrder(c, mempool') /\ UpTo(c, closureCount)
    BY <1>1, <1>3, <1>5, <1>7, IdleFacts DEF InOrder, UpTo, RestFollows, Node!Idle
  <1>9. \A n : Disputing(d, n) <=> Disputing(old.dispute, n)
    BY <1>1, <1>5, <1>6 DEF Disputing
  <1>10. ASSUME owed # None
         PROVE  Fits(c) /\ AnswersOrMade(c)
    <2>1. Fits(old) /\ AnswersOrMade(old)
      BY <1>10, CallsFit DEF WatchInv, old
    <2>2. Disputing(d, closureCount) => Winning(d.tx)
      BY <1>4, <1>5, <1>9, <2>1 DEF Fits
    <2>3. Tells(c, closureCount, OnChain) /\ (Answers(old, closureCount) => Answers(c, closureCount))
      BY <1>7, <1>9, <2>1 DEF Fits, Tells, Answers
    <2>4. Free(old, closureCount) => Free(c, closureCount)
      BY <1>7, <1>9 DEF Free
    <2>5. QED
      BY <1>7, <2>1, <2>2, <2>3, <2>4 DEF Fits, AnswersOrMade
  <1>11. /\ mempool' \subseteq Transactions /\ feed' \in Seq(ChainNotice \cup BurnNotice)
         /\ closures' \in [PipeKeys -> Rows \cup {None}]
    BY <1>1, <1>5 DEF WatchInv, SystemTypes
  <1>12. QED
    BY <1>1, <1>2, <1>7, <1>8, <1>10, <1>11, FeedLeadsOrMade, CallStep

\* The outcome of a submission is recorded: of the latest closure, the dispute waits in the
\* mempool or failed; of an earlier one, it changes nothing.
LEMMA RecordAttemptStep ==
    ASSUME WatchInv, NEW i \in Ingests, NEW success \in BOOLEAN,
           Node!RecordAttempt(i, success), NodeStep, UNCHANGED feed
    PROVE  WatchInv'
  <1> DEFINE old == ingests[i]
             d == old.dispute
             c == [old EXCEPT !.dispute = None]
             latest == <<closureCount, Us>>
  <1>1. /\ UNCHANGED <<vars, agreed, closureCount, owed, feed>>
        /\ UNCHANGED <<closures, signatures, payments, revealed, mempool>>
        /\ d # None /\ (success => d.sent)
        /\ attempts' = [attempts EXCEPT ![d.id] = success]
        /\ ingests' = [ingests EXCEPT ![i] = c]
    BY DEF NodeStep, Node!RecordAttempt
  <1>2. old \in Calls /\ InOrder(old, mempool) /\ UpTo(old, closureCount)
        /\ attempts \in [Node!AttemptIds -> BOOLEAN \cup {None}]
    BY DEF WatchInv, SystemTypes, CallsInOrder, Numbered
  <1> HIDE DEF old, c
  <1>3. d \in Disputes /\ d.id \in Node!AttemptIds /\ d.tx \in Transactions
    BY <1>1, <1>2, CallFacts DEF Disputes
  <1>4. /\ c.events = old.events /\ c.rest = old.rest /\ c.dispute = None /\ c \in Calls
        /\ Handled(c) = Handled(old)
    BY <1>2 DEF c, Calls, Handled
  <1>5. InOrder(c, mempool') /\ UpTo(c, closureCount)
    BY <1>1, <1>2, <1>4, IdleFacts DEF InOrder, UpTo, RestFollows, Node!Idle
  <1>6. /\ ingests' \in [Ingests -> Calls] /\ CallsInOrder'
        /\ \A j \in Ingests : UpTo(ingests'[j], closureCount)
        /\ \A j \in Ingests : j # i => ingests'[j] = ingests[j]
        /\ ingests'[i] = c
    BY <1>1, <1>4, <1>5, CallChange
  <1>7. /\ attempts' \in [Node!AttemptIds -> BOOLEAN \cup {None}]
        /\ attempts'[d.id] = success
        /\ \A id \in Node!AttemptIds : id # d.id => attempts'[id] = attempts[id]
    BY <1>1, <1>2, <1>3
  <1>8. SystemTypes'
    BY <1>1, <1>6, <1>7 DEF WatchInv, SystemTypes
  <1>9. \A id \in Node!AttemptIds : attempts'[id] # None => id[1] <= closureCount
    BY <1>1, <1>2, <1>7 DEF WatchInv, Numbered, UpTo
  <1>10. ASSUME owed # None
         PROVE  Debt'
    <2>1. OwedStored /\ DisputesWin /\ EventLeads /\ OverAfterExpiry /\ Fits(old)
      BY <1>10, CallsFit DEF WatchInv, Debt, old
    <2>2. /\ latest \in Node!AttemptIds /\ OnChain' = OnChain /\ height' = height
          /\ height \in Int /\ OnChain.expiresAt \in Int /\ revealed' = revealed
          /\ closureCount' = closureCount
      BY <1>1, <2>1, LatestFacts DEF OwedStored, vars, OnChain
    <2>3. OwedStored'
      BY <1>1, <1>10, StoredStays
    <2>4. Fits(c)
      BY <1>4, <2>1 DEF Fits, Tells, Free, Disputing
    <2>5. \A j \in Ingests : \E x \in Calls : ingests'[j] = x /\ Fits(x)
      <3>1. ASSUME NEW j \in Ingests
            PROVE  Fits(ingests[j]) /\ ingests[j] \in Calls
        BY <1>10, CallsFit DEF WatchInv, SystemTypes
      <3>2. QED
        BY <1>4, <1>6, <2>4, <3>1
    <2>6. ASSUME NEW tx \in mempool, Winning(tx)
          PROVE  tx \in mempool' /\ Winning(tx)'
      <3>1. tx \in Transactions
        BY DEF WatchInv, SystemTypes
      <3>2. QED
        BY <1>1, <2>2, <2>6, <3>1, WinningStays
    <2>7. CASE d.id = latest
      <3>1. Disputing(d, closureCount) /\ Winning(d.tx)
        BY <1>1, <1>3, <2>1, <2>7 DEF Disputing, Fits
      <3>2. success => d.tx \in mempool
        BY <1>1, <1>2 DEF InOrder
      <3>3. success => \E tx \in mempool' : Winning(tx)'
        BY <2>6, <3>1, <3>2
      <3>4. ~success => SubmissionFailed'
        BY <1>1, <1>7, <2>7 DEF SubmissionFailed
      <3>5. EventLeads'
        BY <3>3, <3>4 DEF EventLeads, DisputeMade
      <3>6. height < OnChain.expiresAt
        BY <2>1, <2>2, <3>1 DEF Fits, Free
      <3>7. attempts'[latest] = TRUE => \E tx \in mempool' : Winning(tx)'
        BY <1>7, <2>7, <3>3
      <3>8. QED
        BY <1>1, <1>10, <2>3, <2>5, <3>5, <3>6, <3>7, DebtKept
    <2>8. CASE d.id # latest
      <3>1. attempts'[latest] = attempts[latest] /\ (SubmissionFailed => SubmissionFailed')
        BY <1>1, <1>7, <2>2, <2>8 DEF SubmissionFailed
      <3>2. DisputeMade => DisputeMade'
        BY <2>6, <3>1 DEF DisputeMade
      <3>3. ~Disputing(d, closureCount)
        BY <2>8 DEF Disputing
      <3>4. Answers(old, closureCount) => Answers(c, closureCount)
        BY <1>4, <3>3 DEF Answers
      <3>5. EventLeads'
        BY <1>1, <1>6, <2>1, <2>2, <3>2, <3>4 DEF EventLeads, old
      <3>6. QED
        BY <1>1, <1>10, <2>3, <2>5, <3>1, <3>5, DebtKept
    <2>9. QED
      BY <2>7, <2>8
  <1>11. Debt'
    BY <1>1, <1>10 DEF Debt
  <1>12. QED
    BY <1>1, <1>6, <1>8, <1>9, <1>11, WatchKept

--------------------------------------------------------------------------------
(* The theorems *)

\* Every step of the system keeps the invariant.
LEMMA SystemNextStep ==
    ASSUME WatchInv, [SystemNext]_allVars
    PROVE  WatchInv'
  <1>1. CASE Chain
    <2>1. /\ IInv' /\ UNCHANGED <<agreed, nodeVars>>
          /\ ChainRests \/ ChainMoves \/ ChainStarts \/ ChainEnds \/ ChainGrows
      BY <1>1, ChainStep DEF WatchInv
    <2>2. SystemTypes' /\ CallsInOrder' /\ Numbered'
      BY <2>1, ChainTypes
    <2>3. Debt'
      BY <2>1, <2>2, ChainDebt
    <2>4. QED
      BY <2>1, <2>2, <2>3 DEF WatchInv
  <1>2. CASE \E s \in States : Agree(s)
    BY <1>2, AgreeStep
  <1>3. CASE \E s \in agreed : Submit(s)
    BY <1>3, SubmitStep
  <1>4. CASE \E i \in Ingests : PostBlock(i) \/ Answer(i)
    BY <1>4, PostBlockStep, AnswerStep
  <1>5. CASE PostBurnBlock
    BY <1>5, PostBurnBlockStep
  <1>6. CASE NodeInside
    <2>1. NodeStep /\ UNCHANGED feed
      BY <1>6 DEF NodeInside
    <2>2. CASE \E i \in Ingests : Node!HandleEvent(i) \/ Node!SubmitDispute(i)
      BY <2>1, <2>2, HandleEventStep, BroadcastStep, RecordAttemptStep DEF Node!SubmitDispute
    <2>3. CASE \E s \in agreed : s.hash \in Hashes /\ Node!ForwardPayment(s.hash)
      <3>1. PICK s \in agreed : s.hash \in Hashes /\ Node!ForwardPayment(s.hash)
        BY <2>3
      <3>2. QED
        BY <2>1, <3>1, PaymentStep
    <2>4. CASE \E h \in Hashes : Node!RevealSecret(h) \/ Node!PrunePayment(h)
      BY <2>1, <2>4, PaymentStep
    <2>5. CASE Node!Restart
      BY <2>1, <2>5, RestartStep
    <2>6. QED
      BY <1>6, <2>2, <2>3, <2>4, <2>5 DEF NodeInside
  <1>7. CASE UNCHANGED allVars
    <2>1. /\ UNCHANGED <<vars, agreed, feed, closureCount, owed>>
          /\ UNCHANGED <<closures, signatures, attempts, payments, revealed, ingests, mempool>>
      BY <1>7 DEF allVars, nodeVars
    <2>2. SystemTypes'
      BY <2>1 DEF WatchInv, SystemTypes
    <2>3. owed # None => OwedStored'
      BY <2>1, StoredStays
    <2>4. QED
      BY <2>1, <2>2, <2>3, FeedLeadsOrMade, RestingStep
  <1>8. QED
    BY <1>1, <1>2, <1>3, <1>4, <1>5, <1>6, <1>7 DEF SystemNext

\* In the beginning there are neither events nor debts.
LEMMA WatchInit ==
    ASSUME SystemInit
    PROVE  WatchInv
  <1>1. IInv
    BY InitInvariant DEF SystemInit
  <1>2. /\ closures = [k \in PipeKeys |-> None]
        /\ signatures = [side \in Node!Sides |-> None]
        /\ attempts = [id \in Node!AttemptIds |-> None]
        /\ payments = {} /\ revealed = {} /\ mempool = {}
        /\ ingests = [i \in Ingests |-> Node!Idle]
        /\ agreed = {} /\ feed = <<>> /\ closureCount = 0 /\ owed = None
    BY DEF SystemInit, Node!Init
  <1>3. SystemTypes
    BY <1>2, IdleFacts, PairAssumption DEF SystemTypes
  <1>4. CallsInOrder /\ Numbered /\ Debt
    BY <1>2, IdleFacts DEF CallsInOrder, Numbered, Debt
  <1>5. QED
    BY <1>1, <1>3, <1>4 DEF WatchInv

\* The invariant: the books of the contract, the types of the node, and, while a stored
\* state is due to win a closure, the way its dispute takes from the feed to the chain.
THEOREM WatchInvariance == SystemSpec => []WatchInv
  <1>1. SystemInit => WatchInv
    BY WatchInit
  <1>2. WatchInv /\ [SystemNext]_allVars => WatchInv'
    BY SystemNextStep
  <1>3. QED
    BY <1>1, <1>2, PTL DEF SystemSpec

\* A closure that Peer starts with older balances than a state that the node stores is
\* not finalized, unless the submission of the dispute failed.
THEOREM StaleClosures == SystemSpec => StaleClosureDisputed
  <1>1. ASSUME WatchInv, [SystemNext]_allVars
        PROVE  [event'.type = "finalize" /\ owed # None => SubmissionFailed]_allVars
    <2>1. SUFFICES ASSUME event'.type = "finalize", owed # None
                   PROVE  SubmissionFailed
      OBVIOUS
    <2>2. OwedStored /\ OverAfterExpiry
      BY <1>1, <2>1 DEF WatchInv, Debt
    <2>3. event' # event
      BY <2>1, <2>2 DEF OwedStored
    <2>4. Chain
      <3>1. CASE ~Chain
        <4>1. UNCHANGED vars
          BY <1>1, <3>1 DEF SystemNext, allVars, Agree, Submit, PostBlock, Answer, NodeStep,
               PostBurnBlock, NodeInside
        <4>2. QED
          BY <2>3, <4>1 DEF vars
      <3>2. QED
        BY <3>1
    <2>5. ChainRests \/ ChainMoves \/ ChainStarts \/ ChainEnds \/ ChainGrows
      BY <1>1, <2>4, ChainStep DEF WatchInv
    <2>6. height >= OnChain.expiresAt
      BY <2>1, <2>5
         DEF ChainRests, ChainMoves, ChainStarts, ChainEnds, ChainGrows, Rests, Moves, Starts,
             Ends, NoEvent
    <2>7. QED
      BY <2>2, <2>6 DEF OverAfterExpiry
  <1>2. QED
    BY <1>1, WatchInvariance, PTL DEF SystemSpec, StaleClosureDisputed

\* The rows of the node and its calls keep their types, and a closure is attributed to one
\* of the parties.
THEOREM NodeTypes == SystemSpec => []NodeTypeOK
  <1>1. ASSUME WatchInv
        PROVE  NodeTypeOK
    <2>1. ASSUME NEW k \in PipeKeys, closures[k] # None
          PROVE  closures[k].closer \in {k.principal1, k.principal2} /\ closures[k].nonce \in Nat
      <3>1. closures[k] \in Rows
        BY <1>1, <2>1 DEF WatchInv, SystemTypes
      <3>2. QED
        BY <3>1, Pair, PairAssumption DEF Rows
    <2>2. ASSUME NEW side \in Node!Sides
          PROVE  signatures[side] \in {s \in States : <<s.key, s.for>> = side} \cup {None}
      BY <1>1, <2>2 DEF WatchInv, SystemTypes
    <2>3. ASSUME NEW i \in Ingests
          PROVE  /\ Len(ingests[i].rest) <= Len(ingests[i].events)
                 /\ ingests[i].dispute # None => ingests[i].dispute.id \in Node!AttemptIds
      <3>1. ingests[i] \in Calls
        BY <1>1 DEF WatchInv, SystemTypes
      <3>2. ingests[i].dispute \in Disputes \cup {None}
        BY <3>1, CallFacts
      <3>3. QED
        BY <3>1, <3>2 DEF Calls, Disputes
    <2>4. QED
      BY <1>1, <2>1, <2>2, <2>3
         DEF WatchInv, SystemTypes, NodeTypeOK, Node!TypeOK, Transactions
  <1>2. QED
    BY <1>1, WatchInvariance, PTL

--------------------------------------------------------------------------------
(* The closures of the node and of the chain *)

\* The row that the event of a closure leads to, or that the end of one leads to.
LEMMA PostedRow ==
    ASSUME IInv, SystemTypes, ChainStarts \/ ChainEnds
    PROVE  RowOf(PostedEvent) = ChainRow'
  <1>1. CASE ChainStarts
    <2>1. Forced(PostedEvent)
      BY <1>1, PostedFacts
    <2>2. /\ OnChain'.closer = event'.sender /\ event'.sender \in {Us, Peer}
          /\ event'.pipe.closer \in {NoPrincipal, event'.sender}
          /\ event'.pipe.nonce = OnChain'.nonce
      BY <1>1 DEF ChainStarts, Starts
    <2>3. /\ Node!Closer(PostedEvent) = OnChain'.closer
          /\ PostedEvent.pipe.nonce = OnChain'.nonce
      BY <2>2 DEF PostedEvent, Node!Closer
    <2>4. OnChain'.closer # NoPrincipal
      BY <2>2, Pair
    <2>5. QED
      BY <2>1, <2>3, <2>4 DEF RowOf, ChainRow
  <1>2. CASE ChainEnds
    <2>1. ~Forced(PostedEvent)
      BY <1>2, PostedFacts DEF ChainEnds, ChainStarts, Starts, Ends
    <2>2. OnChain'.closer = NoPrincipal
      BY <1>2 DEF ChainEnds, Ends
    <2>3. QED
      BY <2>1, <2>2 DEF RowOf, ChainRow
  <1>3. QED
    BY <1>1, <1>2

\* Nothing else changes the row of the chain.
LEMMA ChainRowStays ==
    ASSUME ChainRests \/ ChainMoves \/ ChainGrows
    PROVE  ChainRow' = ChainRow
  <1>1. CASE ChainRests \/ ChainGrows
    BY <1>1 DEF ChainRests, ChainGrows, Rests, ChainRow, OnChain
  <1>2. CASE ChainMoves
    BY <1>2 DEF ChainMoves, Moves, ChainRow
  <1>3. QED
    BY <1>1, <1>2

\* The feed goes on to lead to the row of the chain, in the order of the closures.
LEMMA FeedAfterChain ==
    ASSUME WatchInv, FeedLeads, FeedRises, UNCHANGED nodeVars,
           ChainRests \/ ChainMoves \/ ChainStarts \/ ChainEnds \/ ChainGrows
    PROVE  FeedLeads' /\ FeedRises'
  <1> USE DEF WatchInv
  <1> DEFINE n == Len(feed)
             e == feed'[n + 1]
  <1>1. /\ n \in Nat /\ Len(feed') \in Nat /\ n <= Len(feed') /\ Len(feed') <= n + 1
        /\ \A k \in 1..n : feed'[k] = feed[k]
        /\ ~ChainRests => Len(feed') = n + 1
        /\ ChainRests => Len(feed') = n
    BY FeedGrows
  <1>2. closures' = closures
    BY DEF nodeVars
  <1>3. ChainMoves \/ ChainGrows => ~Affects(e)
    BY FeedGrows, PostedFacts, BurnFacts
  <1>4. ChainStarts \/ ChainEnds => Affects(e) /\ RowOf(e) = ChainRow'
    <2>1. ~(ChainMoves /\ (ChainStarts \/ ChainEnds))
      BY DEF ChainMoves, ChainStarts, ChainEnds, Moves, Starts, Ends
    <2>2. QED
      BY <2>1, FeedGrows, PostedFacts, PostedRow
  <1>5. PICK m \in 0..n : /\ \A l \in (m + 1)..n : ~Affects(feed[l])
                          /\ m = 0 => closures[ThePipe] = ChainRow
                          /\ m # 0 => Affects(feed[m]) /\ RowOf(feed[m]) = ChainRow
    BY DEF FeedLeads
  <1> HIDE DEF n, e
  <1>6. FeedLeads'
    <2>1. CASE ChainStarts \/ ChainEnds
      <3>1. Len(feed') = n + 1
        BY <1>1, <2>1 DEF ChainStarts, ChainEnds, ChainRests, Starts, Ends, Rests, NoEvent
      <3>2. /\ n + 1 \in 0..Len(feed') /\ n + 1 # 0
            /\ \A l \in ((n + 1) + 1)..Len(feed') : ~Affects(feed'[l])
        BY <1>1, <3>1
      <3>3. QED
        BY <1>4, <2>1, <3>2 DEF FeedLeads, e
    <2>2. CASE ChainRests \/ ChainMoves \/ ChainGrows
      <3>1. ChainRow' = ChainRow
        BY <2>2, ChainRowStays
      <3>2. ASSUME NEW l \in (m + 1)..Len(feed')
            PROVE  ~Affects(feed'[l])
        <4>1. CASE l = n + 1
          BY <1>1, <1>3, <2>2, <3>2, <4>1 DEF e
        <4>2. CASE l # n + 1
          BY <1>1, <1>5, <3>2, <4>2
        <4>3. QED
          BY <4>1, <4>2
      <3>3. m \in 0..Len(feed') /\ (m # 0 => feed'[m] = feed[m])
        BY <1>1
      <3>4. QED
        BY <1>2, <1>5, <3>1, <3>2, <3>3 DEF FeedLeads
    <2>3. QED
      BY <2>1, <2>2
  <1>7. FeedRises'
    <2>1. SUFFICES ASSUME NEW k \in 1..Len(feed'), NEW l \in (k + 1)..Len(feed'),
                          Forced(feed'[k]), Forced(feed'[l])
                   PROVE  feed'[k].txid < feed'[l].txid
      BY DEF FeedRises
    <2>2. CASE l \in 1..n
      BY <1>1, <2>1, <2>2 DEF FeedRises, n
    <2>3. CASE l \notin 1..n
      <3>1. l = n + 1 /\ k \in 1..n /\ feed'[k] = feed[k]
        BY <1>1, <2>1, <2>3
      <3>2. feed[k] \in ChainNotice \cup BurnNotice /\ feed[k].txid <= closureCount
        BY <2>1, <3>1 DEF Numbered, SystemTypes, n
      <3>3. feed[k].txid \in Nat
        BY <2>1, <3>1, <3>2, PairAssumption DEF ChainNotice, BurnNotice, Forced
      <3>4. ChainStarts
        <4>1. e = PostedEvent \/ e = PostedBlock
          BY <1>1, <3>1, <2>1, FeedGrows DEF e, n
        <4>2. ~ChainRests
          BY <1>1, <2>1, <3>1
        <4>3. QED
          BY <2>1, <3>1, <4>2, FeedGrows, PostedFacts, BurnFacts DEF e, n
      <3>5. feed'[l].txid = closureCount + 1 /\ closureCount \in Nat
        BY <3>1, <3>4, FeedGrows, PostedFacts, PairAssumption DEF n, ChainStarts, SystemTypes
      <3>6. QED
        BY <3>1, <3>2, <3>3, <3>5
    <2>4. QED
      BY <2>2, <2>3
  <1>8. QED
    BY <1>6, <1>7

\* An event that the chain adds to the feed is newer than what a call works on.
LEMMA FollowsLonger ==
    ASSUME OneAtATime, NEW c \in Calls, NEW f, NEW g, NEW row, NEW n \in Nat, NEW pool,
           InOrder(c, pool), UpTo(c, n), Follows(c, f, row),
           Len(f) \in Nat, Len(g) \in Nat, Len(f) <= Len(g), Len(g) <= Len(f) + 1,
           \A k \in 1..Len(f) : g[k] = f[k],
           Len(g) = Len(f) + 1 /\ Forced(g[Len(f) + 1]) => g[Len(f) + 1].txid = n + 1
    PROVE  Follows(c, g, row)
  <1> SUFFICES ASSUME c # Node!Idle
               PROVE  WorksOn(c, g) /\ Reflects(c, g, row) /\ NewerFollow(c, g)
    BY DEF Follows
  <1>1. /\ Len(c.events) \in Nat /\ Len(c.events) >= 1 /\ Len(c.events) <= MaxBatch
        /\ c.events[1] \in ChainNotice /\ c.events[1].txid \in Nat
        /\ Forced(c.events[1]) => c.events[1].txid <= n
    <2>1. /\ Len(c.events) \in Nat /\ c.events # <<>> /\ c.events \in Seq(ChainNotice)
          /\ Len(c.events) <= MaxBatch
      BY CallFacts DEF InOrder
    <2>2. 1 \in 1..Len(c.events)
      BY <2>1
    <2>3. QED
      BY <2>1, <2>2, CallFacts DEF UpTo
  <1>2. WorksOn(c, f) /\ Reflects(c, f, row) /\ NewerFollow(c, f)
    BY DEF Follows
  <1>3. InFeed(c, f) => InFeed(c, g)
    BY <1>1 DEF InFeed
  <1>4. InFeed(c, g) => InFeed(c, f)
    <2>1. SUFFICES ASSUME InFeed(c, g), ~InFeed(c, f)
                   PROVE  FALSE
      OBVIOUS
    <2>2. Forced(c.events[1]) /\ MaxBatch = 1
      <3>1. Forced(c.events[1]) /\ ~Alone
        BY <1>2, <2>1 DEF WorksOn
      <3>2. QED
        BY <3>1 DEF OneAtATime, Alone
    <2>3. Len(c.events) = 1
      <3> DEFINE m == Len(c.events)
      <3>1. m \in Nat /\ m >= 1 /\ m <= MaxBatch
        BY <1>1
      <3> HIDE DEF m
      <3>2. m = 1
        BY <2>2, <3>1
      <3>3. QED
        BY <3>2 DEF m
    <2>4. Len(f) = 0 /\ Len(g) = Len(f) + 1
      BY <2>1, <2>3 DEF InFeed
    <2>5. c.events[1] = g[Len(f) + 1]
      BY <2>1, <2>3, <2>4 DEF InFeed
    <2>6. QED
      BY <1>1, <2>2, <2>4, <2>5
  <1>5. NewerFollow(c, g)
    <2>1. SUFFICES ASSUME NEW k \in 2..Len(g), Forced(g[k]), Forced(c.events[1])
                   PROVE  c.events[1].txid < g[k].txid
      BY DEF NewerFollow
    <2>2. CASE k <= Len(f)
      BY <1>2, <2>1, <2>2 DEF NewerFollow
    <2>3. CASE k > Len(f)
      <3>1. k = Len(f) + 1 /\ Len(g) = Len(f) + 1
        BY <2>3
      <3>2. QED
        BY <1>1, <2>1, <3>1
    <2>4. QED
      BY <2>2, <2>3
  <1>6. QED
    BY <1>2, <1>3, <1>4, <1>5 DEF WorksOn, Reflects

\* A call that was overtaken does not work on the rest of the feed.
LEMMA FollowsShorter ==
    ASSUME OneAtATime, ~Alone, NEW c \in Calls, NEW f, NEW g, NEW row, NEW pool,
           InOrder(c, pool), Follows(c, f, row), ~Running(c),
           Len(f) \in Nat, Len(g) \in Nat, NEW n \in Nat \ {0}, Len(g) = Len(f) - n,
           \A k \in 1..Len(g) : g[k] = f[k + n]
    PROVE  Follows(c, g, row)
  <1> SUFFICES ASSUME c # Node!Idle
               PROVE  WorksOn(c, g) /\ Reflects(c, g, row) /\ NewerFollow(c, g)
    BY DEF Follows
  <1>1. NewerFollow(c, f) /\ Handled(c) >= 1 /\ Forced(c.events[Handled(c)])
    BY DEF Follows, WaitsAtClosing, Running
  <1>2. /\ c.rest \in Seq(ChainNotice) /\ Len(c.events) \in Nat /\ Len(c.rest) \in Nat
        /\ Handled(c) \in 0..Len(c.events) /\ Len(c.events) <= MaxBatch /\ MaxBatch = 1
    <2>1. MaxBatch = 1
      BY DEF OneAtATime, Alone
    <2>2. QED
      BY <2>1, CallFacts DEF InOrder
  <1>3. /\ Len(c.events) = 1 /\ Handled(c) = 1 /\ Forced(c.events[1]) /\ Len(c.rest) = 0
    <2>1. Len(c.events) = 1
      <3> DEFINE m == Len(c.events)
                 h == Handled(c)
      <3>1. m \in Nat /\ h \in 0..m /\ h >= 1 /\ m <= MaxBatch /\ MaxBatch = 1
        BY <1>1, <1>2
      <3> HIDE DEF m, h
      <3>2. m = 1
        BY <3>1
      <3>3. QED
        BY <3>2 DEF m
    <2>2. Handled(c) = 1
      BY <1>1, <1>2, <2>1
    <2>3. QED
      BY <1>1, <1>2, <2>1, <2>2 DEF Handled
  <1>4. c.rest = <<>>
    BY <1>2, <1>3
  <1>5. WorksOn(c, g)
    BY <1>3, <1>4 DEF WorksOn
  <1>6. NewerFollow(c, g)
    <2>1. SUFFICES ASSUME NEW k \in 2..Len(g), Forced(g[k])
                   PROVE  c.events[1].txid < g[k].txid
      BY DEF NewerFollow
    <2>2. k + n \in 2..Len(f) /\ g[k] = f[k + n]
      OBVIOUS
    <2>3. QED
      BY <1>1, <1>3, <2>1, <2>2 DEF NewerFollow
  <1>7. ~InFeed(c, g)
    <2>1. SUFFICES ASSUME InFeed(c, g)
                   PROVE  FALSE
      OBVIOUS
    <2>2. Len(g) >= 1 /\ c.events[1] = g[1]
      BY <1>3, <2>1 DEF InFeed
    <2>3. 1 + n \in 2..Len(f) /\ g[1] = f[1 + n]
      BY <2>2
    <2>4. 1 \in 1..Len(c.events) /\ c.events[1].txid \in Nat
      BY <1>3, CallFacts
    <2>5. c.events[1].txid < c.events[1].txid
      BY <1>1, <1>3, <2>2, <2>3 DEF NewerFollow
    <2>6. QED
      BY <2>4, <2>5
  <1>8. QED
    BY <1>5, <1>6, <1>7 DEF Reflects

\* A call that is over follows anything.
LEMMA IdleFollows ==
    ASSUME NEW f, NEW row
    PROVE  Follows(Node!Idle, f, row) /\ ~Running(Node!Idle)
  BY DEF Follows, WaitsAtClosing, Node!Idle, Running

\* The chain keeps the view.
LEMMA ViewAfterChain ==
    ASSUME OneAtATime, WatchInv, ViewInv, UNCHANGED <<agreed, nodeVars>>,
           ChainRests \/ ChainMoves \/ ChainStarts \/ ChainEnds \/ ChainGrows
    PROVE  ViewInv'
  <1> USE DEF WatchInv, ViewInv
  <1>1. FeedLeads' /\ FeedRises'
    BY FeedAfterChain
  <1>2. closures' = closures /\ ingests' = ingests
    BY DEF nodeVars
  <1>3. OneRuns'
    BY <1>2 DEF OneRuns
  <1>4. /\ Len(feed) \in Nat /\ Len(feed') \in Nat /\ Len(feed) <= Len(feed')
        /\ Len(feed') <= Len(feed) + 1
        /\ \A k \in 1..Len(feed) : feed'[k] = feed[k]
    BY FeedGrows
  <1>5. closureCount \in Nat
    BY PairAssumption DEF SystemTypes
  <1>6. ASSUME Len(feed') = Len(feed) + 1, Forced(feed'[Len(feed) + 1])
        PROVE  feed'[Len(feed) + 1].txid = closureCount + 1
    <2>1. ~ChainRests
      BY <1>4, <1>6, FeedGrows
    <2>2. ChainStarts /\ feed'[Len(feed) + 1] = PostedEvent
      BY <1>6, <2>1, FeedGrows, PostedFacts, BurnFacts
    <2>3. QED
      BY <2>2, PostedFacts DEF ChainStarts
  <1>7. ASSUME NEW i \in Ingests
        PROVE  Follows(ingests[i], feed', closures[ThePipe])
    <2> DEFINE c == ingests[i]
               row == closures[ThePipe]
    <2>1. /\ c \in Calls /\ InOrder(c, mempool) /\ UpTo(c, closureCount)
          /\ Follows(c, feed, row)
      BY DEF SystemTypes, CallsInOrder, Numbered, CallsFollow
    <2> HIDE DEF c, row
    <2>2. Follows(c, feed', row)
      BY <1>4, <1>5, <1>6, <2>1, FollowsLonger
    <2>3. QED
      BY <2>2 DEF c, row
  <1>8. CallsFollow'
    BY <1>2, <1>7 DEF CallsFollow
  <1>9. QED
    BY <1>1, <1>3, <1>8

\* A step of one call that leaves the feed as it is.
LEMMA ViewAfterCall ==
    ASSUME WatchInv, ViewInv, UNCHANGED <<pipes, feed>>, NEW i \in Ingests, NEW c,
           ingests' = [ingests EXCEPT ![i] = c],
           Running(c) => Running(ingests[i]) \/ Node!Quiet,
           FeedLeads', Follows(c, feed, closures'[ThePipe]),
           \A j \in Ingests : j # i => Follows(ingests[j], feed, closures'[ThePipe])
    PROVE  ViewInv'
  <1> USE DEF ViewInv
  <1>1. /\ ingests'[i] = c
        /\ \A j \in Ingests : j # i => ingests'[j] = ingests[j]
    BY DEF WatchInv, SystemTypes
  <1>2. FeedRises'
    BY DEF FeedRises
  <1>3. CallsFollow'
    BY <1>1 DEF CallsFollow
  <1>4. Node!Quiet => \A j \in Ingests : ~Running(ingests[j])
    BY DEF Node!Quiet, Node!Busy, Running
  <1>5. OneRuns'
    <2>1. ASSUME NEW j \in Ingests, NEW k \in Ingests, Running(ingests'[j]), Running(ingests'[k])
          PROVE  j = k
      BY <1>1, <1>4, <2>1 DEF OneRuns
    <2>2. QED
      BY <2>1 DEF OneRuns
  <1>6. QED
    BY <1>2, <1>3, <1>5

\* A call that has moved no further in its events follows what it followed.
LEMMA SameFollows ==
    ASSUME NEW c, NEW old, NEW f, NEW row, Follows(old, f, row), old # Node!Idle,
           c.events = old.events, c.rest = old.rest, Handled(c) = Handled(old),
           c.dispute # None => old.dispute # None
    PROVE  Follows(c, f, row)
  BY DEF Follows, WorksOn, InFeed, Reflects, LastOf, NewerFollow, WaitsAtClosing

\* A step that leaves the feed and the table as they are, and the calls or ends them.
LEMMA ViewRests ==
    ASSUME WatchInv, ViewInv, UNCHANGED <<pipes, feed, closures>>,
           \A j \in Ingests : ingests'[j] \in {ingests[j], Node!Idle}
    PROVE  ViewInv'
  <1> USE DEF ViewInv
  <1>1. FeedLeads' /\ FeedRises'
    BY DEF FeedLeads, FeedRises, ChainRow, OnChain
  <1>2. OneRuns'
    <2>1. ASSUME NEW j \in Ingests, Running(ingests'[j])
          PROVE  Running(ingests[j])
      <3>1. ingests'[j] = ingests[j] \/ ingests'[j] = Node!Idle
        OBVIOUS
      <3>2. ~Running(Node!Idle)
        BY DEF Running
      <3>3. QED
        BY <2>1, <3>1, <3>2
    <2>2. QED
      BY <2>1 DEF OneRuns
  <1>3. ASSUME NEW j \in Ingests
        PROVE  Follows(ingests'[j], feed, closures[ThePipe])
    <2>1. ingests'[j] = ingests[j] \/ ingests'[j] = Node!Idle
      OBVIOUS
    <2>2. Follows(Node!Idle, feed, closures[ThePipe])
      BY IdleFollows
    <2>3. QED
      BY <2>1, <2>2 DEF CallsFollow
  <1>4. QED
    BY <1>1, <1>2, <1>3 DEF CallsFollow

\* A post takes the head of the feed.
LEMMA ViewAfterPost ==
    ASSUME WatchInv, ViewInv, NEW i \in Ingests, PostBlock(i)
    PROVE  ViewInv'
  <1> DEFINE All == ChainNotice \cup BurnNotice
  <1>1. PICK n \in 1..MaxBatch :
          n <= Len(feed) /\ Node!Post(i, SubSeq(feed, 1, n)) /\ NodeStep /\ UNCHANGED feed
    BY DEF PostBlock
  <1> DEFINE s == SubSeq(feed, 1, n)
             c == [events |-> s, rest |-> s, dispute |-> None]
  <1>2. feed \in Seq(All) /\ n \in 0..Len(feed) /\ n \in Nat /\ n >= 1
    BY <1>1, PairAssumption DEF WatchInv, SystemTypes
  <1> HIDE DEF All
  <1>3. /\ s \in Seq(All) /\ Len(s) = n /\ \A k \in 1..n : s[k] = feed[k]
    BY <1>2, DropFacts
  <1>4. /\ UNCHANGED <<vars, feed, closures>> /\ Node!Quiet
        /\ ingests' = [ingests EXCEPT ![i] = c]
    BY <1>1, Zenon DEF NodeStep, Node!Post, Node!store
  <1> HIDE DEF s
  <1>5. c.events = s /\ c.rest = s /\ c.dispute = None /\ Handled(c) = 0
    BY <1>2, <1>3 DEF Handled
  <1> HIDE DEF c
  <1>6. InFeed(c, feed)
    BY <1>2, <1>3, <1>5 DEF InFeed
  <1>7. NewerFollow(c, feed)
    <2>1. ASSUME NEW k \in 2..Len(feed), Forced(feed[k]), Forced(s[1])
          PROVE  s[1].txid < feed[k].txid
      <3>1. s[1] = feed[1] /\ 1 \in 1..Len(feed) /\ k \in (1 + 1)..Len(feed)
        BY <1>2, <1>3
      <3>2. QED
        BY <2>1, <3>1 DEF ViewInv, FeedRises
    <2>2. QED
      BY <1>5, <2>1 DEF NewerFollow
  <1>8. Follows(c, feed, closures[ThePipe])
    BY <1>5, <1>6, <1>7 DEF Follows, WorksOn, Reflects, WaitsAtClosing
  <1>9. FeedLeads' /\ pipes' = pipes
    BY <1>4 DEF ViewInv, FeedLeads, ChainRow, OnChain, vars
  <1>10. QED
    BY <1>4, <1>8, <1>9, ViewAfterCall DEF ViewInv, CallsFollow

\* A submission goes on or is recorded.
LEMMA ViewAfterSubmission ==
    ASSUME WatchInv, ViewInv, NEW i \in Ingests, Node!SubmitDispute(i), NodeStep, UNCHANGED feed
    PROVE  ViewInv'
  <1> DEFINE old == ingests[i]
             d == [old.dispute EXCEPT !.sent = TRUE]
             sent == [old EXCEPT !.dispute = d]
             done == [old EXCEPT !.dispute = None]
  <1>1. UNCHANGED <<vars, feed, closures>> /\ old.dispute # None
    BY DEF NodeStep, Node!SubmitDispute, Node!Broadcast, Node!RecordAttempt, Node!store
  <1>2. \/ ingests' = [ingests EXCEPT ![i] = sent]
        \/ ingests' = [ingests EXCEPT ![i] = done] /\ Node!Quiet
    BY DEF Node!SubmitDispute, Node!Broadcast, Node!RecordAttempt
  <1> HIDE DEF d
  <1>3. old \in Calls /\ Follows(old, feed, closures[ThePipe])
    BY DEF WatchInv, SystemTypes, ViewInv, CallsFollow
  <1>4. old # Node!Idle
    BY <1>1 DEF Node!Idle
  <1> HIDE DEF old
  <1>5. /\ sent.events = old.events /\ sent.rest = old.rest /\ sent.dispute = d
        /\ done.events = old.events /\ done.rest = old.rest /\ done.dispute = None
    BY <1>3 DEF Calls
  <1>6. d # None
    <2>1. old.dispute \in Disputes
      BY <1>1, <1>3, CallFacts
    <2>2. d \in Disputes
      BY <2>1 DEF d, Disputes
    <2>3. QED
      BY <2>2, NodeConstants DEF Node!NodeAssumption, Disputes, Transactions, Node!AttemptIds
  <1> HIDE DEF sent, done
  <1>7. Follows(sent, feed, closures[ThePipe]) /\ Follows(done, feed, closures[ThePipe])
    <2>1. Handled(sent) = Handled(old) /\ Handled(done) = Handled(old)
      BY <1>5 DEF Handled
    <2>2. QED
      BY <1>1, <1>3, <1>4, <1>5, <2>1, SameFollows
  <1>8. ~Running(sent)
    BY <1>5, <1>6 DEF Running
  <1>9. FeedLeads' /\ pipes' = pipes
    BY <1>1 DEF ViewInv, FeedLeads, ChainRow, OnChain, vars
  <1>10. \A j \in Ingests : Follows(ingests[j], feed, closures'[ThePipe])
    BY <1>1 DEF ViewInv, CallsFollow
  <1>11. closures' = closures /\ feed' = feed
    BY <1>1
  <1>12. CASE ingests' = [ingests EXCEPT ![i] = sent]
    BY <1>7, <1>8, <1>9, <1>10, <1>11, <1>12, ViewAfterCall
  <1>13. CASE ingests' = [ingests EXCEPT ![i] = done] /\ Node!Quiet
    BY <1>7, <1>9, <1>10, <1>11, <1>13, ViewAfterCall
  <1>14. QED
    BY <1>2, <1>12, <1>13

\* When posts are of one event, so are calls.
LEMMA OneEvent ==
    ASSUME OneAtATime, ~Alone, NEW c \in Calls, NEW pool, InOrder(c, pool)
    PROVE  Len(c.events) <= 1
  <1>1. MaxBatch = 1
    BY DEF OneAtATime, Alone
  <1>2. QED
    BY <1>1 DEF InOrder

\* What was handled at the head of the feed is dropped from it.
LEMMA FeedShorter ==
    ASSUME WatchInv, FeedLeads, FeedRises, UNCHANGED <<pipes, closures>>, NEW n \in 0..Len(feed),
           Len(feed') \in Nat, Len(feed') = Len(feed) - n,
           \A k \in 1..Len(feed') : feed'[k] = feed[n + k],
           \A m \in 1..n : Affects(feed[m]) /\ (\A l \in (m + 1)..n : ~Affects(feed[l]))
                               => closures[ThePipe] = RowOf(feed[m])
    PROVE  FeedLeads' /\ FeedRises'
  <1>1. Len(feed) \in Nat /\ ChainRow' = ChainRow /\ closures' = closures
    BY DEF WatchInv, SystemTypes, ChainRow, OnChain
  <1>2. PICK m \in 0..Len(feed) :
          /\ \A l \in (m + 1)..Len(feed) : ~Affects(feed[l])
          /\ m = 0 => closures[ThePipe] = ChainRow
          /\ m # 0 => Affects(feed[m]) /\ RowOf(feed[m]) = ChainRow
    BY DEF FeedLeads
  <1>3. ASSUME m > n
        PROVE  FeedLeads'
    <2> DEFINE q == m - n
    <2>1. q \in 0..Len(feed') /\ q # 0 /\ feed'[q] = feed[m] /\ m # 0
      BY <1>1, <1>3
    <2>2. ASSUME NEW l \in (q + 1)..Len(feed')
          PROVE  ~Affects(feed'[l])
      <3>1. n + l \in (m + 1)..Len(feed) /\ feed'[l] = feed[n + l]
        BY <1>1, <1>3
      <3>2. QED
        BY <1>2, <3>1
    <2> HIDE DEF q
    <2>3. QED
      BY <1>1, <1>2, <2>1, <2>2 DEF FeedLeads
  <1>4. ASSUME m <= n
        PROVE  FeedLeads'
    <2>1. closures[ThePipe] = ChainRow
      <3>1. CASE m = 0
        BY <1>2, <3>1
      <3>2. CASE m # 0
        <4>1. m \in 1..n /\ \A l \in (m + 1)..n : ~Affects(feed[l])
          BY <1>1, <1>2, <1>4, <3>2
        <4>2. closures[ThePipe] = RowOf(feed[m])
          BY <1>2, <3>2, <4>1
        <4>3. QED
          BY <1>2, <3>2, <4>2
      <3>3. QED
        BY <3>1, <3>2
    <2>2. ASSUME NEW l \in (0 + 1)..Len(feed')
          PROVE  ~Affects(feed'[l])
      <3>1. n + l \in (m + 1)..Len(feed) /\ feed'[l] = feed[n + l]
        BY <1>1, <1>4
      <3>2. QED
        BY <1>2, <3>1
    <2>3. 0 \in 0..Len(feed')
      OBVIOUS
    <2>4. QED
      BY <1>1, <2>1, <2>2, <2>3 DEF FeedLeads
  <1>5. FeedRises'
    <2>1. SUFFICES ASSUME NEW k \in 1..Len(feed'), NEW l \in (k + 1)..Len(feed'),
                          Forced(feed'[k]), Forced(feed'[l])
                   PROVE  feed'[k].txid < feed'[l].txid
      BY DEF FeedRises
    <2>2. /\ n + k \in 1..Len(feed) /\ n + l \in (n + k + 1)..Len(feed)
          /\ feed'[k] = feed[n + k] /\ feed'[l] = feed[n + l]
      BY <1>1
    <2>3. QED
      BY <2>1, <2>2 DEF FeedRises
  <1>6. QED
    BY <1>1, <1>3, <1>4, <1>5

\* An answer drops what the call has handled.
LEMMA ViewAfterAnswer ==
    ASSUME OneAtATime, WatchInv, ViewInv, NEW i \in Ingests, Answer(i)
    PROVE  ViewInv'
  <1> DEFINE All == ChainNotice \cup BurnNotice
             old == ingests[i]
             n == Len(old.events)
             row == closures[ThePipe]
  <1>1. /\ UNCHANGED <<vars, closures>>
        /\ ingests' = [ingests EXCEPT ![i] = Node!Idle]
        /\ old.rest = <<>> /\ old.dispute = None /\ old # Node!Idle
        /\ feed' = IF n <= Len(feed) /\ SubSeq(feed, 1, n) = old.events
                   THEN SubSeq(feed, n + 1, Len(feed)) ELSE feed
    BY DEF Answer, Node!Finish, Node!Busy, NodeStep, Node!store
  <1>2. /\ feed \in Seq(All) /\ Len(feed) \in Nat /\ old \in Calls /\ InOrder(old, mempool)
        /\ Follows(old, feed, row) /\ ingests \in [Ingests -> Calls]
    BY DEF WatchInv, SystemTypes, CallsInOrder, ViewInv, CallsFollow
  <1>3. n \in Nat /\ Handled(old) = n /\ n # 0 /\ old.events \in Seq(ChainNotice)
    <2>1. old.events \in Seq(ChainNotice) /\ old.events # <<>>
      BY <1>1, <1>2, CallFacts DEF InOrder
    <2>2. Len(old.rest) = 0
      BY <1>1
    <2>3. QED
      BY <2>1, <2>2 DEF Handled
  <1>4. ingests'[i] = Node!Idle /\ \A j \in Ingests : j # i => ingests'[j] = ingests[j]
    BY <1>1, <1>2
  <1>5. \A j \in Ingests : j # i => ~Running(ingests[j])
    BY <1>1 DEF ViewInv, OneRuns, Running
  <1> HIDE DEF All, n, old, row
  <1>6. CASE feed' = feed
    BY <1>1, <1>4, <1>6, ViewRests DEF vars
  <1>7. CASE feed' # feed
    <2>1. /\ n \in 0..Len(feed) /\ SubSeq(feed, 1, n) = old.events
          /\ feed' = SubSeq(feed, n + 1, Len(feed))
      BY <1>1, <1>2, <1>3, <1>7
    <2>2. /\ Len(feed') = Len(feed) - n /\ Len(feed') \in Nat
          /\ \A k \in 1..Len(feed) - n : feed'[k] = feed[n + k]
          /\ \A k \in 1..n : SubSeq(feed, 1, n)[k] = feed[k]
      BY <1>2, <2>1, DropFacts
    <2>3. \A k \in 1..Len(feed') : feed'[k] = feed[n + k] /\ feed'[k] = feed[k + n]
      BY <1>3, <2>2
    <2>4. \A k \in 1..n : old.events[k] = feed[k]
      BY <2>1, <2>2
    <2>5. InFeed(old, feed)
      BY <2>1, <2>4 DEF InFeed, n
    <2>6. ASSUME NEW m \in 1..n, Affects(feed[m]), \A l \in (m + 1)..n : ~Affects(feed[l])
          PROVE  row = RowOf(feed[m])
      <3>1. \A l \in (m + 1)..n : ~Affects(old.events[l])
        BY <2>4, <2>6
      <3>2. LastOf(old, m) /\ m \in 1..Handled(old)
        BY <1>3, <2>4, <2>6, <3>1 DEF LastOf
      <3>3. QED
        BY <1>1, <1>2, <2>4, <2>5, <3>2 DEF Follows, Reflects
    <2>7. FeedLeads' /\ FeedRises'
      BY <1>1, <2>1, <2>2, <2>3, <2>6, FeedShorter DEF ViewInv, vars, row
    <2>8. ASSUME NEW j \in Ingests
          PROVE  Follows(ingests'[j], feed', row)
      <3>1. CASE j = i
        BY <1>4, <3>1, IdleFollows
      <3>2. CASE j # i
        <4>1. ~Alone
          BY <3>2 DEF Alone
        <4> DEFINE c == ingests[j]
        <4>2. /\ c \in Calls /\ InOrder(c, mempool) /\ Follows(c, feed, row) /\ ~Running(c)
              /\ ingests'[j] = c
          BY <1>4, <1>5, <3>2 DEF WatchInv, SystemTypes, CallsInOrder, ViewInv, CallsFollow, row
        <4> HIDE DEF c
        <4>3. n \in Nat \ {0}
          BY <1>3
        <4>4. Follows(c, feed', row)
          BY <1>2, <2>2, <2>3, <4>1, <4>2, <4>3, FollowsShorter
        <4>5. QED
          BY <4>2, <4>4
      <3>3. QED
        BY <3>1, <3>2
    <2>9. CallsFollow'
      BY <1>1, <2>8 DEF CallsFollow, row
    <2>10. OneRuns'
      BY <1>4, <1>5, IdleFollows DEF OneRuns
    <2>11. QED
      BY <2>7, <2>9, <2>10 DEF ViewInv
  <1>8. QED
    BY <1>6, <1>7

\* A burn block is posted between the calls.
LEMMA ViewAfterBurnBlock ==
    ASSUME OneAtATime, WatchInv, ViewInv, PostBurnBlock
    PROVE  ViewInv'
  <1> DEFINE All == ChainNotice \cup BurnNotice
             row == closures[ThePipe]
  <1>1. /\ UNCHANGED <<vars, closures, ingests>> /\ Node!Quiet
        /\ feed # <<>> /\ Head(feed).type = "burn" /\ feed' = Tail(feed)
    BY DEF PostBurnBlock, NodeStep, Node!IngestBurnBlock
  <1>2. feed \in Seq(All) /\ Len(feed) \in Nat
    BY DEF WatchInv, SystemTypes
  <1> HIDE DEF All
  <1>3. /\ 1 \in 0..Len(feed) /\ Len(feed') = Len(feed) - 1 /\ Len(feed') \in Nat
        /\ \A k \in 1..Len(feed') : feed'[k] = feed[1 + k] /\ feed'[k] = feed[k + 1]
        /\ feed[1] = Head(feed)
    BY <1>1, <1>2, DropFacts
  <1>4. ~Affects(feed[1])
    BY <1>1, <1>3 DEF Affects, Forced, Node!TerminalEvents
  <1>5. FeedLeads' /\ FeedRises'
    <2>1. \A m \in 1..1 : ~Affects(feed[m])
      BY <1>4
    <2>2. QED
      BY <1>1, <1>3, <2>1, FeedShorter DEF ViewInv, vars
  <1>6. ASSUME NEW j \in Ingests
        PROVE  Follows(ingests[j], feed', row)
    <2> DEFINE c == ingests[j]
    <2>1. /\ c \in Calls /\ InOrder(c, mempool) /\ Follows(c, feed, row) /\ ~Running(c)
      BY <1>1 DEF WatchInv, SystemTypes, CallsInOrder, ViewInv, CallsFollow, Node!Quiet,
           Node!Busy, Running
    <2> HIDE DEF c, row
    <2>2. CASE Alone
      <3>1. SUFFICES ASSUME c # Node!Idle
                     PROVE  FALSE
        BY IdleFollows DEF c
      <3>2. InFeed(c, feed)
        BY <2>1, <2>2, <3>1 DEF Follows, WorksOn
      <3>3. 1 \in 1..Len(c.events)
        BY <2>1, <3>1, CallFacts DEF InOrder
      <3>4. feed[1] \in ChainNotice
        BY <2>1, <3>2, <3>3, CallFacts DEF InFeed
      <3>5. QED
        BY <1>1, <1>3, <3>4 DEF ChainNotice, EventTypes
    <2>3. CASE ~Alone
      <3>1. 1 \in Nat \ {0}
        OBVIOUS
      <3>2. Follows(c, feed', row)
        BY <1>2, <1>3, <2>1, <2>3, <3>1, FollowsShorter
      <3>3. QED
        BY <3>2 DEF c
    <2>4. QED
      BY <2>2, <2>3
  <1>7. CallsFollow' /\ OneRuns'
    BY <1>1, <1>6 DEF CallsFollow, OneRuns, ViewInv
  <1>8. QED
    BY <1>5, <1>7 DEF ViewInv

\* A call handles its next event: if that affects a closure, the table has its row, and
\* a call that waits at the same event agrees.
LEMMA ViewAfterEvent ==
    ASSUME OneAtATime, WatchInv, ViewInv, NEW i \in Ingests, NEW d \in Disputes \cup {None},
           Node!Proceed(i, d), ingests[i].rest # <<>>, ingests[i].dispute = None,
           NEW e, e = Head(ingests[i].rest), d # None => Forced(e),
           UNCHANGED <<vars, feed>>,
           ~Affects(e) => closures'[ThePipe] = closures[ThePipe],
           Affects(e) => closures'[ThePipe] = RowOf(e)
    PROVE  ViewInv'
  <1> DEFINE old == ingests[i]
             c == Node!Onward(old, d)
             row == closures[ThePipe]
             next == closures'[ThePipe]
  <1>1. ingests' = [ingests EXCEPT ![i] = c]
    BY DEF Node!Proceed
  <1>2. /\ old \in Calls /\ InOrder(old, mempool) /\ Follows(old, feed, row)
        /\ Running(old) /\ old # Node!Idle
    BY DEF WatchInv, SystemTypes, CallsInOrder, ViewInv, CallsFollow, Running, Node!Idle
  <1>3. RestFollows(old) /\ old.rest # <<>>
    BY <1>2 DEF InOrder
  <1>4. \A j \in Ingests : j # i => ~Running(ingests[j])
    BY <1>2 DEF ViewInv, OneRuns
  <1> HIDE DEF old, c, row, next
  <1>5. /\ c \in Calls /\ c.events = old.events /\ c.dispute = d
        /\ Handled(c) = Handled(old) + 1 /\ Handled(c) \in 1..Len(old.events)
        /\ Handled(old) \in 0..Len(old.events) /\ Len(old.events) \in Nat
        /\ e = old.events[Handled(c)]
    BY <1>2, <1>3, OnwardFacts, CallFacts DEF c, old
  <1>6. /\ InFeed(old, feed) /\ Reflects(old, feed, row) /\ NewerFollow(old, feed)
    BY <1>2, <1>3 DEF Follows, WorksOn
  <1>7. InFeed(c, feed) /\ NewerFollow(c, feed)
    BY <1>5, <1>6 DEF InFeed, NewerFollow
  <1>8. Reflects(c, feed, next)
    <2>1. SUFFICES ASSUME NEW k \in 1..Handled(c), LastOf(c, k)
                   PROVE  next = RowOf(c.events[k])
      BY DEF Reflects
    <2>2. CASE k = Handled(c)
      BY <1>5, <2>1, <2>2 DEF LastOf, next
    <2>3. CASE k # Handled(c)
      <3>1. k \in 1..Handled(old) /\ Handled(c) \in (k + 1)..Handled(c)
        BY <1>5, <2>3
      <3>2. ~Affects(e) /\ LastOf(old, k)
        BY <1>5, <2>1, <3>1 DEF LastOf
      <3>3. row = RowOf(old.events[k])
        BY <1>6, <3>1, <3>2 DEF Reflects
      <3>4. QED
        BY <1>5, <3>2, <3>3 DEF next, row
    <2>4. QED
      BY <2>2, <2>3
  <1>9. WaitsAtClosing(c)
    BY <1>5 DEF WaitsAtClosing
  <1>10. Follows(c, feed, next)
    BY <1>7, <1>8, <1>9 DEF Follows, WorksOn
  <1>11. FeedLeads' /\ pipes' = pipes
    <2>1. PICK m \in 0..Len(feed) :
            /\ \A l \in (m + 1)..Len(feed) : ~Affects(feed[l])
            /\ m = 0 => row = ChainRow
            /\ m # 0 => Affects(feed[m]) /\ RowOf(feed[m]) = ChainRow
      BY DEF ViewInv, FeedLeads, row
    <2>2. Handled(c) \in 1..Len(feed) /\ e = feed[Handled(c)] /\ Len(feed) \in Nat
      <3>1. Len(feed) \in Nat
        BY DEF WatchInv, SystemTypes
      <3>2. QED
        BY <1>5, <1>6, <3>1 DEF InFeed
    <2>3. m = 0 => next = row
      <3>1. m = 0 => Handled(c) \in (m + 1)..Len(feed)
        BY <2>2
      <3>2. m = 0 => ~Affects(e)
        BY <2>1, <2>2, <3>1
      <3>3. QED
        BY <3>2 DEF next, row
    <2>4. ChainRow' = ChainRow /\ pipes' = pipes /\ feed' = feed
      BY DEF vars, ChainRow, OnChain
    <2>5. QED
      BY <2>1, <2>3, <2>4 DEF FeedLeads, next
  <1>12. ASSUME NEW j \in Ingests, j # i
         PROVE  Follows(ingests[j], feed, next)
    <2> DEFINE x == ingests[j]
    <2>1. /\ x \in Calls /\ InOrder(x, mempool) /\ Follows(x, feed, row) /\ ~Running(x)
      BY <1>4, <1>12 DEF WatchInv, SystemTypes, CallsInOrder, ViewInv, CallsFollow, row
    <2>2. ~Alone
      BY <1>12 DEF Alone
    <2> HIDE DEF x
    <2>3. SUFFICES ASSUME x # Node!Idle, InFeed(x, feed), NEW k \in 1..Handled(x), LastOf(x, k)
                   PROVE  next = RowOf(x.events[k])
      BY <2>1 DEF Follows, Reflects, x
    <2>4. Handled(x) >= 1 /\ Forced(x.events[Handled(x)])
      BY <2>1, <2>3 DEF Follows, WaitsAtClosing, Running
    <2>5. /\ Len(x.events) <= 1 /\ Handled(x) \in 0..Len(x.events) /\ Len(x.events) \in Nat
          /\ Len(old.events) <= 1
      BY <1>2, <2>1, <2>2, OneEvent, CallFacts
    <2> DEFINE m == Len(x.events)
               h == Handled(x)
               n == Len(old.events)
               g == Handled(c)
    <2>6. m \in Nat /\ m <= 1 /\ h \in 0..m /\ h >= 1 /\ n \in Nat /\ n <= 1 /\ g \in 1..n
          /\ k \in 1..h
      BY <1>5, <2>4, <2>5
    <2> HIDE DEF m, h, n, g
    <2>7. h = 1 /\ g = 1 /\ k = 1 /\ m = 1 /\ n = 1
      BY <2>6
    <2>8. x.events[1] = feed[1] /\ old.events[1] = feed[1]
      BY <1>6, <2>3, <2>7 DEF InFeed, m, n
    <2>9. e = x.events[1] /\ Affects(e)
      BY <1>5, <2>4, <2>7, <2>8 DEF g, h, Affects
    <2>10. QED
      BY <2>7, <2>9 DEF next
  <1>13. QED
    BY <1>1, <1>2, <1>10, <1>11, <1>12, ViewAfterCall DEF next, old

\* Every kind of event keeps the view.
LEMMA ViewAfterHandling ==
    ASSUME OneAtATime, WatchInv, ViewInv, NEW i \in Ingests, Node!HandleEvent(i), NodeStep,
           UNCHANGED feed
    PROVE  ViewInv'
  <1> DEFINE e == Head(ingests[i].rest)
  <1>1. UNCHANGED <<vars, feed>>
    BY DEF NodeStep
  <1>2. ingests[i] \in Calls /\ closures \in [PipeKeys -> Rows \cup {None}]
        /\ RestFollows(ingests[i])
    BY DEF WatchInv, SystemTypes, CallsInOrder, InOrder
  <1>3. ASSUME ingests[i].rest # <<>>
        PROVE  e \in ChainNotice /\ e.key = ThePipe /\ e.key \in PipeKeys
    <2>1. e \in ChainNotice
      BY <1>2, <1>3, OnwardFacts
    <2>2. QED
      BY <2>1, Pair DEF ChainNotice
  <1>4. CASE Node!ObservePipe(i)
    <2>1. /\ ingests[i].dispute = None /\ ingests[i].rest # <<>> /\ ~Affects(e)
          /\ Node!Proceed(i, None) /\ closures' = closures
      BY <1>4 DEF Node!ObservePipe, Node!Handling, Forced, Affects, Node!TerminalEvents
    <2> HIDE DEF e
    <2>2. QED
      BY <1>1, <2>1, ViewAfterEvent DEF e
  <1>5. CASE Node!EndClosure(i)
    <2>1. /\ ingests[i].dispute = None /\ ingests[i].rest # <<>> /\ ~Forced(e) /\ Affects(e)
          /\ Node!Proceed(i, None) /\ closures' = [closures EXCEPT ![e.key] = None]
      BY <1>5 DEF Node!EndClosure, Node!Handling, Forced, Affects, Node!TerminalEvents
    <2>2. e.key = ThePipe /\ e.key \in PipeKeys
      BY <1>3, <2>1
    <2> HIDE DEF e
    <2>3. closures'[ThePipe] = RowOf(e)
      BY <1>2, <2>1, <2>2 DEF RowOf
    <2>4. QED
      BY <1>1, <2>1, <2>3, ViewAfterEvent DEF e
  <1>6. CASE Node!OpenClosure(i)
    <2> DEFINE d == Node!Dispute(e)
    <2>1. /\ ingests[i].dispute = None /\ ingests[i].rest # <<>> /\ Forced(e) /\ Affects(e)
          /\ Node!Proceed(i, d)
          /\ closures' = [closures EXCEPT ![e.key] = [closer |-> Node!Closer(e),
                                                      nonce |-> e.pipe.nonce]]
      BY <1>6 DEF Node!OpenClosure, Node!Handling, Forced, Affects, Node!OpenClosureEvents
    <2>2. e \in ChainNotice /\ e.key = ThePipe /\ e.key \in PipeKeys
      BY <1>3, <2>1
    <2> HIDE DEF e
    <2>3. closures'[ThePipe] = RowOf(e)
      BY <1>2, <2>1, <2>2 DEF RowOf
    <2>4. d \in Disputes \cup {None}
      BY <2>1, <2>2, DisputeFacts
    <2> HIDE DEF d
    <2>5. QED
      BY <1>1, <2>1, <2>3, <2>4, ViewAfterEvent DEF e
  <1>7. QED
    BY <1>4, <1>5, <1>6 DEF Node!HandleEvent

\* Every step of the system keeps the view.
LEMMA ViewStep ==
    ASSUME OneAtATime, WatchInv, ViewInv, [SystemNext]_allVars
    PROVE  ViewInv'
  <1>1. CASE Chain
    BY <1>1, ChainStep, ViewAfterChain DEF WatchInv
  <1>2. CASE \/ \E s \in States : Agree(s)
             \/ \E s \in agreed : Submit(s)
    <2>1. UNCHANGED <<pipes, feed, closures, ingests>>
      BY <1>2 DEF Agree, Submit, Node!UpsertSignatureState, vars, nodeVars
    <2>2. QED
      BY <2>1, ViewRests
  <1>3. CASE \E i \in Ingests : PostBlock(i) \/ Answer(i)
    BY <1>3, ViewAfterPost, ViewAfterAnswer
  <1>4. CASE PostBurnBlock
    BY <1>4, ViewAfterBurnBlock
  <1>5. CASE NodeInside
    <2>1. NodeStep /\ UNCHANGED feed /\ UNCHANGED pipes
      BY <1>5 DEF NodeInside, NodeStep, vars
    <2>2. CASE \E i \in Ingests : Node!HandleEvent(i) \/ Node!SubmitDispute(i)
      BY <2>1, <2>2, ViewAfterHandling, ViewAfterSubmission
    <2>3. CASE \/ \E s \in agreed : s.hash \in Hashes /\ Node!ForwardPayment(s.hash)
               \/ \E h \in Hashes : Node!RevealSecret(h) \/ Node!PrunePayment(h)
               \/ Node!Restart
      <3>1. /\ UNCHANGED closures
            /\ \A j \in Ingests : ingests'[j] \in {ingests[j], Node!Idle}
        BY <2>3 DEF Node!ForwardPayment, Node!RevealSecret, Node!PrunePayment, Node!Restart,
             Node!store
      <3>2. QED
        BY <2>1, <3>1, ViewRests
    <2>4. QED
      BY <1>5, <2>2, <2>3 DEF NodeInside
  <1>6. CASE UNCHANGED allVars
    <2>1. UNCHANGED <<pipes, feed, closures, ingests>>
      BY <1>6 DEF allVars, vars, nodeVars
    <2>2. QED
      BY <2>1, ViewRests
  <1>7. QED
    BY <1>1, <1>2, <1>3, <1>4, <1>5, <1>6 DEF SystemNext

\* While posts of several events do not overlap, the node lists a closure, once all is
\* posted, exactly while one is in progress on the chain, with its closer and nonce.
THEOREM ClosuresFollowChain == SystemSpec => []ClosuresCaughtUp
  <1>1. SystemInit => ViewInv
    <2>1. SUFFICES ASSUME SystemInit
                   PROVE  ViewInv
      OBVIOUS
    <2>2. /\ closures = [k \in PipeKeys |-> None] /\ feed = <<>>
          /\ ingests = [i \in Ingests |-> Node!Idle] /\ OnChain.closer = NoPrincipal
      BY <2>1, Pair DEF SystemInit, Node!Init, Init, OnChain, EmptyPipe, ClosedPipe
    <2>3. FeedLeads
      <3>1. closures[ThePipe] = ChainRow
        BY <2>2, Pair DEF ChainRow
      <3>2. Len(feed) = 0 /\ 0 \in 0..Len(feed) /\ \A l \in (0 + 1)..Len(feed) : FALSE
        BY <2>2
      <3>3. QED
        BY <3>1, <3>2 DEF FeedLeads
    <2>4. FeedRises
      BY <2>2 DEF FeedRises
    <2>5. OneRuns /\ CallsFollow
      BY <2>2, IdleFollows DEF OneRuns, CallsFollow
    <2>6. QED
      BY <2>3, <2>4, <2>5 DEF ViewInv
  <1>2. /\ OneAtATime => ViewInv
        /\ WatchInv /\ [SystemNext]_allVars
        => (OneAtATime => ViewInv)'
    BY ViewStep DEF OneAtATime
  <1>3. WatchInv /\ (OneAtATime => ViewInv) => ClosuresCaughtUp
    <2>1. SUFFICES ASSUME WatchInv, ViewInv, feed = <<>>
                   PROVE  /\ closures[ThePipe] # None <=> OnChain.closer # NoPrincipal
                          /\ closures[ThePipe] # None =>
                                /\ closures[ThePipe].closer = OnChain.closer
                                /\ closures[ThePipe].nonce = OnChain.nonce
      BY DEF ClosuresCaughtUp, Drained
    <2>2. closures[ThePipe] = ChainRow
      BY <2>1 DEF ViewInv, FeedLeads
    <2>3. OnChain.closer # NoPrincipal => ChainRow # None
      <3>1. OnChain \in Pipe
        BY <2>1, Pair, PipeFacts DEF WatchInv, OnChain
      <3>2. OnChain.closer # NoPrincipal => OnChain.closer \in Principals
        BY <3>1 DEF Pipe
      <3>3. OnChain.nonce \in Nat
        BY <3>1 DEF Pipe
      <3>4. QED
        BY <3>2, <3>3, NodeConstants DEF ChainRow, Node!NodeAssumption
    <2>4. QED
      BY <2>2, <2>3 DEF ChainRow
  <1>4. QED
    BY <1>1, <1>2, <1>3, WatchInvariance, PTL DEF SystemSpec

================================================================================
