------------------------------ MODULE Watchtower -------------------------------
(***************************************************************************)
(* A pipe under the protection of a stackflow node: the contract, the      *)
(* Stacks node that posts its events, and the node that answers with       *)
(* disputes, for one of the parties, "Us", against the other, "Peer".      *)
(*                                                                         *)
(* The parties sign states off the chain and use only states both signed;  *)
(* that a nonce is never signed twice is NoEquivocation of                 *)
(* CounterpartyService.  States reach the node in any order.               *)
(*                                                                         *)
(* Assumed of the surroundings: the Stacks node posts events in order and  *)
(* posts again what was not answered with 200; between two Bitcoin blocks  *)
(* before the end of a waiting period the posts are answered and           *)
(* transactions that were broadcast are mined.                             *)
(***************************************************************************)
EXTENDS StackflowContract, Sequences

CONSTANTS
    Us, Peer, ThePipe,
    States, Hashes, DisputeOnlyBeneficial, None,   \* as in StackflowNode
    Ingests, MaxBatch,
    MaxClosures,    \* bound: forced closures
    MaxFeed         \* bound: events not posted yet

ASSUME PairAssumption ==
    /\ {Us, Peer} = {ThePipe.principal1, ThePipe.principal2}
    /\ Us # Peer
    /\ PipeKeys = {ThePipe}
    /\ WAITING_PERIOD # 0
    /\ MaxBatch \in Nat /\ MaxClosures \in Nat

\* A state is one of the pipe that the contract could be asked to enforce.
ASSUME StateAssumption ==
    \A s \in States : /\ s.key = ThePipe /\ s.for = Us
                      /\ s.my \in Nat /\ s.their \in Nat
                      /\ s.nonce \in 0..MaxNonce /\ s.validAfter \in Nat \cup {NoHeight}

VARIABLES
    agreed,       \* states signed by both
    feed,         \* events the Stacks node has still to post
    closureCount, \* forced closures so far: the txid of the latest
    owed,         \* the stored state that is due to win the closure in progress
    observed, closures, signatures, attempts, payments, revealed, ingests, mempool

nodeVars == <<observed, closures, signatures, attempts, payments, revealed, ingests, mempool>>
allVars == <<vars, agreed, feed, closureCount, owed, nodeVars>>

Node == INSTANCE StackflowNode WITH
    Txids <- 1..MaxClosures, Events <- {}, BurnHeights <- 0..Horizon

ASSUME NodeConstants == Node!NodeAssumption

OnChain == pipes[ThePipe]
Stored == signatures[<<ThePipe, Us>>]

SystemInit ==
    /\ Init
    /\ Node!Init
    /\ agreed = {}
    /\ feed = <<>>
    /\ closureCount = 0
    /\ owed = None

--------------------------------------------------------------------------------
(* The chain *)

My(p, s) == IF p = Us THEN s.my ELSE s.their
Their(p, s) == IF p = Us THEN s.their ELSE s.my

\* The contract accepts s, with its secret, in a dispute of the closure of pipe p.
Wins(s, p) ==
    /\ s # None
    /\ s.nonce > p.nonce
    /\ s.my + s.their = p.balance1 + p.balance2
    /\ s.validAfter <= height
    /\ s.hash = None \/ s.hash \in revealed

\* The node owes its client a dispute with s of the closure of pipe p: the state is valid
\* by the block of the closure.
Due(s, p) ==
    /\ Wins(s, p)
    /\ s.validAfter + WAITING_PERIOD <= p.expiresAt
    /\ (DisputeOnlyBeneficial \/ s.beneficialOnly) =>
          s.my > (IF Us = ThePipe.principal1 THEN p.balance1 ELSE p.balance2)

Latest == CHOOSE n \in Nonces : /\ \A s \in agreed : s.nonce <= n
                                /\ OnChain.nonce <= n
                                /\ n = OnChain.nonce \/ \E s \in agreed : s.nonce = n

\* The parties agree to close and do it.
CloseTogether(p) ==
    \E b \in BalancePairs, nonce \in Nonces :
        /\ nonce > Latest
        /\ ClosePipe(ThePipe, p, b[1], b[2], nonce, p, Other(ThePipe, p))

ForceCloseWith(p, s) ==
    /\ s.hash = None \/ s.hash \in revealed
    /\ ForceClose(ThePipe, p, My(p, s), Their(p, s), s.nonce, s.validAfter,
                  p, Other(ThePipe, p))

\* A deposit or withdrawal that both sign.
MoveFunds(p) ==
    \E b \in BalancePairs, nonce \in Nonces, amount \in Amounts \ {0} :
        /\ nonce > Latest
        /\ \/ Deposit(ThePipe, p, amount, b[1], b[2], nonce, p, Other(ThePipe, p))
           \/ Withdraw(ThePipe, p, amount, b[1], b[2], nonce, p, Other(ThePipe, p))

Close(p) ==
    \/ CloseTogether(p)
    \/ closureCount < MaxClosures /\ ForceCancel(ThePipe, p)
    \/ closureCount < MaxClosures /\ \E s \in agreed : ForceCloseWith(p, s)

MineDispute(tx) ==
    LET s == tx.state
    IN /\ tx.opens
       /\ DisputeClosure(ThePipe, Us, s.my, s.their, s.nonce, s.validAfter, Us, Peer)

\* The chain does not outrun the watchers at the end of a waiting period.
Timely ==
    OnChain.closer = Peer /\ height + 1 = OnChain.expiresAt =>
        /\ feed = <<>>
        /\ ingests = [i \in Ingests |-> Node!Idle]
        /\ \A tx \in mempool : ~(tx.opens /\ Wins(tx.state, OnChain))

Transaction ==
    \/ \E p \in Principals, token \in Tokens : InitContract(p, token)
    \/ \E p \in {Us, Peer}, amount \in Amounts \ {0} :
          FundPipe(ThePipe, p, amount, OnChain.nonce)
    \/ \E p \in {Us, Peer} : MoveFunds(p) \/ Close(p) \/ Finalize(ThePipe, p)
    \/ \E tx \in mempool : MineDispute(tx)

Forced(e) == e.type \in {"force-cancel", "force-close"}

Notice ==
    IF height' # height THEN <<[type |-> "burn", height |-> height']>>
    ELSE IF event' = NoEvent THEN <<>>
    ELSE <<[type |-> event'.type, key |-> event'.key, pipe |-> event'.pipe,
            sender |-> event'.sender, txid |-> closureCount', blockHeight |-> height]>>

\* What the chain does is queued for the node.
Chain ==
    /\ Len(feed) < MaxFeed
    /\ Transaction \/ (Timely /\ BurnBlock)
    /\ closureCount' = IF Forced(event') THEN closureCount + 1 ELSE closureCount
    /\ owed' = CASE Forced(event') /\ event'.sender = Peer
                       -> IF Due(Stored, pipes'[ThePipe]) THEN Stored ELSE None
                 [] pipes'[ThePipe].closer = NoPrincipal -> None
                 [] OTHER -> owed
    /\ feed' = feed \o Notice
    /\ UNCHANGED <<agreed, nodeVars>>

--------------------------------------------------------------------------------
(* The parties and the Stacks node *)

\* Transfers keep the total of the pipe as the chain has it.
Agree(s) ==
    /\ s.nonce > Latest
    /\ OnChain.closer = NoPrincipal
    /\ s.my + s.their = Claims(OnChain)
    /\ agreed' = agreed \cup {s}
    /\ UNCHANGED <<vars, feed, closureCount, owed, nodeVars>>

NodeStep == UNCHANGED <<vars, agreed, closureCount, owed>>

\* A newer state that is not due itself ends the obligation.
Submit(s) ==
    /\ Node!UpsertSignatureState(s)
    /\ owed' = IF owed # None /\ s.nonce > owed.nonce /\ ~Due(s, OnChain) THEN None ELSE owed
    /\ UNCHANGED <<vars, agreed, closureCount, feed>>

\* Events that came in a row go into one post, up to the next burn block.
PostBlock(i) ==
    \E n \in 1..MaxBatch :
        /\ n <= Len(feed)
        /\ \A j \in 1..n : feed[j].type # "burn"
        /\ Node!Post(i, SubSeq(feed, 1, n))
        /\ NodeStep
        /\ UNCHANGED feed

\* The answer 200 to a post ends the repetition of its events.
Answer(i) ==
    LET events == ingests[i].events
        n == Len(events)
    IN /\ Node!Finish(i)
       /\ feed' = IF n <= Len(feed) /\ SubSeq(feed, 1, n) = events
                  THEN SubSeq(feed, n + 1, Len(feed))
                  ELSE feed
       /\ NodeStep

PostBurnBlock ==
    /\ feed # <<>>
    /\ Head(feed).type = "burn"
    /\ Node!IngestBurnBlock(Head(feed).height)
    /\ feed' = Tail(feed)
    /\ NodeStep

NodeInside ==
    /\ \/ \E i \in Ingests : Node!HandleEvent(i) \/ Node!SubmitDispute(i)
       \/ \E s \in agreed : s.hash \in Hashes /\ Node!ForwardPayment(s.hash)
       \/ \E h \in Hashes : Node!RevealSecret(h) \/ Node!PrunePayment(h)
       \/ Node!Restart
    /\ NodeStep
    /\ UNCHANGED feed

SystemNext ==
    \/ Chain
    \/ \E s \in States : Agree(s)
    \/ \E s \in agreed : Submit(s)
    \/ \E i \in Ingests : PostBlock(i) \/ Answer(i)
    \/ PostBurnBlock
    \/ NodeInside

SystemSpec == SystemInit /\ [][SystemNext]_allVars

--------------------------------------------------------------------------------
(* Properties *)

\* The rows of the node and its calls keep their types; a closure is attributed to one of
\* the parties, whatever its event prints.
NodeTypeOK == Node!TypeOK

\* The dispute of the latest closure was submitted in vain.
SubmissionFailed == attempts[<<closureCount, Us>>] = FALSE

\* A closure that Peer starts with older balances than a state that the node stores, and
\* that the contract would accept, is not finalized: it is disputed first, through
\* crashes, repeated posts and states that arrive out of order, unless the submission
\* failed.
StaleClosureDisputed ==
    [][event'.type = "finalize" /\ owed # None => SubmissionFailed]_allVars

\* Drained: all that the chain did was posted and answered.
Drained == feed = <<>> /\ \A i \in Ingests : ~Node!Busy(i)

\* Posts of several events do not overlap.
OneAtATime == MaxBatch = 1 \/ \A i, j \in Ingests : i = j

\* Once all is posted the node lists a closure exactly while one is in progress on the
\* chain, with its closer and nonce, through repeated posts and crashes.  Overlapping
\* posts of several events can undo it: one that waits for its dispute goes on, late, with
\* events that another has handled and left behind.
ClosuresCaughtUp ==
    OneAtATime /\ Drained =>
        /\ closures[ThePipe] # None <=> OnChain.closer # NoPrincipal
        /\ closures[ThePipe] # None =>
              /\ closures[ThePipe].closer = OnChain.closer
              /\ closures[ThePipe].nonce = OnChain.nonce

\* "deposit, withdraw, force-cancel, and force-close upsert current pipe balances": once
\* all is posted the node's view of the balances is the chain's.
BalancesCaughtUp ==
    Drained /\ observed[ThePipe] # None =>
        LET now == SettlePending(OnChain)
        IN /\ observed[ThePipe].balance1 = now.balance1
           /\ observed[ThePipe].balance2 = now.balance2

================================================================================
