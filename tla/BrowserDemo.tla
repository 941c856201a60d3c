------------------------------ MODULE BrowserDemo ------------------------------
(***************************************************************************)
(* The browser demo: a page (demo/x402-browser/app.js) that opens a pipe    *)
(* and pays for a story, the demo server (scripts/demo-x402-browser.js)     *)
(* that tells it the status of the pipe and what to sign, the node whose    *)
(* GET /pipes both rely on, the signing service that takes the payment, and *)
(* the contract.                                                           *)
(*                                                                         *)
(* A click reads the status, then the intent, then waits for the wallet;    *)
(* other tabs, the chain and the posts to the node come in between.  The    *)
(* demo's node verifies no signature (accept-all), so what is signed has to *)
(* be right by itself.  The gateway and the races inside the service are    *)
(* those of X402Gateway and CounterpartyService: here a payment is taken or *)
(* refused at once.  The payer also has the documentation page, where it    *)
(* may force-cancel, and the service's operator the console.               *)
(***************************************************************************)
EXTENDS StackflowContract, Sequences

CONSTANTS
    Payer, Counterparty, ThePipe,
    Tabs,           \* open pages of the payer
    Price,          \* priceAmount
    OpenAmount,     \* openPipeAmount
    MaxFeed,        \* bound: notices not posted yet
    MaxLives,       \* bound: times the pipe was emptied
    None            \* null

ASSUME DemoAssumption ==
    /\ {Payer, Counterparty} = {ThePipe.principal1, ThePipe.principal2}
    /\ Payer # Counterparty
    /\ PipeKeys = {ThePipe}
    /\ Price \in Nat \ {0} /\ OpenAmount \in Nat
    /\ MaxFeed \in Nat /\ MaxLives \in Nat
    /\ None \notin Pipe
    /\ None \notin [nonce : Nat, my : Nat, their : Nat]
    /\ None \notin [nonce : Nat, my : Nat, their : Nat, action : {"transfer"}]

VARIABLES
    feed,       \* notices that the Stacks node has still to post
    observed,   \* the row of observed_pipes
    stored,     \* the service's row of signature_states
    newer,      \* which of the two has the later updatedAt
    disputes,   \* states of the disputes that the node has broadcast
    tabs,       \* what each page is waiting for
    lives,      \* history: how often the pipe was emptied on the chain,
    seenLives,  \* as far as the node knows,
    paidIn      \* and when the payments up to the stored one began

nodeVars == <<observed, stored, newer, disputes, seenLives, paidIn>>
demoVars == <<vars, feed, nodeVars, tabs, lives>>

OnChain == pipes[ThePipe]

\* How the signing policy sees the observed pipe.
Observation ==
    IF observed = None THEN None
    ELSE LET b == MapBalances(Counterparty, ThePipe, observed.balance1, observed.balance2)
         IN  [nonce |-> observed.nonce, my |-> b.b1, their |-> b.b2]

Service == INSTANCE CounterpartyService WITH
    Requests <- Tabs, Keys <- {}, States <- {}, Observations <- {}, WriteLimit <- 1,
    observed <- Observation, answers <- <<>>, requests <- <<>>, writes <- 0, released <- {}

Node == INSTANCE StackflowNode WITH
    Txids <- {}, Events <- {}, MaxBatch <- 0, Ingests <- {}, BurnHeights <- {}, States <- {},
    Hashes <- {}, DisputeOnlyBeneficial <- FALSE, closures <- <<>>, signatures <- <<>>,
    attempts <- <<>>, payments <- {}, revealed <- {}, ingests <- <<>>, mempool <- {}

Closed == [phase |-> "closed"]
Dialog == [phase |-> "dialog"]

DemoInit ==
    /\ Init
    /\ feed = <<>> /\ observed = None /\ stored = None /\ newer = "onchain"
    /\ disputes = {} /\ lives = 0 /\ seenLives = 0 /\ paidIn = 0
    /\ tabs = [t \in Tabs |-> Closed]

--------------------------------------------------------------------------------
(* GET /pipes *)

Status(nonce, balance1, balance2) ==
    [nonce |-> nonce, balance1 |-> balance1, balance2 |-> balance2]

ObservedStatus == Status(observed.nonce, observed.balance1, observed.balance2)

SignedStatus ==
    LET b == MapBalances(Counterparty, ThePipe, stored.my, stored.their)
    IN  Status(stored.nonce, b.b1, b.b2)

\* shouldReplacePipe: higher nonce, then later update, then what is on the chain.
SignedReplaces ==
    \/ stored.nonce > observed.nonce
    \/ stored.nonce = observed.nonce /\ newer = "signature-state"

\* mergeAuthoritativePipes, of which selectBestPipeFromNode takes the pipe of the pair.
PipeStatus ==
    IF observed = None /\ stored = None THEN None
    ELSE IF observed = None \/ (stored # None /\ SignedReplaces) THEN SignedStatus
    ELSE ObservedStatus

Side(status, p) == IF p = ThePipe.principal1 THEN status.balance1 ELSE status.balance2

\* hasPipe and canPay of /demo/pipe-status.
CanPay == PipeStatus # None /\ Side(PipeStatus, Payer) > 0

\* The life of the pipe that the status tells of.
StatusLife ==
    IF stored # None /\ PipeStatus = SignedStatus /\ Service!Baseline = stored
    THEN paidIn ELSE seenLives

--------------------------------------------------------------------------------
(* The page *)

Goto(t, next) == tabs' = [tabs EXCEPT ![t] = next]

PageStep == UNCHANGED <<vars, feed, nodeVars, lives>>

\* The link is clicked, and answered with 402: fetchPaywalledStory.
ClickLink(t) ==
    /\ tabs[t] = Closed
    /\ Goto(t, Dialog)
    /\ PageStep

\* onSignAndPay reads the status,
SignAndPay(t) ==
    /\ tabs[t] = Dialog /\ CanPay
    /\ Goto(t, [phase |-> "payable"])
    /\ PageStep

\* Mutant: the balances are those of the payer's view.
IntentOfPayer ==
    [nonce |-> PipeStatus.nonce + 1, my |-> Side(PipeStatus, Payer) - Price,
     their |-> Side(PipeStatus, Counterparty) + Price, action |-> "transfer"]

\* POST /demo/payment-intent
Intent ==
    LET my == Side(PipeStatus, Counterparty) + Price
    IN  [nonce |-> PipeStatus.nonce + 1, my |-> my,
         their |-> PipeStatus.balance1 + PipeStatus.balance2 - my, action |-> "transfer"]

\* then the intent, from a second look at the pipes; a refusal is shown on the page.
CreateIntent(t) ==
    /\ tabs[t].phase = "payable"
    /\ IF CanPay /\ Side(PipeStatus, Payer) >= Price
       THEN Goto(t, [phase |-> "signing", intent |-> Intent, life |-> StatusLife])
       ELSE Goto(t, Dialog)
    /\ PageStep

\* The wallet is closed without a signature.
WalletRefuses(t) ==
    /\ tabs[t].phase = "signing"
    /\ Goto(t, Dialog)
    /\ PageStep

\* The proof goes through the gateway to the service, which signs and stores the state.
Pay(t) ==
    LET s == tabs[t].intent
    IN  /\ tabs[t].phase = "signing"
        /\ s.nonce <= MaxNonce
        /\ Service!PolicyAllows(s) /\ Service!Upserts(s)
        /\ stored' = s /\ newer' = "signature-state"
        /\ paidIn' = IF Service!Baseline = stored THEN paidIn ELSE seenLives
        /\ Goto(t, Closed)
        /\ UNCHANGED <<vars, feed, observed, disputes, seenLives, lives>>

\* A refused proof is answered with 402 again: the dialog is asked to open while it is open,
\* and by the browser's version of showModal that fails, or does nothing and it is closed.
PayRefused(t) ==
    /\ tabs[t].phase = "signing"
    /\ ~Service!PolicyAllows(tabs[t].intent)
    /\ \E next \in {Dialog, Closed} : Goto(t, next)
    /\ PageStep

\* onOpenPipe: the status for its nonce, then the wallet.  The page looks at the status for
\* another 90 seconds, which changes its text only.
OpenPipe(t) ==
    /\ tabs[t] = Dialog
    /\ Goto(t, [phase |-> "opening",
                nonce |-> IF PipeStatus = None THEN 0 ELSE PipeStatus.nonce])
    /\ PageStep

\* The transaction is refused by the wallet, or aborts.
OpenFails(t) ==
    /\ tabs[t].phase = "opening"
    /\ Goto(t, Dialog)
    /\ PageStep

--------------------------------------------------------------------------------
(* The chain *)

Emptied == event'.type \in {"finalize", "dispute-closure", "close-pipe"}

Notice ==
    IF height' # height THEN <<[type |-> "burn", height |-> height']>>
    ELSE IF event' = NoEvent THEN <<>>
    ELSE <<[type |-> event'.type, key |-> event'.key, pipe |-> event'.pipe,
            sender |-> event'.sender]>>

\* What the chain does is queued for the node.
Mined ==
    /\ Len(feed) < MaxFeed
    /\ feed' = feed \o Notice
    /\ lives' = IF Emptied THEN lives + 1 ELSE lives
    /\ lives' <= MaxLives
    /\ UNCHANGED nodeVars

\* fund-pipe, with the post condition that exactly this amount leaves the wallet.
MineOpen(t) ==
    /\ tabs[t].phase = "opening"
    /\ FundPipe(ThePipe, Payer, OpenAmount, tabs[t].nonce)
    /\ Goto(t, Dialog)
    /\ Mined

Transaction ==
    \/ \E p \in Principals, token \in Tokens : InitContract(p, token)
    \/ ForceCancel(ThePipe, Payer)
    \/ /\ stored # None
       /\ ForceClose(ThePipe, Counterparty, stored.my, stored.their, stored.nonce, NoHeight,
                     Counterparty, Payer)
    \/ \E s \in disputes : DisputeClosure(ThePipe, Counterparty, s.my, s.their, s.nonce,
                                          NoHeight, Counterparty, Payer)
    \/ \E p \in {Payer, Counterparty} : Finalize(ThePipe, p)

Chain ==
    /\ Transaction
    /\ Mined
    /\ UNCHANGED tabs

Burn ==
    /\ BurnBlock
    /\ Mined
    /\ UNCHANGED tabs

--------------------------------------------------------------------------------
(* The node *)

Posted ==
    /\ feed # <<>>
    /\ feed' = Tail(feed)
    /\ UNCHANGED <<vars, tabs, lives, stored, paidIn>>

PostBurnBlock ==
    /\ Posted
    /\ Head(feed).type = "burn"
    /\ observed' = IF observed = None THEN None ELSE Node!Settled(observed, Head(feed).height)
    /\ newer' = IF observed' = observed THEN newer ELSE "onchain"
    /\ UNCHANGED <<disputes, seenLives>>

PostFunding ==
    /\ Posted
    /\ Head(feed).type = "fund-pipe"
    /\ observed' = Head(feed).pipe /\ newer' = "onchain"
    /\ UNCHANGED <<disputes, seenLives>>

\* Our dispute: the stored state is newer and it is not we who close.
Candidates(e) ==
    IF stored # None /\ Node!Closer(e) # Counterparty /\ stored.nonce > e.pipe.nonce
    THEN {stored} ELSE {}

\* The submission may fail.
PostClosure ==
    /\ Posted
    /\ Head(feed).type \in Node!OpenClosureEvents
    /\ observed' = Head(feed).pipe /\ newer' = "onchain"
    /\ \E submitted \in {Candidates(Head(feed)), {}} : disputes' = disputes \cup submitted
    /\ UNCHANGED seenLives

\* Mutant: the balances of the event stay.
PostTerminalKeeps ==
    /\ Posted
    /\ Head(feed).type \in Node!TerminalEvents
    /\ observed' = Head(feed).pipe /\ newer' = "onchain"
    /\ seenLives' = seenLives + 1
    /\ UNCHANGED disputes

\* Terminal events reset the tracked balances.
PostTerminal ==
    /\ Posted
    /\ Head(feed).type \in Node!TerminalEvents
    /\ observed' = EmptyPipe(Head(feed).pipe.nonce) /\ newer' = "onchain"
    /\ seenLives' = seenLives + 1
    /\ UNCHANGED disputes

Post == PostBurnBlock \/ PostFunding \/ PostClosure \/ PostTerminal

DemoNext ==
    \/ \E t \in Tabs :
          \/ ClickLink(t) \/ SignAndPay(t) \/ CreateIntent(t) \/ WalletRefuses(t)
          \/ Pay(t) \/ PayRefused(t) \/ OpenPipe(t) \/ OpenFails(t) \/ MineOpen(t)
    \/ Chain \/ Burn \/ Post

DemoSpec == DemoInit /\ [][DemoNext]_demoVars

\* Bitcoin goes on, and the Stacks node posts what happens.
DemoFairSpec == DemoSpec /\ WF_demoVars(Burn) /\ WF_demoVars(Post)

--------------------------------------------------------------------------------
(* Properties *)

\* A payment moves the price, no more and no less, from the payer to the server, whichever
\* tabs pay at the same time and however old the status was on which the intent is built;
\* an intent of an earlier life of the pipe is left out, which the server would charge with
\* what was paid in that life.
PriceMoved ==
    [][\A t \in Tabs :
          stored' # stored /\ tabs'[t] # tabs[t] /\ tabs[t].life = StatusLife =>
              /\ stored'.my = Service!Baseline.my + Price
              /\ stored'.their = Service!Baseline.their - Price]_demoVars

\* Payments that began in the pipe's present life can be taken to the chain, although the
\* demo's node does not ask the contract: they are newer than the pipe and have its total.
PaymentsEnforceable ==
    stored # None /\ paidIn = lives /\ OnChain.closer = NoPrincipal =>
        stored.nonce > OnChain.nonce /\ stored.my + stored.their = Claims(OnChain)

\* The deposit of the payer will be confirmed before the model's last block.
Opening ==
    LET pending == PendingOf(OnChain, ThePipe, Payer)
    IN  height < pending.burnHeight /\ pending.burnHeight <= Horizon

\* A state of an earlier life with a higher nonce, which the status prefers.
Hidden == stored # None /\ stored.nonce > OnChain.nonce /\ paidIn # lives

\* A pipe that is opened is offered for payment once its deposit is confirmed, without
\* another click: no order of posts, blocks and payments loses the deposit in the status,
\* unless it is hidden.
OpenedBecomesPayable == Opening ~> (CanPay \/ Hidden)

\* README.md:507 "terminal events (close-pipe, dispute-closure, finalize) reset tracked
\* balances to 0", and :645 a pipe is paid through "if pipe is observer-confirmed and
\* spendable": once all is posted the page offers no payment on an empty pipe.
OfferedPipeHoldsTokens == feed = <<>> /\ CanPay => Claims(OnChain) > 0

================================================================================
