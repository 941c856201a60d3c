# Stackflow in TLA+

Stackflow is a network of payment pipes on Stacks.  Two principals lock tokens in
a Clarity contract and then pay each other by exchanging signed balances; the
contract pays out by a newer agreement or, when one side does not cooperate,
after a waiting period in which the other may dispute.  A server (the *stackflow
node*) watches the contract for its users, answers closures with disputes, signs
as a counterparty and forwards payments under hash locks.

This directory specifies the program in TLA+, checks the specifications with TLC
on small instances, and proves theorems about them with TLAPS.

## The system

| Component | State | Operations | What makes it correct |
|---|---|---|---|
| `contracts/stackflow.clar` | `pipes`, `agents`, `initialized`, `supported-token`, the tokens it holds | `init`, `register-agent`, `deregister-agent`, `fund-pipe`, `deposit`, `withdraw`, `close-pipe`, `force-cancel`, `force-close`, `dispute-closure(-for)`, `finalize(-for)`, read-only verification | Each pipe is backed by its own tokens; no message is consumed twice; a closure ends in a full payout, by the latest agreement if it is disputed in time |
| `contracts/reservoir.clar` | liquidity, borrowed amounts and fees | providers add and remove liquidity, users borrow into and return from pipes with the reservoir | Lent tokens are not withdrawn while borrowed |
| `server/src/stackflow-node.ts` | closures, observed pipes, latest signature states, dispute attempts (all in `state-store.ts`) | chain event, burn block, signature state upsert | A closure with older balances than the stored ones is disputed while it can be |
| `server/src/counterparty-service.ts` | none of its own; reads the store, holds a key | sign a transfer, deposit, withdrawal or close | Never signs below its baseline: nonce rises, its balance does not fall |
| `server/src/forwarding-service.ts`, `index.ts` | forwarding payments, idempotent responses, rate-limit windows | transfer, reveal, retry, prune | The node is reimbursed upstream for what it pays downstream; a revealed secret is passed on |
| `server/src/x402-gateway.ts` | consumed proofs, in memory | a request for the protected path, with a direct or an indirect payment proof | Nothing is served unpaid; one transfer pays for one route |
| `packages/x402-client` | sqlite rows of pipe states, consumed proofs and locks | the request loop, taking a nonce under the pipe's lock, synchronisation with the node | Nonces of concurrent payments differ; every request ends |
| `packages/stackflow-agent` | tracked pipes, signature states, closures, the watcher's cursor | accept and offer transfers, poll, dispute | What it signed is stored; a closure worth a dispute is disputed, once |
| `server/ui/main.src.js`, `docs/app.js` | form fields | sign a state, post it, call the contract | Both sides and the contract build the same message |
| `demo/x402-browser/app.js`, `scripts/demo-x402-browser.js` | what a page waits for | open a pipe, pay for a story | A payment moves the price and can be enforced |
| the chain | burn height, contract events | blocks, transactions | external |

The node's parts share one sqlite store.  The contract prints an event per
transaction, which reaches the node through the chain's event observer, possibly
late, twice or out of order; the node acts on the contract only by
`dispute-closure-for`.  Peers reach the counterparty service over HTTP.

Hard to test, and the reason for this project: transactions of both parties in
any order over several lives of a pipe; deposits that settle at a height while
closures and disputes run; several requests signed at once between the check and
the store; events that arrive late, twice or out of order; retries and crashes in
the middle of a forwarded payment.  `PROJECT.json` lists these hazards, each at
its line, with the properties that would show it going wrong.


## The modules

| Module | What it specifies |
|---|---|
| `StackflowContract` | the contract: every public function, under the most general callers |
| `PipeEscrow` | what the contract promises of a pipe, without signatures, balances or confirmations; `StackflowContract` implements it |
| `StackflowContractProofs` | its inductive invariant and theorems |
| `Reservoir` | the liquidity pool, on top of `StackflowContract` |
| `ReservoirProofs` | its inductive invariant and theorems |
| `CounterpartyService` | the signing pipeline of the server between its awaits, with the rows it reads and writes |
| `PaymentProofs` | the inductive invariants and theorems of `CounterpartyService` and of `X402Gateway` in front of it |
| `StackflowNode` | the server as a watcher: events, burn blocks, signature states, disputes |
| `Watchtower` | `StackflowContract` and `StackflowNode` composed through the feed of events and the mempool |
| `WatchtowerProofs` | the inductive invariant of that composition and its theorems |
| `Forwarding` | routed transfers, reveals and their background retries |
| `ForwardingProofs` | its inductive invariant and theorems |
| `SignedMessages` | the message two sides sign, as the contract, the console, the documentation page, the service and the agent each build it |
| `SignedStates` | the way of a signed state: signed, posted, normalised, verified, stored, sent to the contract |
| `SignedStatesProofs` | its inductive invariant and theorems |
| `AgentService` | the tracked pipes and signature states of the agent |
| `AgentWatcher` | the agent's watcher over them, with the chain it looks at |
| `X402Gateway` | the gateway, composed with `CounterpartyService` |
| `X402Client` | the request loop, the pipe lock and the shared store of the client |
| `ClientProofs` | theorems of the two programs beside a user: the invariants of the agent's service and watcher, that the watcher's steps are steps of the service, and the invariant of `X402Client` |
| `BrowserDemo` | the demo pages, their server and the node they read, on top of `StackflowContract`, with the policy of `CounterpartyService` and the handlers of `StackflowNode` |
| `BrowserDemoProofs` | its inductive invariant and theorems |
| `MC...` | the instances that TLC checks |

Mutants: an operator whose comment starts with "Mutant:" is a plausible error in
the code, defined next to what it alters and used by nothing.  Replacing the
original by it makes the property named in `PROJECT.json` fail.

### StackflowContract

The data-vars and maps are variables: `initialized`, `supportedToken`, `agents`,
and `pipes` with `mapped`, the keys that are present.  `wallet` and `held` split
the tokens: what a principal owns outside, and what came in through each pipe and
has not left.  The real contract has one balance (`ContractBalance` is its sum);
a payout aborts only when that is too small, so `held` of one pipe could become
negative at the expense of another, and `EscrowBacksPipes` says it never does.
`event` is what the last transaction printed.  `height` is `burn-block-height`.

A Clarity transaction runs to its end or changes nothing, so each public function
is one action, and each `asserts!`, `try!`, `unwrap!` and underflow is a guard.
The order of the code matters where a check reads state that was just written:
`deposit` and `withdraw` store the pipe first and verify the signatures against
the stored pipe, and so do the actions.  A signature is the key recovered from it
over the message the call builds, so any caller may present any message signed by
any keys; a party can sign anything, also contradicting messages.

### Reservoir

The pool is one of the contract principals of `StackflowContract`, with an agent
that signs for it, so every function of the pool is an action that puts its own
guards before the action of the contract it calls (`ForceCancelTap` before
`ForceCancel`, and so on), in the same transaction.  The pool calls the contract
nowhere else: `OutsideCall` is everybody but the pool.  `borrow-liquidity` looks at
the liquidity before the fee comes in, and `Lend` does so.  `borrowed` is the map of
the code with its one entry per borrower; `lent` is a history that the code does not
have, of what was lent in each block, and the properties compare the two.

### CounterpartyService

`signState` awaits the signer, the read-only verification, the signing and the
upsert.  Each stretch between two of them is an action: `Accept`, `Check`,
`Verify`, `Sign`, `Store`, `Respond`.  Other requests, chain events (`Observe`),
a restart, pruning of old answers and a new rate-limit window come between.  One
pipe of the server is modelled: rows of other pipes are not read by these paths.
What the peer's signature covers is left to the verification, which accepts or
rejects at will.

### StackflowNode and Watchtower

`handleEvent` is synchronous up to the broadcast of a dispute.  A post of
`/new_block` is a sequence of events in `ingests`; `Quiet` keeps every other call
out while a post is between two awaits, and lets them in while a dispute is under
way.  `Broadcast` and `RecordAttempt` are apart: the transaction may reach the
network and the answer be lost.  `Restart` drops the calls in progress and keeps
the tables.

`Watchtower` puts the contract, the feed of events and the node together.  Parties
sign states (`Agree`) with the total of the pipe, submit them in any order
(`Submit`), move funds and close, together or alone.  The Stacks node posts what
is in `feed` from its head until it is answered with 200, so a slow post is
repeated while it still runs.  A broadcast dispute stays in the mempool and may be
mined at any later time.  Two assumptions are made about the surroundings and
stated in `Timely`: before the last block of a waiting period the feed has been
posted and answered and broadcast disputes that can be mined are mined.  The
promise is about a state that is due (`Due`): newer than the closure, with its total, its
secret known to the node if it needs one, and valid by the block of the closure.  A state
that is not valid yet is stored like any other and replaces one that is due, and nothing
is promised of the latter any more.

### Forwarding

A call of `/forwarding/transfer` asks the next hop, then signs the incoming state
by `signTransfer`, then writes its row.  A reveal writes the secret and awaits the
previous hop.  `propagations` holds the row as it was read before the await, since
the code writes that copy back with the outcome.  `Save` is `setForwardingPayment`
whole: row, `revealed_secrets`, and the pruning to the latest nonce per pipe.

### SignedMessages and SignedStates

A state is described from one side's view: my balance, theirs, the actor, a secret as
preimage or as digest.  Five programs turn it into the data that is hashed and signed.
`SignedMessages` has an operator for each of them (`StructuredData` and the checks of the
contract, `ConsoleMessage`, and so on); a 32-byte buffer is a number and its digest the next
number, so a secret hashed once too often or not at all is another number.  A signature
is its key and its message.

`SignedStates` lets a page hold any of `Forms` at each click and any existing signature in
its signature fields.  The node's verifier asks the contract by the read-only function that
the code selects; what passes is stored with the normalisation of `upsertSignatureState`,
and is sent to the contract by a person on the console or by a dispute.  `calls` keeps what
was sent, and the properties ask whether the contract takes it.  The verifier mode is
`readonly`; with `accept-all` the node promises nothing about what it stores.

### AgentService and AgentWatcher

`acceptIncomingTransfer` awaits the wallet tool between its checks and its write: `BeginAccept`
and `FinishAccept` are apart.  The watcher starts a pass at every interval unless one is running.
A pass has two sources: it reads each tracked pipe, or it lists events from a cursor on.
Every tool call is an await with three ends: an answer, a failure, or an answer that is
lost although the transaction was broadcast.  `Restart` drops the pass and keeps the tables.
The external contract keeps one closure per pipe, which a dispute with a higher nonce wins;
disputes that were broadcast are mined before the closure ends.

### X402Gateway and X402Client

The gateway's requests are a second layer of processes over those of
`CounterpartyService`: `calls` of the gateway wait on `requests` of the service, under an
idempotency key made of the proof and the route.  A time-out ends the gateway's side and
leaves the service's side running.  Indirect proofs poll and reveal rows of forwarded
payments, which appear and fail as `Forwarding` lets them.

The client has a loop per caller, one row of the pipe's nonce, one lock row with a lease,
and the marks of used proofs.  A lease may run out at any time, also while its holder is at
work.  How a proof is made is the application's part: a provider here uses a fixed proof or
the next nonce under the lock, the two ways the package's README shows.  The gateway on the
other side answers at will.

### BrowserDemo

A tab reads the status of the pipe, then the intent, then waits for the wallet, and each of
these is an action of its own.  The status is the merge of `GET /pipes`: the observed pipe
and the signature state, the higher nonce first.  The node learns of the contract through
`feed`, and of blocks when they are posted.  The demo runs with `accept-all`, so
`PaymentsEnforceable` is about what the page and the server build and not about a verifier.

## What is checked

| Run | Instance | Shows |
|---|---|---|
| `contract_pair` | one pipe of a person and a contract principal, 3 tokens, nonces to 3, 5 burn blocks, waiting period 2, confirmation 1, 2 tokens to initialise with | types, balanced books, closures, nonces, refinement of `PipeEscrow`, every closure resolves |
| `reservoir_terms` | one tap, 2 tokens of the operator and 1 of the holder, term 1, rate 50%, nonces to 2, 3 burn blocks | the books with loans and fees, terms honoured, nothing agreed without an agent |
| `counterparty_race` | 2 requests, 5 states for nonces 1 to 3, 2 chain events | no equivocation, acknowledged states are kept, recorded answers stay |
| `watchtower_protects` | 1 pipe of 2 tokens, 2 closures, 3 states, a hash lock, a valid-after, 2 overlapping posts, waiting period 2, 3 burn blocks | stale closures are disputed, closures are caught up with |
| `forwarding_flow` | 2 payments, a transfer, a reveal and the retry at once, 2 attempts, a restart | secrets are kept, the order of signatures, retries end |
| `forwarding_resume` | the same | a finding |
| `signed_states` | a user and a hub with a pipe of 1; transfers of every balance from both sides with no secret, a preimage or a digest, with and without valid-after, one with another domain version, closings, deposits and withdrawals; 2 signatures, 1 call | what is stored is enforceable, the service signs what it verified, console calls and disputes are accepted |
| `agent_watch` | 1 pipe, beneficial disputes only, 1 payment of the peer, nonces to 2, 2 closures, 1 other event, listings of 2 events, 2 blocks with events, 1 failure or restart, both sources | signed transfers stay covered, disputes repeat only after a loss, the cursor passes nothing by, nonces rise, a due closure is disputed |
| `agent_collision` | the same with nonces to 1 and no other event | a finding |
| `x402_paid` | 2 requests on 2 routes, a transfer and a forwarded payment, 1 failure, interchangeable requests and routes | what is served was paid, one transfer pays for one route |
| `x402_client` | 2 callers of 2 attempts, 1 synchronisation, 1 crash | the lease excludes, nonces are taken once, requests end |
| `demo_payments` | 2 tabs, price 2, opening amount 5, nonces to 3, 5 burn blocks, 2 lives of the pipe, 2 notices under way | payments are enforceable and move the price; an opened pipe becomes payable |

The bounds are small and reach what matters.  Five burn blocks with a waiting
period of two let a pipe be opened, confirmed, closed, disputed or finalized, and
opened again.  Three nonces give an old, a current and a newer message.  Three
tokens, two of one side, tell a swap of the sides from a loss.  In `contract_pair`
the contract principal has no other signer to register than the person on the other
side; as both sides sign whatever they like, this takes no behaviour away.  That one
pipe's payouts never take another pipe's tokens is proved and not run: with one pipe
the books of the run already fail when a payout is too large.  A loan with a rate of
50% makes a fee of one token for two, and none for one.  A term of one block ends
inside the run; one of two, in `Reservoir_return`, lets a second loan start inside the first.  Two
requests are enough for every race between a check and a write, as each request
reads and writes the store once.  Two closures make the node see a closure after
one that is over.  Two attempts make a first, a last and a too late one.  Two signatures
are what a state needs, and one call of the contract is enough to see it refused; all
forms have one nonce, as a message of another nonce is a different message.  Two closures
of one pipe are what confuses the agent's identifiers, and a listing of two events ends
before the last event of the run.  An opening amount of 5 buys two stories and leaves a rest
that is too small for a third; two lives let a state of the first meet the second.

The actions carry these bounds as constants: `MaxAmount`, `MaxNonce`,
`ValidAfters`, `Horizon` (contract), `Rates` (reservoir), `Requests`, `Keys` and `WriteLimit`
(counterparty service), `MaxClosures`, `MaxFeed`, `MaxBatch`, `Ingests` (watchtower),
`Transfers`, `Reveals`, `MaxAttempts`, `MaxRestarts` (forwarding), `MaxSigned`, `MaxCalls`
(signed states), `MaxNonce`, `MaxClosures`, `MaxOthers`, `MaxHeight`, `MaxTroubles` (agent),
`MaxTroubles` (gateway), `MaxSyncs`, `MaxCrashes` (client), `MaxFeed`, `MaxLives` (demo).  Deadlock is not
checked: at the bounds the systems stop.

`Watchtower` is run with one event per post.  With more, a post that was suspended at a
dispute can go on after a later post was handled and delete the row of a newer closure; see
the hazards.  `ClosuresCaughtUp` therefore assumes that posts of several events do not
overlap (`OneAtATime`); `StaleClosureDisputed` and `NodeTypeOK` assume no such thing, and
the proofs of all three are for posts of any size.  Their inductive invariants were checked
with TLC at two events per post and two posts at a time before they were proved.

Fairness.  Contract: Bitcoin produces blocks (`BurnBlock`), and somebody calls
`finalize` on an expired closure, which `finalize-for` lets anyone do; no party is
assumed to cooperate.  Forwarding: the timer starts retry passes, and a call to
the previous hop ends, which its `AbortController` timeout guarantees; the previous
hop need not answer.  Agent: the interval timer starts passes (`Tick`), and a tool call ends
with an answer or a failure (`CallEnds`); that it succeeds is not assumed, since failures are
bounded by `MaxTroubles` only.  Client: each caller's loop goes on (`Advance`): waiting for the
lock is a poll with a deadline, and the gateway gives up the node and the upstream after its
time-outs, so a request to it is answered or its connection breaks (the client's own `fetch` has no
time-out); and marks of used proofs expire (`Forget`, the replay TTL).  Demo: Bitcoin produces blocks and the Stacks node posts
(`Burn`, `Post`).

## What is proved

The proofs hold for all values of the constants within the stated assumptions: any
number of principals, pipes, tokens, requests, payments, and any heights.

*Contract.*  `TypeOK`, `EscrowBacksPipes`, `ClosureWellFormed` and
`PipesUseSupportedToken` are not inductive one by one: a payout stays within the
books only if a closing pipe has no pending deposit, and a deposit's subtraction
is only safe because the signed total was compared with the pipe's.  The invariant
`IInv` takes them together with the bounds on nonces and heights.  Each action gets a lemma that it
preserves one pipe's part of it; `NextCases` then splits a step once for the
action properties `NoReplay` and `ClosuresEnd`.  `Implements` maps every action to
a step of `PipeEscrow`: `fund-pipe` and `deposit` to `Lock`, `withdraw` to
`Unlock`, a forced closure to `GiveNotice`, the three payouts to `Settle`.

`AmountsInvariant` adds that every pending deposit has an amount, because
`close-pipe` and `withdraw` look at amounts and would overlook one of nothing, and
concludes that an unconfirmed deposit is neither changed nor paid out.

*Reservoir.*  A step of the pool is a call passed on to the contract, a move of
tokens outside of the pipes, or a loan, and the contract's invariant is reused for
all three.  `LoansCovered` is what makes the term safe although the map forgets
loans: a later entry has a later end, so the entry covers every loan before it.
`TermsHonoured` needs in addition that only the sender of a call becomes a closer.
`NoAgentNoAgreement` goes through every call that changes a pipe's nonce: each asks for a
signature of the pool, and a contract principal without an agent has none.

*Counterparty service.*  That two released states of one nonce are equal follows
from a stronger fact: whatever is released, recorded or about to be answered with
200 is the stored state or has a lower nonce, and the stored state of a nonce
never changes because only a higher nonce replaces it.  `RecordsStay`: a recorded
answer is only pruned, never replaced.

*x402 gateway.*  The gateway's steps are steps of the service or leave its variables alone
(`GatewayRunsService`), so the service's invariant holds behind it.  `GatewayInv` relates the
two layers: a call that waits for a request has that request's key and state (`Awaits`), what
is proxied was paid, and so was all that is served.  That a transfer pays for one route follows from
`KeyInv` of the service: a state is taken under one key, because the upsert refuses a state
that was taken before, and the key is made of proof and route.

*Watchtower.*  `WatchInv` has the contract's `IInv`, the types of all parts, the order of
the calls, and `Debt`: while a stored state is due in the present closure, its dispute is
on the way.  The way has these stations (`EventLeads`): the closure's event is in the feed, and
every call that handled it has a dispute under way; or a dispute that wins is in the mempool; or
the submission failed.  `DisputesWin` says that what is under way wins, `EventsDescribe` that
the events of the closure tell what the chain has, `Numbered` that an attempt of an earlier
closure is not taken for one of this, and `OverAfterExpiry`, with `Timely`, that after the
waiting period only a failed submission is left.

`ClosuresFollowChain` has a second invariant, `ViewInv`, for posts that do not overlap: the
last event of the feed that affects a closure leads to the row of the chain, or if there is
none the node has that row (`FeedLeads`); and a call in progress works on the head of the
feed (`CallsFollow`), so going on with it, or posting it again, leads there too.

*Forwarding.*  A secret that was confirmed or told is in `revealed_secrets`: the
invariant adds that the secret of every revealed row, of every row in propagation
and of every row of the retry pass is there.  That we sign after the next hop needs
that a call past the question carries a request the next hop signed.

*Signed states.*  `StoredTransfersEnforceable` is about a call nobody has made yet, so the
invariant says of each stored row instead whose signatures over which message of the
contract it holds (`WellSigned`), and of each call where its fields come from.  The rest is
algebra of messages: that two views of one state map to the same pair and balances
(`MirrorMessage`), that the service builds the contract's message
(`ServiceBuildsContractMessage`), and that a digest was hashed once (`Digest`).

*Agent.*  Every step of the watcher is a step of the service or leaves its tables alone
(`WatcherRunsService`), so what is proved of `AgentService` holds for the whole agent.
An accepted transfer stays covered because `Upsert` drops a state only for a higher
stored nonce and no row is deleted (`UpsertCovers`), whatever was validated before the await.
`WInv` is about the pass: `CountInv` says that a closure was disputed once more than the
unmarked submissions only if its row says so, and a marked row is skipped; `ScanInv` says
that what lies between the cursor and the highest block looked at is settled or still on the
list of the pass, and a pass with a failure does not move the cursor.

*x402 client.*  The lock is exclusive for leases that have not run out.  Nonces then differ
because of an epoch that counts the writes from outside of a valid lease: the invariant
says that no nonce written in the present epoch is above the row, or as high as one that a
lease holder is about to write.

*Browser demo.*  The demo verifies no signature, so what makes its payments good is where
their numbers come from.  `DemoInv` takes the observed pipe, the notices in the feed and
the contract's pipe as views of one pipe (`View`) and says of any earlier and later one
(`Ordered`): nonces do not fall, and within a life (`SameLife`) the deposit and the server's
balance stay until a signed state closes the pipe (`Within`), and then the stored state is
that one or a newer one (`Covers`).  A stored state of the observed life is above every view
of that life and has its total (`Enforceable`).  Lives are counted along the feed
(`LivesFit`): if the payment is of the present life, no notice of an end is on its way, and
the contract's pipe is one of these views.  For the price, an intent follows on the newest
view of the life in which it was made, or has become too old to be accepted
(`TabFits`, `Follows`): a payment of another tab raises the nonce with the balance.

*Only model-checked.*  Liveness (`ClosuresResolve`, `RetriesEnd`, `DueIsDisputed`,
`RequestsEnd`, `OpenedBecomesPayable`): TLAPS does not prove it.  All invariants and action
properties of the passing runs are theorems.
The two readings of `[f EXCEPT ![a] = .., ![b] = @ ..]` for equal a and b differ
between TLC and the prover; the proofs use only what holds in both.

## Findings

Two are runs that TLC ends with a counterexample; `PROJECT.json` quotes the line that says
otherwise.

- `agent_collision`: a closure read from the pipe gets an identifier made of pipe, nonce and
  closer, so a second closure of a reused pipe can be taken for the first and is then
  never disputed, although its row says so.
- `forwarding_resume`: a crash during the first attempt to pass a secret on leaves it
  pending without a retry.

More divergences were met on the way.  Each has a configuration of its own beside the
modules, with the property it violates, and is not among the runs:

| Configuration | Module | What TLC finds |
|---|---|---|
| `Contract_withdraw_request` | `MCStackflowContract` | `verify-signature-request` accepts a withdrawal that `withdraw` rejects while the other side has a pending deposit (stackflow.clar:879, :1537) |
| `Reservoir_return` | `MCReservoir` | a second loan replaces the first in the map, and a return of liquidity can take the first back in the middle of its term (reservoir.clar:305, :438) |
| `Counterparty_balance` | `MCCounterpartyService` | two requests checked against one baseline can lower the counterparty's balance (README.md:377, counterparty-service.ts:1245) |
| `Counterparty_idempotency` | `MCCounterpartyService` | a retry that overlaps the original gets another answer (README.md:372, index.ts:1442) |
| `Watchtower_view` | `MCWatchtower` | a deposit prints the pipe without the signed balances, and the node's view of them stays wrong (README.md:505, stackflow.clar:644) |
| `Forwarding_rivals` | `MCForwarding` | of two forwarded transfers for one nonce both are answered with a signature, one of them not stored (README.md:376, index.ts:1850) |
| `Agent_sign` | `MCAgent` | of two transfers accepted at once the one signed last replaces the other, also with a lower own balance (packages/stackflow-agent/README.md:142, agent-service.js:438) |
| `X402_replay` | `MCX402` | two overlapping requests with one proof are both served (README.md:757, x402-gateway.ts:925) |
| `X402_attempts` | `X402Client` | a proof that is marked as used costs no attempt: the loop asks the provider more often than `maxPaymentAttempts` (client.js:178) |
| `Signed_documented` | `MCSignedStates` | a stored transfer holds a digest where `verify-signatures` expects the preimage, so it does not pass the check README.md:494 names; the code asks another function |
| `Signed_domain` | `MCSignedStates` | the agent takes the domain's version from the contract's name, and "1.0.0" if there is none: the contract does not accept its signature (aibtc-adapter.js:168) |
| `Demo_offered` | `MCBrowserDemo` | a signed state of an earlier life has the higher nonce and hides the pipe that was reset, and the page offers a payment on it (README.md:507, :645, index.ts:931) |

## Hazards without a property

Besides those of `PROJECT.json`:

- stackflow-node.ts:784: a submission that fails is recorded and not tried again while the
  closure lasts, unless its event is posted again.  `StaleClosureDisputed` leaves such closures out.
- stackflow-node.ts:395: a post of several events that was suspended at a dispute goes on
  after a later post was handled, and its stale close event deletes the row of a newer closure.
- stackflow-node.ts:743: two overlapping posts of one closure both submit, and the failure of
  the second overwrites the success of the first.
- stackflow-node.ts:704: valid-after is compared with the Stacks height, the contract
  compares it with the Bitcoin height; the two are one height in `Watchtower`.
- stackflow-node.ts:318: a state with a higher nonce that is not valid yet replaces one that could
  win a dispute now.
- stackflow-node.ts:755: a state whose digest no forwarding payment tracks is disputed with
  the digest in the place of the secret; `DisputesStand` leaves it out.
- stackflow-node.ts:620: a dispute that is mined late meets a later closure of the reused pipe and
  may settle it for less than the state the client holds by then.
- forwarding-service.ts:531: the next hop signs and the signing of the incoming state then
  fails: the node has paid and holds nothing in return but the hash lock.
- state-store.ts:1023: only the payment with the highest nonce of a pipe is kept; the secret
  of an earlier one that is still unresolved is no longer found.
- counterparty-service.ts:650: the secret of a request that is not a transfer is hashed for the message and
  once more by the contract that verifies it.
- counterparty-service.ts:968: that a contract principal has the configured key as its agent
  on chain is not checked; it is an assumption of `SignedStates`.
- main.src.js:965: the console leaves a valid-after of 0 out of what it posts.
- demo-x402-browser.js:608: an intent made in an earlier life of the pipe can be paid in a
  later one, once more for the same story.

## Not modelled

- Signature formats and the hash function itself: a signature is its key and its
  message, a digest the next number.
- Failing token transfers of a foreign token contract: the transfer of the model
  fails only for lack of tokens.
- Parsing of events, requests and the environment, HTTP headers, access policies, logging, rendering of
  pages, wallet connection, and the build, smoke and end-to-end scripts.  None of them keeps
  state that the rest reads.
- `server/ui/main.js`, which is generated from `main.src.js`.
- `recent_events`, the migration of the legacy state file, several contracts with
  pipes of the same principals (closures are keyed by the pipe alone).
- `create-tap-with-borrowed-liquidity` (`CreateTap` and `BorrowLiquidity` in one
  transaction) and a pool that is initialised with another token than the contract.
- A tool call of the agent that never answers: its interval passes would stop.

## Plan

Done: every component that keeps state, and the proofs listed above.  Left:

1. Composition of `CounterpartyService` and `Forwarding`: the promise of
   `NoEquivocation` over both endpoints.
2. An action for `create-tap-with-borrowed-liquidity`.
3. The observer parser, as a filter from what the observer posts to the events of `StackflowNode`.
