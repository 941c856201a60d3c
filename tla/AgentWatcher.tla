----------------------------- MODULE AgentWatcher ------------------------------
(***************************************************************************)
(* The hourly watcher of the agent, HourlyClosureWatcher of                 *)
(* packages/stackflow-agent/src/watcher.js, over the tables closures and    *)
(* watcher_cursor of db.js, with disputeClosure of agent-service.js, the    *)
(* wallet adapter and the event source.                                     *)
(*                                                                         *)
(* Every interval starts a pass, unless one is running.  A pass reads every *)
(* tracked pipe from the contract ("readonly"), or lists the closure events *)
(* from a cursor on ("events"), and disputes each closure that a stored     *)
(* state beats.  Tool calls are awaited: between the call and its answer    *)
(* the owner, the peers and the chain go on.  A call may fail, its answer   *)
(* may be lost after the transaction was broadcast, and the process may     *)
(* restart.                                                                *)
(*                                                                         *)
(* External: the contract keeps one closure per pipe, won by a dispute with *)
(* a higher nonce, and the wallet's transactions are mined before the       *)
(* closure they dispute ends.                                               *)
(***************************************************************************)
EXTENDS AgentService, FiniteSets

CONSTANTS
    DisputeOnlyBeneficial,  \* the agent's policy
    ScanLimit,              \* events a listing returns: pageSize * maxPages
    MaxClosures,            \* bound: closures of all pipes
    MaxOthers,              \* bound: other events of the contract
    MaxHeight,              \* bound: blocks with events
    MaxTroubles             \* bound: failed calls and restarts

ASSUME WatcherAssumption ==
    /\ DisputeOnlyBeneficial \in BOOLEAN
    /\ ScanLimit \in Nat \ {0}
    /\ {MaxClosures, MaxOthers, MaxHeight, MaxTroubles} \subseteq Nat

VARIABLES
    mode,       \* which source the watcher was given
    recorded,   \* table closures: identifiers with a row
    disputed,   \* rows marked disputed
    cursor,     \* table watcher_cursor
    pass,       \* the pass in progress
    chain,      \* the closure in progress of each pipe on chain
    settledAt,  \* nonce the contract keeps of each pipe
    log,        \* events the contract emitted
    height,     \* block of the latest event
    mempool,    \* disputes that were broadcast
    \* history of the behaviour, read by properties and bounds
    sent,       \* disputes submitted, by the serial number of the closure
    unmarked,   \* those whose answer named no transaction, or was lost
    settled,    \* identifiers whose last look ended without an error
    troubles    \* failed calls and restarts so far

watcherVars == <<mode, recorded, disputed, cursor, pass>>
chainVars == <<chain, settledAt, log, height, mempool>>
historyVars == <<sent, unmarked, settled, troubles>>
agentVars == <<serviceVars, watcherVars, chainVars, historyVars>>

Serials == 1..MaxClosures
Closure == [pipe : Pipes, serial : Serials, event : {"force-close", "force-cancel"},
            nonce : Nat, my : Nat, closer : Sides]
Event == [index : Nat, height : 1..MaxHeight, closure : Closure \cup {None}]

\* The txid a closure is known by; the read-only source makes one up.
Id(c) == [pipe |-> c.pipe, nonce |-> c.nonce, closer |-> c.closer,
          serial |-> IF mode = "readonly" THEN 0 ELSE c.serial]

Idle == [phase |-> "idle"]
WatcherInit ==
    /\ ServiceInit
    /\ mode \in {"readonly", "events"}
    /\ recorded = {} /\ disputed = {} /\ settled = {}
    /\ cursor = 0
    /\ pass = Idle
    /\ chain = [p \in Pipes |-> None]
    /\ settledAt = [p \in Pipes |-> Base.nonce]
    /\ log = {} /\ height = 1
    /\ mempool = {}
    /\ sent = [n \in Serials |-> 0] /\ unmarked = [n \in Serials |-> 0]
    /\ troubles = 0

--------------------------------------------------------------------------------
(* Which closures to dispute *)

\* What the source tells of a closure: read from the pipe, every closure is a
\* force-close.
Seen(c) == IF mode = "readonly" THEN [c EXCEPT !.event = "force-close"] ELSE c

\* isDisputeBeneficial
Beneficial(c, s) ==
    /\ s.nonce > c.nonce
    /\ \/ ~DisputeOnlyBeneficial /\ ~s.beneficialOnly
       \/ /\ c.closer # "local"
          /\ IF c.event = "force-cancel" THEN s.my > 0 ELSE s.my > c.my

\* evaluateClosureForDispute
ShouldDispute(c) ==
    /\ IsTracked(c.pipe)
    /\ latest[c.pipe] # None
    /\ Beneficial(Seen(c), latest[c.pipe])

--------------------------------------------------------------------------------
(* A pass *)

\* The events of a listing: the first ScanLimit from the cursor's block on.
Listing(from) ==
    LET eligible == {e \in log : e.height >= from}
    IN {e \in eligible :
          Cardinality({d \in eligible : d.index < e.index}) < ScanLimit}

ClosuresOf(events) == {e \in events : e.closure # None}

\* The loop over what is left to do.
Looking(todo, failed, highest) ==
    [phase |-> "looking", todo |-> todo, failed |-> failed, highest |-> highest]

\* runOnce: the timer fires and no pass is running.
BeginPass ==
    IF mode = "readonly"
    THEN pass' = IF tracked = {} THEN Idle
                 ELSE Looking(tracked, FALSE, cursor)
    ELSE pass' = [phase |-> "listing", todo |-> {}, failed |-> FALSE,
                  highest |-> cursor]

\* Mutant: the cursor moves on although a dispute failed.
CursorAfterAnyway(q) == q.highest

\* The cursor is held when a dispute failed.
CursorAfter(q) == IF q.failed \/ mode = "readonly" THEN cursor ELSE q.highest

\* The rest of the loop: the next entry, or the end of the pass.
GoOn(q) ==
    IF q.todo = {}
    THEN pass' = Idle /\ cursor' = CursorAfter(q)
    ELSE pass' = q /\ cursor' = cursor

\* listClosureEvents answers.
List ==
    /\ pass.phase = "listing"
    /\ LET found == ClosuresOf(Listing(cursor))
       IN IF found = {} THEN pass' = Idle
          ELSE pass' = Looking(found, pass.failed, pass.highest)
    /\ UNCHANGED <<mode, recorded, disputed, cursor, serviceVars, chainVars, historyVars>>

\* Mutant: an exception leaves the running flag set.
ListFailsRunning ==
    /\ pass.phase = "listing"
    /\ pass' = [pass EXCEPT !.phase = "looking", !.todo = {}]
    /\ troubles < MaxTroubles /\ troubles' = troubles + 1
    /\ UNCHANGED <<mode, recorded, disputed, cursor, serviceVars, chainVars,
                   sent, unmarked, settled>>

ListFails ==
    /\ pass.phase = "listing"
    /\ pass' = Idle
    /\ troubles < MaxTroubles /\ troubles' = troubles + 1
    /\ UNCHANGED <<mode, recorded, disputed, cursor, serviceVars, chainVars,
                   sent, unmarked, settled>>

\* Mutant: closures that were disputed are looked at again.
SkipsNone(c) == FALSE

\* The row of the closure says it was disputed.
Skips(c) == Id(c) \in disputed

\* recordClosure: a row that is there keeps what it says of disputes.
Record(c) == recorded' = recorded \cup {Id(c)}

\* The highest block looked at, once x is.
HighestWith(x) ==
    IF mode = "events" /\ x.height > pass.highest THEN x.height ELSE pass.highest

\* The closure c of entry x: recorded, then skipped, left alone, or disputed.
LookAt(x, c) ==
    LET rest == Looking(pass.todo \ {x}, pass.failed, HighestWith(x))
    IN /\ Record(c)
       /\ IF ~Skips(c) /\ ShouldDispute(c)
          THEN /\ pass' = [phase |-> "disputing", todo |-> rest.todo,
                           failed |-> rest.failed, highest |-> rest.highest,
                           closure |-> c, with |-> latest[c.pipe]]
               /\ UNCHANGED <<cursor, settled>>
          ELSE GoOn(rest) /\ settled' = settled \cup {Id(c)}

\* get-pipe answers for pipe p.
LookAtPipe(p) ==
    /\ pass.phase = "looking" /\ mode = "readonly"
    /\ p \in pass.todo
    /\ IF chain[p] = None
       THEN /\ GoOn(Looking(pass.todo \ {p}, pass.failed, pass.highest))
            /\ UNCHANGED <<recorded, settled>>
       ELSE LookAt(p, chain[p])
    /\ UNCHANGED <<mode, disputed, serviceVars, chainVars, sent, unmarked, troubles>>

\* The read-only call fails: the other pipes are still looked at.
LookFails(p) ==
    /\ pass.phase = "looking" /\ mode = "readonly"
    /\ p \in pass.todo
    /\ GoOn(Looking(pass.todo \ {p}, pass.failed, pass.highest))
    /\ troubles < MaxTroubles /\ troubles' = troubles + 1
    /\ UNCHANGED <<mode, recorded, disputed, serviceVars, chainVars,
                   sent, unmarked, settled>>

\* The next event of the listing.
LookAtEvent(e) ==
    /\ pass.phase = "looking" /\ mode = "events"
    /\ e \in pass.todo
    /\ \A d \in pass.todo : e.index <= d.index
    /\ LookAt(e, e.closure)
    /\ UNCHANGED <<mode, disputed, serviceVars, chainVars, sent, unmarked, troubles>>

Broadcast == mempool' = mempool \cup {[closure |-> pass.closure, with |-> pass.with]}
Sent == sent' = [sent EXCEPT ![pass.closure.serial] = @ + 1]
Unmarked == unmarked' = [unmarked EXCEPT ![pass.closure.serial] = @ + 1]

\* submitDispute answers with a transaction id: the row is marked.
Submit ==
    /\ pass.phase = "disputing"
    /\ Broadcast /\ Sent
    /\ disputed' = disputed \cup {Id(pass.closure)}
    /\ settled' = settled \cup {Id(pass.closure)}
    /\ GoOn(Looking(pass.todo, pass.failed, pass.highest))
    /\ UNCHANGED <<mode, recorded, serviceVars, chain, settledAt, log, height,
                   unmarked, troubles>>

\* It answers without one: nothing is marked.
SubmitUnnamed ==
    /\ pass.phase = "disputing"
    /\ Broadcast /\ Sent /\ Unmarked
    /\ settled' = settled \cup {Id(pass.closure)}
    /\ troubles < MaxTroubles /\ troubles' = troubles + 1
    /\ GoOn(Looking(pass.todo, pass.failed, pass.highest))
    /\ UNCHANGED <<mode, recorded, disputed, serviceVars, chain, settledAt, log, height>>

\* It throws; the transaction may have been broadcast all the same.
SubmitFails ==
    /\ pass.phase = "disputing"
    /\ \/ Broadcast /\ Sent /\ Unmarked
       \/ UNCHANGED <<mempool, sent, unmarked>>
    /\ troubles < MaxTroubles /\ troubles' = troubles + 1
    /\ settled' = settled \ {Id(pass.closure)}
    /\ GoOn(Looking(pass.todo, TRUE, pass.highest))
    /\ UNCHANGED <<mode, recorded, disputed, serviceVars, chain, settledAt, log, height>>

\* The process restarts: calls and the pass are lost, a dispute may be under way.
Restart ==
    /\ pass # Idle \/ \E c \in Calls : calls[c] # None
    /\ \/ pass.phase = "disputing" /\ Broadcast /\ Sent /\ Unmarked
       \/ UNCHANGED <<mempool, sent, unmarked>>
    /\ pass' = Idle
    /\ AbandonAccepts({c \in Calls : calls[c] # None})
    /\ troubles < MaxTroubles /\ troubles' = troubles + 1
    /\ UNCHANGED <<mode, recorded, disputed, cursor,
                   chain, settledAt, log, height, settled>>

--------------------------------------------------------------------------------
(* The chain *)

Emit(closure) ==
    \E h \in {height, height + 1} :
        /\ h <= MaxHeight /\ height' = h
        /\ log' = log \cup {[index |-> Cardinality(log) + 1, height |-> h,
                             closure |-> closure]}

\* A party ends the pipe with a signed state or, force-cancel, with what is settled.
Close(p, c) ==
    /\ chain[p] = None
    /\ c.pipe = p
    /\ c.serial = Cardinality(ClosuresOf(log)) + 1
    /\ \/ /\ c.event = "force-close"
          /\ \E s \in accepted \cup offered :
               /\ s.pipe = p /\ s.nonce = c.nonce /\ s.my = c.my
               /\ s.nonce > settledAt[p]
       \/ /\ c.event = "force-cancel"
          /\ c.nonce = settledAt[p] /\ c.my = Base.my
    /\ chain' = [chain EXCEPT ![p] = c]
    /\ Emit(c)
    /\ UNCHANGED <<settledAt, mempool, serviceVars, watcherVars, sent, unmarked, settled, troubles>>

\* The pipe is empty; it may be funded again with the nonce it has.
Reopen(p, nonce) ==
    /\ chain' = [chain EXCEPT ![p] = None]
    /\ settledAt' = [settledAt EXCEPT ![p] = nonce]

\* The contract refuses a dispute by the closer, and one with a state that is not newer.
Wins(d) ==
    /\ chain[d.closure.pipe] # None
    /\ chain[d.closure.pipe].closer # "local"
    /\ d.with.nonce > chain[d.closure.pipe].nonce

\* A dispute is mined.
Mine(d) ==
    /\ d \in mempool
    /\ mempool' = mempool \ {d}
    /\ IF Wins(d) THEN Reopen(d.closure.pipe, d.with.nonce)
       ELSE UNCHANGED <<chain, settledAt>>
    /\ UNCHANGED <<log, height, serviceVars, watcherVars, sent, unmarked, settled, troubles>>

\* finalize, after the waiting period.
Finalize(p) ==
    /\ chain[p] # None
    /\ \A d \in mempool : d.closure.pipe = p => ~Wins(d)
    /\ Reopen(p, chain[p].nonce)
    /\ UNCHANGED <<log, height, mempool, serviceVars, watcherVars, sent, unmarked, settled, troubles>>

\* Any other event of the contract.
EmitOther ==
    /\ Cardinality(log) - Cardinality(ClosuresOf(log)) < MaxOthers
    /\ Emit(None)
    /\ UNCHANGED <<chain, settledAt, mempool, serviceVars, watcherVars, historyVars>>

--------------------------------------------------------------------------------

\* The watcher can see the closure: its event is in the listing from the cursor.
Reachable(p) == mode = "events" => \E e \in Listing(cursor) : e.closure = chain[p]

\* A dispute of the closure of p is due.
Due(p) == chain[p] # None /\ Reachable(p) /\ ShouldDispute(chain[p])

\* The timer fires; while a pass runs that does nothing.
Tick ==
    /\ pass = Idle
    /\ BeginPass
    /\ UNCHANGED <<mode, recorded, disputed, cursor, serviceVars, chainVars, historyVars>>

\* The call the pass awaits ends, in one way or another.
CallEnds ==
    \/ List \/ ListFails \/ Submit \/ SubmitUnnamed \/ SubmitFails
    \/ \E p \in Pipes : LookAtPipe(p) \/ LookFails(p)
    \/ pass.phase = "looking" /\ mode = "events" /\ \E e \in pass.todo : LookAtEvent(e)

ServiceStep ==
    /\ ServiceNext
    /\ UNCHANGED <<watcherVars, chainVars, historyVars>>

WatcherNext ==
    \/ ServiceStep
    \/ Tick \/ CallEnds \/ Restart
    \/ \E p \in Pipes, n \in Serials, v \in {"force-close", "force-cancel"}, s \in Sides,
          q \in {Base} \cup accepted \cup offered :
          Close(p, [pipe |-> p, serial |-> n, event |-> v, closer |-> s,
                    nonce |-> IF v = "force-cancel" THEN settledAt[p] ELSE q.nonce,
                    my |-> q.my])
    \/ \E d \in mempool : Mine(d)
    \/ \E p \in Pipes : Finalize(p)
    \/ EmitOther

\* The interval timer keeps firing, and a call that is awaited ends.
WatcherSpec ==
    /\ WatcherInit /\ [][WatcherNext]_agentVars
    /\ WF_agentVars(Tick) /\ WF_agentVars(CallEnds)

--------------------------------------------------------------------------------
(* Properties *)

\* "same closure txid is skipped on later polls": a closure that is skipped because a
\* dispute of it was submitted is that closure, not an earlier one of the same pipe.
SkippedWereDisputed ==
    \A p \in Pipes : chain[p] # None /\ Id(chain[p]) \in disputed => sent[chain[p].serial] > 0

\* A closure that a stored state beats, and that the source can show, does not stay
\* undisputed: failed calls and restarts delay a dispute and never stop the watcher.  The
\* exception is the one SkippedWereDisputed is about.
DueIsDisputed ==
    \A p \in Pipes :
        []<>(Due(p) => \/ sent[chain[p].serial] > 0
                       \/ \E d \in mempool : d.closure.pipe = p /\ Wins(d)
                       \/ Id(chain[p]) \in disputed)

\* A closure is disputed a second time only after an answer that named no transaction or
\* was lost: passes never dispute the same closure twice of their own.
RepeatsOnlyAfterLoss == \A n \in Serials : sent[n] <= 1 + unmarked[n]

\* "Event scan mode intentionally holds the cursor when any dispute submission errors
\* occur": every closure in a block before the cursor was looked at, and its last look
\* ended without an error.
CursorHonest ==
    \A e \in ClosuresOf(log) : e.height < cursor => Id(e.closure) \in settled

================================================================================
