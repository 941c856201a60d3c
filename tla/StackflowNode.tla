----------------------------- MODULE StackflowNode -----------------------------
(***************************************************************************)
(* The stackflow node as a watcher of pipes: StackflowNode of              *)
(* server/src/stackflow-node.ts with the tables of                         *)
(* server/src/state-store.ts it keeps.  It follows the contract through    *)
(* the events that a Stacks node posts to it, and disputes a forced        *)
(* closure for which it stores a newer state.                              *)
(*                                                                         *)
(* The process is single-threaded: an ingest call runs until it awaits the *)
(* broadcast of a dispute, and only then can other calls run.  It is       *)
(* broken into steps, one per event; "Quiet" keeps others out meanwhile.   *)
(* One contract is watched, with a dispute executor.                       *)
(***************************************************************************)
EXTENDS Integers, Sequences

CONSTANTS
    PipeKeys, Principals, NoPrincipal,  \* as in StackflowContract
    Txids,                  \* transactions that open a closure
    Events,                 \* contract events that may be posted
    MaxBatch,               \* bound: events in one post
    Ingests,                \* bound: calls of /new_block in progress
    BurnHeights,            \* bound: heights posted to /new_burn_block
    States,                 \* signature states that pass verification
    Hashes,                 \* hashed secrets of forwarded payments
    DisputeOnlyBeneficial,  \* STACKFLOW_NODE_DISPUTE_ONLY_BENEFICIAL
    None                    \* null, an absent row

NodeAssumption ==
    /\ \A s \in States : /\ s.key \in PipeKeys /\ s.for \in Principals
                         /\ s.nonce \in Nat /\ s.hash \in Hashes \cup {None}
    /\ DisputeOnlyBeneficial \in BOOLEAN
    /\ None \notin States
    /\ None \notin Hashes
    /\ None \notin BOOLEAN
    /\ None \notin [id : Txids \X Principals, sent : BOOLEAN,
                    tx : [state : States, opens : BOOLEAN]]
    /\ None \notin [closer : Principals, nonce : Nat]

VARIABLES
    observed,     \* table observed_pipes
    closures,     \* table closures
    signatures,   \* table signature_states
    attempts,     \* success column of dispute_attempts
    payments,     \* hashes in forwarding_payments
    revealed,     \* hashes in revealed_secrets
    ingests,      \* calls of /new_block in progress
    mempool       \* dispute-closure-for transactions that were broadcast

store == <<observed, closures, signatures, attempts, payments, revealed>>
vars == <<store, ingests, mempool>>

OpenClosureEvents == {"force-cancel", "force-close"}
TerminalEvents == {"close-pipe", "dispute-closure", "finalize"}

Sides == {side \in PipeKeys \X Principals :
             side[2] \in {side[1].principal1, side[1].principal2}}
AttemptIds == Txids \X Principals

NoPending == [amount |-> 0, burnHeight |-> 0]
Idle == [events |-> <<>>, rest |-> <<>>, dispute |-> None]
Busy(i) == ingests[i] # Idle

Init ==
    /\ observed = [k \in PipeKeys |-> None]
    /\ closures = [k \in PipeKeys |-> None]
    /\ signatures = [side \in Sides |-> None]
    /\ attempts = [id \in AttemptIds |-> None]
    /\ payments = {}
    /\ revealed = {}
    /\ ingests = [i \in Ingests |-> Idle]
    /\ mempool = {}

--------------------------------------------------------------------------------
(* Which state to dispute with *)

\* Mutant: the sender does not stand in for the closer.
CloserPrinted(e) == e.pipe.closer
Closer(e) == IF e.pipe.closer # NoPrincipal THEN e.pipe.closer ELSE e.sender

SideBalance(e, p) == IF p = e.key.principal1 THEN e.pipe.balance1 ELSE e.pipe.balance2

\* A payment that is forwarded and whose secret is not known yet.
Withheld(s) == s.hash \in payments \ revealed

Newer(s, e) == s.nonce > e.pipe.nonce

Beneficial(s, e) ==
    DisputeOnlyBeneficial \/ s.beneficialOnly => s.my > SideBalance(e, s.for)

\* The valid-after of a state is compared with the block height of the event.
Eligible(e) ==
    {s \in States :
        /\ s.key = e.key
        /\ s.for # Closer(e)
        /\ signatures[<<s.key, s.for>>] = s
        /\ Newer(s, e)
        /\ s.validAfter <= e.blockHeight
        /\ ~Withheld(s)
        /\ Beneficial(s, e)}

Best(S) == CHOOSE s \in S : \A t \in S : t.nonce <= s.nonce

AttemptId(e, s) == <<e.txid, s.for>>

\* What tryDisputeClosure goes on to submit; `opens' if the secret it sends, if any,
\* is one that the contract finds to match the hash.
Dispute(e) ==
    IF Eligible(e) = {} THEN None
    ELSE LET s == Best(Eligible(e))
         IN IF attempts[AttemptId(e, s)] = TRUE THEN None
            ELSE [id |-> AttemptId(e, s), sent |-> FALSE,
                  tx |-> [state |-> s, opens |-> s.hash \in revealed \cup {None}]]

--------------------------------------------------------------------------------
(* POST /new_block *)

\* No call is between two awaits.
Quiet == \A i \in Ingests : Busy(i) => ingests[i].dispute # None

Handling(i, types) ==
    /\ ingests[i].dispute = None
    /\ ingests[i].rest # <<>>
    /\ Head(ingests[i].rest).type \in types

Post(i, events) ==
    /\ Quiet
    /\ ~Busy(i)
    /\ ingests' = [ingests EXCEPT ![i] = [events |-> events, rest |-> events, dispute |-> None]]
    /\ UNCHANGED <<store, mempool>>

\* Goes on with the next event of the post, after the dispute, if any.
Onward(call, dispute) == [call EXCEPT !.rest = Tail(call.rest), !.dispute = dispute]

Proceed(i, dispute) == ingests' = [ingests EXCEPT ![i] = Onward(@, dispute)]

\* handleEvent of a live pipe: the event's pipe is taken over.
ObservePipe(i) ==
    LET e == Head(ingests[i].rest)
    IN /\ Handling(i, {"fund-pipe", "deposit", "withdraw"})
       /\ observed' = [observed EXCEPT ![e.key] = e.pipe]
       /\ Proceed(i, None)
       /\ UNCHANGED <<closures, signatures, attempts, payments, revealed, mempool>>

\* handleEvent of force-cancel and force-close, with tryDisputeClosure up to its await.
OpenClosure(i) ==
    LET e == Head(ingests[i].rest)
        closure == [closer |-> Closer(e), nonce |-> e.pipe.nonce]
    IN /\ Handling(i, OpenClosureEvents)
       /\ observed' = [observed EXCEPT ![e.key] = e.pipe]
       /\ closures' = [closures EXCEPT ![e.key] = closure]
       /\ Proceed(i, Dispute(e))
       /\ UNCHANGED <<signatures, attempts, payments, revealed, mempool>>

\* Mutant: the closure stays.
EndClosureKeeps(i) ==
    LET e == Head(ingests[i].rest)
    IN /\ Handling(i, TerminalEvents)
       /\ observed' = [observed EXCEPT ![e.key] = e.pipe]
       /\ Proceed(i, None)
       /\ UNCHANGED <<closures, signatures, attempts, payments, revealed, mempool>>

\* handleEvent of the terminal events: an empty pipe with the event's nonce.
EndClosure(i) ==
    LET e == Head(ingests[i].rest)
        empty == [e.pipe EXCEPT !.balance1 = 0, !.balance2 = 0, !.pending1 = NoPending,
                                !.pending2 = NoPending, !.closer = NoPrincipal]
    IN /\ Handling(i, TerminalEvents)
       /\ observed' = [observed EXCEPT ![e.key] = empty]
       /\ closures' = [closures EXCEPT ![e.key] = None]
       /\ Proceed(i, None)
       /\ UNCHANGED <<signatures, attempts, payments, revealed, mempool>>

\* submitDispute reaches the network.
Broadcast(i) ==
    /\ ingests[i].dispute # None
    /\ ~ingests[i].dispute.sent
    /\ mempool' = mempool \cup {ingests[i].dispute.tx}
    /\ ingests' = [ingests EXCEPT ![i].dispute.sent = TRUE]
    /\ UNCHANGED store

\* submitDispute returns; it may fail before or after the broadcast.
RecordAttempt(i, success) ==
    /\ Quiet
    /\ ingests[i].dispute # None
    /\ success => ingests[i].dispute.sent
    /\ attempts' = [attempts EXCEPT ![ingests[i].dispute.id] = success]
    /\ ingests' = [ingests EXCEPT ![i].dispute = None]
    /\ UNCHANGED <<observed, closures, signatures, payments, revealed, mempool>>

\* All events are handled: 200.
Finish(i) ==
    /\ Busy(i)
    /\ ingests[i].rest = <<>>
    /\ ingests[i].dispute = None
    /\ ingests' = [ingests EXCEPT ![i] = Idle]
    /\ UNCHANGED <<store, mempool>>

--------------------------------------------------------------------------------
(* The other entry points *)

\* Mutant: one side only.
SettledFirst(p, h) ==
    IF p.pending1 # NoPending /\ h >= p.pending1.burnHeight
    THEN [p EXCEPT !.balance1 = @ + p.pending1.amount, !.pending1 = NoPending]
    ELSE p

Settled(p, h) ==
    LET due1 == p.pending1 # NoPending /\ h >= p.pending1.burnHeight
        due2 == p.pending2 # NoPending /\ h >= p.pending2.burnHeight
    IN [p EXCEPT
          !.balance1 = IF due1 THEN @ + p.pending1.amount ELSE @,
          !.balance2 = IF due2 THEN @ + p.pending2.amount ELSE @,
          !.pending1 = IF due1 THEN NoPending ELSE @,
          !.pending2 = IF due2 THEN NoPending ELSE @]

\* POST /new_burn_block.
IngestBurnBlock(h) ==
    /\ Quiet
    /\ observed' = [k \in PipeKeys |->
                      IF observed[k] = None THEN None ELSE Settled(observed[k], h)]
    /\ UNCHANGED <<closures, signatures, attempts, payments, revealed, ingests, mempool>>

\* Mutant: the last state wins.
ReplacesAlways(s, old) == TRUE
Replaces(s, old) == old # None => s.nonce > old.nonce

\* upsertSignatureState after its verification.
UpsertSignatureState(s) ==
    /\ Quiet
    /\ Replaces(s, signatures[<<s.key, s.for>>])
    /\ signatures' = [signatures EXCEPT ![<<s.key, s.for>>] = s]
    /\ UNCHANGED <<observed, closures, attempts, payments, revealed, ingests, mempool>>

\* A payment is forwarded; its secret arrives; its row is pruned.
ForwardPayment(h) ==
    /\ Quiet
    /\ payments' = payments \cup {h}
    /\ UNCHANGED <<observed, closures, signatures, attempts, revealed, ingests, mempool>>

RevealSecret(h) ==
    /\ Quiet
    /\ h \in payments
    /\ revealed' = revealed \cup {h}
    /\ UNCHANGED <<observed, closures, signatures, attempts, payments, ingests, mempool>>

PrunePayment(h) ==
    /\ Quiet
    /\ payments' = payments \ {h}
    /\ UNCHANGED <<observed, closures, signatures, attempts, revealed, ingests, mempool>>

\* The process restarts: calls in progress are lost, the tables stay.
Restart ==
    /\ ingests' = [i \in Ingests |-> Idle]
    /\ UNCHANGED <<store, mempool>>

HandleEvent(i) == ObservePipe(i) \/ OpenClosure(i) \/ EndClosure(i)

SubmitDispute(i) == Broadcast(i) \/ RecordAttempt(i, TRUE) \/ RecordAttempt(i, FALSE)

Payloads == UNION {[1..n -> Events] : n \in 1..MaxBatch}

Next ==
    \/ \E i \in Ingests :
          \/ \E events \in Payloads : Post(i, events)
          \/ HandleEvent(i) \/ SubmitDispute(i) \/ Finish(i)
    \/ \E h \in BurnHeights : IngestBurnBlock(h)
    \/ \E s \in States : UpsertSignatureState(s)
    \/ \E h \in Hashes : ForwardPayment(h) \/ RevealSecret(h) \/ PrunePayment(h)
    \/ Restart

Spec == Init /\ [][Next]_vars

--------------------------------------------------------------------------------
(* Type invariant *)

TypeOK ==
    /\ \A k \in PipeKeys :
          closures[k] # None => /\ closures[k].closer \in {k.principal1, k.principal2}
                                /\ closures[k].nonce \in Nat
    /\ \A side \in Sides :
          signatures[side] \in {s \in States : <<s.key, s.for>> = side} \cup {None}
    /\ attempts \in [AttemptIds -> BOOLEAN \cup {None}]
    /\ payments \subseteq Hashes
    /\ revealed \subseteq Hashes
    /\ \A i \in Ingests : /\ Len(ingests[i].rest) <= Len(ingests[i].events)
                           /\ ingests[i].dispute # None => ingests[i].dispute.id \in AttemptIds
    /\ mempool \subseteq [state : States, opens : BOOLEAN]

================================================================================
