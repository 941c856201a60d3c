----------------------------- MODULE AgentService ------------------------------
(***************************************************************************)
(* The state an AI agent keeps of its pipes: StackflowAgentService of       *)
(* packages/stackflow-agent/src/agent-service.js over the tables            *)
(* tracked_pipes and signature_states of AgentStateStore (db.js).           *)
(*                                                                         *)
(* The agent accepts transfers of its peers, signs them through a wallet    *)
(* tool, and offers transfers of its own.  acceptIncomingTransfer awaits    *)
(* the wallet between its checks and its write, so several calls may be     *)
(* in progress.  Fields that only identify the pipe (contract, key,         *)
(* principals, token, signature encoding) are taken to match: a payload     *)
(* with a wrong one is refused before anything is read or written.          *)
(***************************************************************************)
EXTENDS Integers

CONSTANTS
    Pipes,      \* pipes of the contract
    Calls,      \* calls of acceptIncomingTransfer in progress at the same time
    Payloads,   \* transfers the peers may propose
    Base,       \* nonce and balances the owner names for a pipe without a state
    Amounts,    \* amounts the owner may offer
    MaxNonce,   \* bound: nonces of offers
    None        \* an absent row

Sides == {"local", "peer"}
State == [pipe : Pipes, nonce : Nat, my : Nat, their : Nat, actor : Sides,
          beneficialOnly : BOOLEAN]

ASSUME AgentAssumption ==
    /\ Payloads \subseteq State
    /\ Base \in [nonce : Nat, my : Nat, their : Nat]
    /\ Amounts \subseteq Nat \ {0}
    /\ MaxNonce \in Nat
    /\ None \notin State

VARIABLES
    tracked,    \* table tracked_pipes: pipes the agent watches
    latest,     \* table signature_states: the row of each pipe
    calls,      \* what each call is asking the wallet to sign
    accepted,   \* peers' transfers that were answered with a signature
    offered     \* transfers the agent signed and handed to its peers

serviceVars == <<tracked, latest, calls, accepted, offered>>

ServiceTypeOK ==
    /\ tracked \subseteq Pipes
    /\ latest \in [Pipes -> State \cup {None}]
    /\ \A p \in Pipes : latest[p] # None => latest[p].pipe = p
    /\ calls \in [Calls -> Payloads \cup {None}]
    /\ accepted \subseteq Payloads
    /\ offered \subseteq State

ServiceInit ==
    /\ tracked = {}
    /\ latest = [p \in Pipes |-> None]
    /\ calls = [c \in Calls |-> None]
    /\ accepted = {}
    /\ offered = {}

--------------------------------------------------------------------------------

\* getTrackedPipe
IsTracked(p) == p \in tracked

\* trackPipe
Track(p) ==
    /\ tracked' = tracked \cup {p}
    /\ UNCHANGED <<latest, calls, accepted, offered>>

\* Mutant: the last write wins.
UpsertAlways(s) == latest' = [latest EXCEPT ![s.pipe] = s]

\* upsertSignatureState: an older state is dropped, one with the same nonce replaces.
Upsert(s) ==
    LET old == latest[s.pipe]
    IN latest' = IF old # None /\ s.nonce < old.nonce
                 THEN latest ELSE [latest EXCEPT ![s.pipe] = s]

\* What the checks compare the next state with.
Current(p) == IF latest[p] = None THEN Base ELSE latest[p]

\* The next nonce, the same total, and nothing taken from the agent.
Continues(s, old) ==
    /\ s.nonce = old.nonce + 1
    /\ s.my + s.their = old.my + old.their
    /\ s.my >= old.my
    /\ s.their <= old.their

\* validateIncomingTransfer: nothing is compared while there is no state.
Valid(s) ==
    /\ IsTracked(s.pipe)
    /\ s.actor = "peer"
    /\ latest[s.pipe] # None => Continues(s, latest[s.pipe])

\* acceptIncomingTransfer up to the wallet's answer.
BeginAccept(c, s) ==
    /\ calls[c] = None
    /\ Valid(s)
    /\ calls' = [calls EXCEPT ![c] = s]
    /\ UNCHANGED <<tracked, latest, accepted, offered>>

\* Mutant: the signature is handed out and the state is not stored.
FinishUnstored(c) ==
    /\ calls[c] # None
    /\ calls' = [calls EXCEPT ![c] = None]
    /\ accepted' = accepted \cup {calls[c]}
    /\ UNCHANGED <<tracked, latest, offered>>

\* The wallet signed: the state is stored and the signature returned, whatever the
\* store answered.
FinishAccept(c) ==
    /\ calls[c] # None
    /\ calls' = [calls EXCEPT ![c] = None]
    /\ Upsert(calls[c])
    /\ accepted' = accepted \cup {calls[c]}
    /\ UNCHANGED <<tracked, offered>>

\* The wallet tool failed for one call, or the process ended and took them all.
AbandonAccepts(C) ==
    /\ \A c \in C : calls[c] # None
    /\ calls' = [c \in Calls |-> IF c \in C THEN None ELSE calls[c]]
    /\ UNCHANGED <<tracked, latest, accepted, offered>>

\* buildOutgoingTransfer and signTransferMessage: nothing is stored.
Offer(p, amount) ==
    LET now == Current(p)
    IN /\ IsTracked(p)
       /\ now.my >= amount
       /\ now.nonce < MaxNonce
       /\ offered' = offered \cup
            {[pipe |-> p, nonce |-> now.nonce + 1, my |-> now.my - amount,
              their |-> now.their + amount, actor |-> "local", beneficialOnly |-> FALSE]}
       /\ UNCHANGED <<tracked, latest, calls, accepted>>

\* recordSignedState, once the peer countersigned an offer.
RecordSigned(s) ==
    /\ s \in offered
    /\ Upsert(s)
    /\ UNCHANGED <<tracked, calls, accepted, offered>>

ServiceNext ==
    \/ \E p \in Pipes : Track(p)
    \/ \E c \in Calls, s \in Payloads : BeginAccept(c, s)
    \/ \E c \in Calls : FinishAccept(c)
    \/ \E C \in (SUBSET Calls) \ {{}} : AbandonAccepts(C)
    \/ \E p \in Pipes, a \in Amounts : Offer(p, a)
    \/ \E s \in offered : RecordSigned(s)

ServiceSpec == ServiceInit /\ [][ServiceNext]_serviceVars

--------------------------------------------------------------------------------
(* Properties *)

\* A transfer that was answered with a signature is in the store, or a state with at
\* least its nonce is: the agent always holds something to dispute an older one with.
AcceptedCovered ==
    \A s \in accepted : latest[s.pipe] # None /\ latest[s.pipe].nonce >= s.nonce

\* The stored nonce of a pipe never falls, and a state is replaced only by an offer or
\* by a transfer of the peer that some call validated.
StoredNoncesRise ==
    [][\A p \in Pipes : latest[p] # None =>
          latest'[p] # None /\ latest'[p].nonce >= latest[p].nonce]_serviceVars

\* "counterparty-actor updates must not reduce local balance"
PeerUpdatesKeepBalance ==
    [][\A p \in Pipes :
          latest[p] # None /\ latest'[p] # latest[p] /\ latest'[p].actor = "peer"
            => latest'[p].my >= latest[p].my]_serviceVars

================================================================================
