-------------------------- MODULE CounterpartyService --------------------------
(***************************************************************************)
(* The signing service of the stackflow node for one of its pipes:         *)
(* CounterpartyService.signState of server/src/counterparty-service.ts     *)
(* behind the endpoints /counterparty/transfer and                         *)
(* /counterparty/signature-request of server/src/index.ts, with the rows   *)
(* of the sqlite store they read and write.                                *)
(*                                                                         *)
(* Requests are served concurrently.  Each await of the code (the signer,  *)
(* the read-only call that verifies the peer's signature, the signing, the *)
(* upsert) is a point where other requests, chain events or a crash come   *)
(* between, so each stretch between two awaits is an action.               *)
(*                                                                         *)
(* A state sent to /signature-states carries a signature of ours, so it     *)
(* was released before and cannot replace the stored one.                  *)
(*                                                                         *)
(* The verification is left open: it accepts or rejects at will.  Error    *)
(* answers that change nothing (429, 401, 403, 409 before the upsert) just *)
(* end the request.                                                        *)
(***************************************************************************)
EXTENDS Integers

CONSTANTS
    Requests,       \* requests in service at the same time
    Keys,           \* idempotency keys peers use
    States,         \* signed states that peers ask for
    Observations,   \* what the chain events may show of the pipe
    None,           \* an absent row
    WriteLimit      \* writes of a peer per window (0 in the code: no limit, not modelled)

Actions == {"transfer", "close", "deposit", "withdraw"}

ASSUME StateAssumption ==
    /\ States \subseteq [nonce : Nat, my : Nat, their : Nat, action : Actions]
    /\ Observations \subseteq [nonce : Nat, my : Nat, their : Nat]
    /\ None \notin States \cup Observations
    /\ WriteLimit \in Nat \ {0}

VARIABLES
    stored,      \* row of signature_states of the pipe for this counterparty
    observed,    \* row of observed_pipes
    newer,       \* the one of the two with the later updatedAt
    answers,     \* table idempotent_responses
    requests,    \* the requests in service
    writes,      \* writes counted in the current rate-limit window
    released     \* answers that left the server with a signature of ours

vars == <<stored, observed, newer, answers, requests, writes, released>>

Endpoints == {"transfer", "signature-request"}
Endpoint(s) == IF s.action = "transfer" THEN "transfer" ELSE "signature-request"

\* The primary key of idempotent_responses.
Slots == Endpoints \X Keys
Slot(s, key) == <<Endpoint(s), key>>

\* An answer to request payload s: 200 with s itself, or 409 with the state that was there.
Answer == [payload : States, status : {200, 409}, state : States]

Phases == {"accepted", "checked", "verified", "signed", "stored"}
Idle == [phase |-> "idle"]
Request == [phase : Phases, key : Keys, state : States, answer : Answer \cup {None}]

TypeOK ==
    /\ stored \in States \cup {None}
    /\ observed \in Observations \cup {None}
    /\ newer \in {"onchain", "signature-state"}
    /\ answers \in [Slots -> Answer \cup {None}]
    /\ \A r \in Requests : requests[r] = Idle \/ requests[r] \in Request
    /\ DOMAIN requests = Requests
    /\ writes \in 0..WriteLimit
    /\ released \subseteq [key : Keys, answer : Answer]

Init ==
    /\ stored = None
    /\ observed = None
    /\ newer = "onchain"
    /\ answers = [k \in Slots |-> None]
    /\ requests = [r \in Requests |-> Idle]
    /\ writes = 0
    /\ released = {}

--------------------------------------------------------------------------------
(* The signing policy *)

\* The state the policy compares with: the higher nonce, else the later update.
Baseline ==
    IF observed = None THEN stored
    ELSE IF stored = None \/ observed.nonce > stored.nonce THEN observed
    ELSE IF observed.nonce < stored.nonce THEN stored
    ELSE IF newer = "onchain" THEN observed ELSE stored

PolicyAllows(s) ==
    /\ Baseline # None
    /\ s.nonce > Baseline.nonce
    /\ s.my >= Baseline.my
    /\ s.action = "transfer" =>
         /\ s.my > Baseline.my
         /\ s.my + s.their = Baseline.my + Baseline.their

--------------------------------------------------------------------------------
(* Serving a request *)

MoveTo(r, phase) == requests' = [requests EXCEPT ![r].phase = phase]
End(r) == requests' = [requests EXCEPT ![r] = Idle]

\* A payload whose key was answered before: the answer is sent again.
Replay(key, s) ==
    /\ answers[Slot(s, key)] # None
    /\ answers[Slot(s, key)].payload = s
    /\ released' = released \cup {[key |-> key, answer |-> answers[Slot(s, key)]]}
    /\ UNCHANGED <<stored, observed, newer, answers, requests, writes>>

\* Mutant: writes are counted but not limited.
AcceptUnlimited(r, key, s) ==
    /\ requests[r] = Idle
    /\ answers[Slot(s, key)] = None
    /\ writes' = writes + 1
    /\ requests' = [requests EXCEPT ![r] =
                      [phase |-> "accepted", key |-> key, state |-> s, answer |-> None]]
    /\ UNCHANGED <<stored, observed, newer, answers, released>>

\* An unknown key within the rate limit.
Accept(r, key, s) ==
    /\ requests[r] = Idle
    /\ answers[Slot(s, key)] = None
    /\ writes < WriteLimit
    /\ writes' = writes + 1
    /\ requests' = [requests EXCEPT ![r] =
                      [phase |-> "accepted", key |-> key, state |-> s, answer |-> None]]
    /\ UNCHANGED <<stored, observed, newer, answers, released>>

\* enforceSigningPolicy, once the signer is ready.
Check(r) ==
    /\ requests[r].phase = "accepted"
    /\ IF PolicyAllows(requests[r].state) THEN MoveTo(r, "checked") ELSE End(r)
    /\ UNCHANGED <<stored, observed, newer, answers, writes, released>>

\* The answer of verifyCounterpartySignature.
Verify(r) ==
    /\ requests[r].phase = "checked"
    /\ MoveTo(r, "verified") \/ End(r)
    /\ UNCHANGED <<stored, observed, newer, answers, writes, released>>

\* The signer may fail (a KMS that does not answer).
Sign(r) ==
    /\ requests[r].phase = "verified"
    /\ MoveTo(r, "signed") \/ End(r)
    /\ UNCHANGED <<stored, observed, newer, answers, writes, released>>

\* Mutant: an equal nonce replaces.
UpsertsLoose(s) == stored # None => s.nonce >= stored.nonce

Upserts(s) == stored # None => s.nonce > stored.nonce

\* upsertSignatureState: one synchronous stretch, so the comparison and the write are
\* atomic.  Written in the same millisecond as the observation, the row is not newer.
Store(r) ==
    LET s == requests[r].state
        answer == IF Upserts(s)
                  THEN [payload |-> s, status |-> 200, state |-> s]
                  ELSE [payload |-> s, status |-> 409, state |-> stored]
    IN /\ requests[r].phase = "signed"
       /\ requests' = [requests EXCEPT ![r].phase = "stored", ![r].answer = answer]
       /\ \/ Upserts(s) /\ stored' = s /\ newer' \in {"signature-state", newer}
          \/ ~Upserts(s) /\ UNCHANGED <<stored, newer>>
       /\ UNCHANGED <<observed, answers, writes, released>>

\* Mutant: the answer is recorded and sent before the state is stored.
RespondBeforeStore(r) ==
    LET s == requests[r].state
        answer == [payload |-> s, status |-> 200, state |-> s]
    IN /\ requests[r].phase = "signed"
       /\ answers' = [answers EXCEPT ![Slot(s, requests[r].key)] = answer]
       /\ released' = released \cup {[key |-> requests[r].key, answer |-> answer]}
       /\ UNCHANGED <<stored, observed, newer, requests, writes>>

\* Mutant: a later answer replaces the recorded one.
RecordLast(old, answer) == answer

\* INSERT OR IGNORE: the first answer of a key is kept.
Record(old, answer) == IF old = None THEN answer ELSE old

\* The answer goes to the idempotency table and to the peer.
Respond(r) ==
    LET q == requests[r]
    IN /\ q.phase = "stored"
       /\ answers' = [answers EXCEPT ![Slot(q.state, q.key)] = Record(@, q.answer)]
       /\ released' = released \cup {[key |-> q.key, answer |-> q.answer]}
       /\ End(r)
       /\ UNCHANGED <<stored, observed, newer, writes>>

--------------------------------------------------------------------------------
(* The world around it *)

\* A chain event or burn block updates the observed pipe.
Observe(o) ==
    /\ observed' = o
    /\ newer' = "onchain"
    /\ UNCHANGED <<stored, answers, requests, writes, released>>

\* The process restarts: what is in memory is lost.
Restart ==
    /\ requests' = [r \in Requests |-> Idle]
    /\ writes' = 0
    /\ UNCHANGED <<stored, observed, newer, answers, released>>

\* A recorded answer reaches the end of its retention.
Prune(k) ==
    /\ answers[k] # None
    /\ answers' = [answers EXCEPT ![k] = None]
    /\ UNCHANGED <<stored, observed, newer, requests, writes, released>>

\* A new rate-limit window.
NewWindow ==
    /\ writes > 0
    /\ writes' = 0
    /\ UNCHANGED <<stored, observed, newer, answers, requests, released>>

Serve(r) ==
    \/ \E key \in Keys, s \in States : Accept(r, key, s)
    \/ Check(r) \/ Verify(r) \/ Sign(r) \/ Store(r) \/ Respond(r)

Next ==
    \/ \E r \in Requests : Serve(r)
    \/ \E key \in Keys, s \in States : Replay(key, s)
    \/ \E o \in Observations : Observe(o)
    \/ \E k \in Slots : Prune(k)
    \/ NewWindow
    \/ Restart

Spec == Init /\ [][Next]_vars

--------------------------------------------------------------------------------
(* Properties *)

\* States that left the server with a signature of ours.
Released == {a.answer.state : a \in released}

\* For a nonce at most one state leaves the server signed, whatever requests race and
\* wherever it crashes: two of them could be enforced on chain against each other.
NoEquivocation == \A s, t \in Released : s.nonce = t.nonce => s = t

\* A state that was acknowledged is in the store, where a dispute finds it, until a
\* newer one replaces it; no crash between the store and the answer can lose it.
AcknowledgedKept ==
    \A s \in Released : stored # None /\ (stored = s \/ stored.nonce > s.nonce)

\* While it is kept, the recorded answer of a key does not change.
AnswersStay ==
    [][\A k \in Slots : answers[k] # None => answers'[k] \in {answers[k], None}]_vars

\* "reject if counterparty balance would decrease": our balance in the stored state
\* never falls from one state to the next.
BalanceNeverDecreases ==
    [][stored # None => stored'.my >= stored.my]_vars

\* "same idempotency-key + same payload replays the original response": two answers to
\* the same payload under the same key are the same.
OneAnswerPerKey ==
    \A a, b \in released :
        a.key = b.key /\ a.answer.payload = b.answer.payload => a.answer = b.answer

================================================================================
