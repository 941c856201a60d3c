------------------------------- MODULE Forwarding -------------------------------
(***************************************************************************)
(* Routed payments through a stackflow node: the endpoints                 *)
(* /forwarding/transfer and /forwarding/reveal of server/src/index.ts with *)
(* ForwardingService of server/src/forwarding-service.ts, the propagation  *)
(* of a revealed secret to the previous hop with its background retries,   *)
(* and the tables forwarding_payments and revealed_secrets.                *)
(*                                                                         *)
(* All payments come in through one pipe.  Calls are served concurrently;  *)
(* a stretch between two awaits (the next hop, the signing, the previous   *)
(* hop) is an action.  A request whose idempotency key was answered is     *)
(* replayed without effect and left out, as are the answers of errors that *)
(* change nothing.                                                         *)
(***************************************************************************)
EXTENDS Integers

CONSTANTS
    Payments,       \* payment ids
    Hashes,         \* hashed secrets
    Requests,       \* bodies of /forwarding/transfer that peers send
    Transfers,      \* bound: calls of /forwarding/transfer in progress
    Reveals,        \* bound: calls of /forwarding/reveal in progress
    Retry,          \* the background retry, a caller like those of Reveals
    MaxAttempts,    \* STACKFLOW_NODE_FORWARDING_REVEAL_RETRY_MAX_ATTEMPTS
    MaxRestarts,    \* bound: restarts
    None            \* null, an absent row

ASSUME RequestAssumption ==
    /\ Requests \subseteq [id : Payments, hash : Hashes, nonce : Nat, upstream : BOOLEAN]
    /\ MaxAttempts \in Nat \ {0}
    /\ Retry \notin Reveals
    /\ None \notin Nat \cup Requests

VARIABLES
    payments,       \* table forwarding_payments
    secrets,        \* table revealed_secrets
    stored,         \* the incoming state in signature_states
    transfers,      \* calls of /forwarding/transfer in progress
    propagations,   \* rows being propagated, by call of /forwarding/reveal or retry
    due,            \* rows the retry pass has still to do; None when none is running
    hopSigned,      \* requests that the next hop signed
    released,       \* requests answered with our signature of the incoming state
    told,           \* secrets the previous hop has received
    confirmed,      \* secrets of reveals that were answered with 200
    restarts

tables == <<payments, secrets, stored>>
world == <<hopSigned, released, told, confirmed, restarts>>
vars == <<tables, transfers, propagations, due, world>>

Callers == Reveals \cup {Retry}
Idle == [phase |-> "idle"]

Row == [status : {"completed", "failed"}, hash : Hashes, nonce : Nat \cup {None},
        revealed : BOOLEAN, upstream : BOOLEAN,
        propagation : {"pending", "propagated", "failed", "not-applicable"},
        attempts : 0..MaxAttempts, scheduled : BOOLEAN]    \* revealNextRetryAt is set

Init ==
    /\ payments = [p \in Payments |-> None]
    /\ secrets = {}
    /\ stored = None
    /\ transfers = [t \in Transfers |-> Idle]
    /\ propagations = [c \in Callers |-> None]
    /\ due = None
    /\ hopSigned = {} /\ released = {} /\ told = {} /\ confirmed = {}
    /\ restarts = 0

--------------------------------------------------------------------------------
(* The tables *)

Present(rows) == {p \in Payments : rows[p] # None}

\* Rows that name their pipe; a failed payment does not.
OfPipe(rows) == {p \in Present(rows) : rows[p].nonce # None}

\* Mutant: older rows stay.
KeepAll(rows, last) == rows

\* Of the rows of the pipe the one with the highest nonce stays, of equals the last.
KeepLatest(rows, last) ==
    LET best == {p \in OfPipe(rows) :
                    \A q \in OfPipe(rows) : rows[q].nonce <= rows[p].nonce}
        kept == IF last \in best THEN {last} ELSE best
    IN [p \in Payments |-> IF p \in OfPipe(rows) \ kept THEN None ELSE rows[p]]

\* Old rows without a pipe that are not pending may go.
DropOrphans(rows, last) ==
    LET orphans == {p \in Present(rows) \ {last} :
                       rows[p].nonce = None /\ rows[p].propagation # "pending"}
    IN {[p \in Payments |-> IF p \in gone THEN None ELSE rows[p]] : gone \in SUBSET orphans}

\* Mutant: the secret stays in the row only.
SecretsOfRowOnly(row) == secrets

\* syncRevealedSecret
SecretsWith(row) == IF row.revealed THEN secrets \cup {row.hash} ELSE secrets

\* setForwardingPayment
Save(id, row) ==
    LET rows == [payments EXCEPT ![id] = row]
    IN /\ IF row.nonce # None THEN payments' = KeepLatest(rows, id)
                              ELSE payments' \in DropOrphans(rows, id)
       /\ secrets' = SecretsWith(row)
       /\ UNCHANGED stored

--------------------------------------------------------------------------------
(* POST /forwarding/transfer *)

MoveTo(t, phase) == transfers' = [transfers EXCEPT ![t].phase = phase]
End(t) == transfers' = [transfers EXCEPT ![t] = Idle]

StartTransfer(t, r) ==
    /\ transfers[t] = Idle
    /\ transfers' = [transfers EXCEPT ![t] = [phase |-> "asking", request |-> r]]
    /\ UNCHANGED <<tables, propagations, due, world>>

\* The next hop signs; its answer is on the way.
HopSigns(t) ==
    /\ transfers[t].phase = "asking"
    /\ hopSigned' = hopSigned \cup {transfers[t].request}
    /\ MoveTo(t, "answered")
    /\ UNCHANGED <<tables, propagations, due, released, told, confirmed, restarts>>

FailedRow(r) ==
    [status |-> "failed", hash |-> r.hash, nonce |-> None, revealed |-> FALSE,
     upstream |-> FALSE, propagation |-> "not-applicable", attempts |-> 0,
     scheduled |-> FALSE]

\* The request is refused, or the next hop refuses, fails or does not answer in time,
\* whether it signed or not.
FailTransfer(t) ==
    /\ transfers[t].phase \in {"asking", "answered"}
    /\ Save(transfers[t].request.id, FailedRow(transfers[t].request))
    /\ End(t)
    /\ UNCHANGED <<propagations, due, world>>

Newer(r) == stored # None => r.nonce > stored.nonce

\* Mutant: our state is signed while the next hop is asked.
BeginSigningEarly(t) ==
    /\ transfers[t].phase \in {"asking", "answered"}
    /\ IF Newer(transfers[t].request) THEN MoveTo(t, "signing") ELSE End(t)
    /\ UNCHANGED <<tables, propagations, due, world>>

\* signTransfer checks its policy; a refusal is answered without a row.
BeginSigning(t) ==
    /\ transfers[t].phase = "answered"
    /\ IF Newer(transfers[t].request) THEN MoveTo(t, "signing") ELSE End(t)
    /\ UNCHANGED <<tables, propagations, due, world>>

FailSigning(t) ==
    /\ transfers[t].phase = "signing"
    /\ End(t)
    /\ UNCHANGED <<tables, propagations, due, world>>

CompletedRow(r) ==
    [status |-> "completed", hash |-> r.hash, nonce |-> r.nonce, revealed |-> FALSE,
     upstream |-> r.upstream,
     propagation |-> IF r.upstream THEN "pending" ELSE "not-applicable",
     attempts |-> 0, scheduled |-> FALSE]

\* signTransfer stores the state if its nonce is still the highest; the payment is
\* completed and answered in any case.
CompleteTransfer(t) ==
    LET r == transfers[t].request
        rows == [payments EXCEPT ![r.id] = CompletedRow(r)]
    IN /\ transfers[t].phase = "signing"
       /\ stored' = IF Newer(r) THEN r ELSE stored
       /\ payments' = KeepLatest(rows, r.id)
       /\ released' = released \cup {r}
       /\ End(t)
       /\ UNCHANGED <<secrets, propagations, due, hopSigned, told, confirmed, restarts>>

--------------------------------------------------------------------------------
(* POST /forwarding/reveal and the propagation to the previous hop *)

\* A secret that matches is stored, then passed on or answered at once.
Reveal(c, p) ==
    LET row == [payments[p] EXCEPT !.revealed = TRUE]
        settled == [row EXCEPT !.propagation = "not-applicable", !.scheduled = FALSE]
    IN /\ propagations[c] = None
       /\ payments[p] # None
       /\ IF row.upstream /\ row.propagation # "propagated"
          THEN /\ Save(p, row)
               /\ propagations' = [propagations EXCEPT ![c] = [id |-> p, row |-> row, told |-> FALSE]]
               /\ UNCHANGED confirmed
          ELSE /\ Save(p, IF row.upstream THEN row ELSE settled)
               /\ confirmed' = confirmed \cup {row.hash}
               /\ UNCHANGED propagations
       /\ UNCHANGED <<transfers, due, hopSigned, released, told, restarts>>

\* The previous hop takes the secret; its answer is on the way.
UpstreamAccepts(c) ==
    /\ propagations[c] # None
    /\ ~propagations[c].told
    /\ told' = told \cup {propagations[c].row.hash}
    /\ propagations' = [propagations EXCEPT ![c].told = TRUE]
    /\ UNCHANGED <<tables, transfers, due, hopSigned, released, confirmed, restarts>>

\* Reveals may go on after the limit; the count is not followed further.
Attempt(row) == IF row.attempts < MaxAttempts THEN row.attempts + 1 ELSE MaxAttempts

\* Mutant: the attempts are not limited.
OutcomeUnlimited(row, success) ==
    [row EXCEPT !.propagation = IF success THEN "propagated" ELSE "pending",
                !.scheduled = ~success]

\* The row as read before the call, with the outcome of the attempt.
Outcome(row, success) ==
    LET again == ~success /\ Attempt(row) < MaxAttempts
    IN [row EXCEPT !.attempts = Attempt(row),
                   !.propagation = CASE success -> "propagated"
                                     [] again -> "pending"
                                     [] OTHER -> "failed",
                   !.scheduled = again]

Propagated(c, success) ==
    LET call == propagations[c]
    IN /\ call # None
       /\ success => call.told
       /\ Save(call.id, Outcome(call.row, success))
       /\ propagations' = [propagations EXCEPT ![c] = None]
       /\ confirmed' = IF c \in Reveals THEN confirmed \cup {call.row.hash} ELSE confirmed
       /\ UNCHANGED <<transfers, due, hopSigned, released, told, restarts>>

\* runRevealRetryPass: every row with a retry comes due.
StartPass ==
    LET scheduled == {p \in Present(payments) :
                         payments[p].propagation = "pending" /\ payments[p].scheduled}
    IN /\ due = None
       /\ scheduled # {}
       /\ due' = {[id |-> p, row |-> payments[p], told |-> FALSE] : p \in scheduled}
       /\ UNCHANGED <<tables, transfers, propagations, world>>

\* The next row of the pass, as it was when the pass began.
RetryNext ==
    /\ due \notin {None, {}}
    /\ propagations[Retry] = None
    /\ \E d \in due :
          /\ due' = due \ {d}
          /\ IF d.row.revealed
             THEN propagations' = [propagations EXCEPT ![Retry] = d] /\ UNCHANGED tables
             ELSE /\ Save(d.id, [d.row EXCEPT !.propagation = "failed", !.scheduled = FALSE,
                                              !.attempts = Attempt(d.row)])
                  /\ UNCHANGED propagations
    /\ UNCHANGED <<transfers, world>>

EndPass ==
    /\ due = {}
    /\ propagations[Retry] = None
    /\ due' = None
    /\ UNCHANGED <<tables, transfers, propagations, world>>

--------------------------------------------------------------------------------

Restart ==
    /\ restarts < MaxRestarts
    /\ restarts' = restarts + 1
    /\ transfers' = [t \in Transfers |-> Idle]
    /\ propagations' = [c \in Callers |-> None]
    /\ due' = None
    /\ UNCHANGED <<tables, hopSigned, released, told, confirmed>>

ServeTransfer(t) ==
    \/ \E r \in Requests : StartTransfer(t, r)
    \/ HopSigns(t) \/ FailTransfer(t) \/ BeginSigning(t) \/ FailSigning(t)
    \/ CompleteTransfer(t)

EndCall(c) == Propagated(c, TRUE) \/ Propagated(c, FALSE)

Next ==
    \/ \E t \in Transfers : ServeTransfer(t)
    \/ \E c \in Reveals, p \in Payments : Reveal(c, p)
    \/ \E c \in Callers : UpstreamAccepts(c) \/ EndCall(c)
    \/ StartPass \/ RetryNext \/ EndPass
    \/ Restart

\* The timer starts passes, and a call to the previous hop ends by its timeout.
Fairness ==
    /\ WF_vars(StartPass) /\ WF_vars(RetryNext) /\ WF_vars(EndPass)
    /\ \A c \in Callers : WF_vars(EndCall(c))

Spec == Init /\ [][Next]_vars /\ Fairness

--------------------------------------------------------------------------------
(* Properties *)

\* The rows, calls and the retry pass keep their types, at most one row names the pipe,
\* and a row is only scheduled for a retry while it is pending with its secret.
TypeOK ==
    /\ \A p \in Present(payments) :
          /\ payments[p] \in Row
          /\ payments[p].scheduled => payments[p].revealed /\ payments[p].propagation = "pending"
    /\ \A p, q \in OfPipe(payments) : p = q
    /\ secrets \subseteq Hashes
    /\ stored \in Requests \cup {None}
    /\ \A t \in Transfers : transfers[t] # Idle => transfers[t].request \in Requests
    /\ \A c \in Callers : propagations[c] # None => propagations[c].row.revealed

\* A secret that the node confirmed, or passed on, can be found for a dispute ever after,
\* whatever becomes of the payment's row: overwritten, pruned, or lost in a crash.
SecretsResolve == confirmed \cup told \subseteq secrets

\* The node signs the incoming payment, which it gains, only when the next hop has signed
\* the outgoing one: nobody's payment ends at this node.
SignedAfterNextHop == released \subseteq hopSigned

\* A retry that is scheduled does not stay so: the secret arrives or the attempts run out.
RetriesEnd ==
    \A p \in Payments :
        (payments[p] # None /\ payments[p].scheduled)
            ~> ~(payments[p] # None /\ payments[p].scheduled)

\* "background retries resume automatically on process restart": a revealed secret that
\* is to be passed on does not stay pending.
RevealsResume ==
    \A p \in Payments :
        (payments[p] # None /\ payments[p].revealed /\ payments[p].propagation = "pending")
            ~> ~(payments[p] # None /\ payments[p].revealed /\ payments[p].propagation = "pending")

\* "reject if nonce is not strictly higher than latest known nonce": of two states with
\* the same nonce only one is answered with our signature.
OneStatePerNonce == \A r, s \in released : r.nonce = s.nonce => r = s

================================================================================
