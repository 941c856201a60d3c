------------------------------ MODULE X402Gateway ------------------------------
(***************************************************************************)
(* The HTTP gateway that serves a protected resource against payment,       *)
(* server/src/x402-gateway.ts, in front of the signing service of the node. *)
(*                                                                         *)
(* A request carries a payment proof.  A direct proof is a signed transfer  *)
(* that the gateway hands to /counterparty/transfer under an idempotency    *)
(* key made of the proof and the route.  An indirect proof names a          *)
(* forwarded payment whose secret the gateway reveals.  Once the node       *)
(* accepts, the request is proxied, and once the upstream answered, the     *)
(* proof is remembered as used, in memory and for a while.                  *)
(*                                                                         *)
(* Every await (the node, a poll, the upstream) is a point where other      *)
(* requests come between, a time-out ends the request, or a process stops.  *)
(* Paths other than the protected one are proxied and change nothing here.  *)
(***************************************************************************)
EXTENDS CounterpartyService, FiniteSets

CONSTANTS
    Calls,          \* HTTP requests in service at the same time
    Routes,         \* method, path and query of requests for the protected resource
    Proofs,         \* payment proofs that clients can build
    Payments,       \* forwarded payments
    Price,          \* configured price
    MaxTroubles     \* bound: time-outs, upstream failures and restarts

DirectProofs == [mode : {"direct"}, state : States, amount : Nat]
IndirectProofs == [mode : {"indirect"}, payment : Payments, secretOk : BOOLEAN,
                   fromOk : BOOLEAN]

\* buildProofHash
ProofHash(route, x) == <<route, x>>
Hashes == Routes \X Proofs

ASSUME GatewayAssumption ==
    /\ Proofs \subseteq DirectProofs \cup IndirectProofs
    /\ Hashes \subseteq Keys
    /\ None \notin Proofs
    /\ Price \in Nat /\ MaxTroubles \in Nat

VARIABLES
    calls,      \* the gateway's side of each request
    consumed,   \* consumedProofs
    forwarding, \* rows of forwarding_payments as the gateway finds them
    revealed,   \* payments whose secret the node knows
    served,     \* history: routes the upstream answered, with the proofs they were paid by
    troubles    \* failures so far

gatewayVars == <<calls, consumed, forwarding, revealed, served, troubles>>
allVars == <<vars, gatewayVars>>

Answers == {"served", "402", "502"}
NoCall == [phase |-> "idle"]

GatewayInit ==
    /\ Init
    /\ calls = [g \in Calls |-> NoCall]
    /\ consumed = {}
    /\ forwarding = [p \in Payments |-> "absent"]
    /\ revealed = {}
    /\ served = {}
    /\ troubles = 0

--------------------------------------------------------------------------------

HashOf(g) == ProofHash(calls[g].route, calls[g].proof)
Answered(status) == [phase |-> status]
Answer402(g) == calls' = [calls EXCEPT ![g] = Answered("402")]
Answer502(g) == calls' = [calls EXCEPT ![g] = Answered("502")]
Phase(g, phase) == calls' = [calls EXCEPT ![g].phase = phase]
Waits(call, phase, r) == [call EXCEPT !.phase = phase, !.request = r]
Trouble == troubles < MaxTroubles /\ troubles' = troubles + 1
Elsewhere == UNCHANGED <<consumed, forwarding, revealed, served>>

\* buildGatewayPaymentProof: a direct proof names an amount of at least the price.
WellFormed(x) ==
    x.mode = "direct" => x.amount >= Price /\ x.state.action = "transfer"

\* A request arrives.  The price is compared with the amount the proof names, not with
\* what its balances pay.
Arrive(g, route, x) ==
    /\ calls[g] = NoCall
    /\ IF x = None \/ ~WellFormed(x) \/ ProofHash(route, x) \in consumed
       THEN Answer402(g)
       ELSE calls' = [calls EXCEPT ![g] =
              [phase |-> IF x.mode = "direct" THEN "paying" ELSE "polling",
               route |-> route, proof |-> x, request |-> None]]
    /\ Elsewhere /\ UNCHANGED <<vars, troubles>>

Paying(g) == calls[g].phase = "paying"

\* Mutant: any answer of the node is taken for a yes.
AcceptsAny(answer) == TRUE

\* 2xx and ok.
Accepts(answer) == answer.status = 200

\* callStackflowCounterpartyTransfer: the node knows the key and answers at once,
NodeReplays(g) ==
    /\ Paying(g)
    /\ Replay(HashOf(g), calls[g].proof.state)
    /\ IF Accepts(answers[Slot(calls[g].proof.state, HashOf(g))])
       THEN Phase(g, "proxying") ELSE Answer402(g)
    /\ Elsewhere /\ UNCHANGED troubles

\* or takes the request,
NodeTakes(g, r) ==
    /\ Paying(g)
    /\ Accept(r, HashOf(g), calls[g].proof.state)
    /\ calls' = [calls EXCEPT ![g] = Waits(calls[g], "waiting", r)]
    /\ Elsewhere /\ UNCHANGED troubles

\* or has no room for another write of this peer.
NodeRefuses(g) ==
    /\ Paying(g)
    /\ writes = WriteLimit /\ answers[Slot(calls[g].proof.state, HashOf(g))] = None
    /\ Answer402(g)
    /\ Elsewhere /\ UNCHANGED <<vars, troubles>>

\* The node works on request r; when it ends, the call that waits for it goes on.
NodeWorks(r) ==
    /\ Check(r) \/ Verify(r) \/ Sign(r) \/ Store(r) \/ Respond(r)
    /\ calls' = [g \in Calls |->
         IF calls[g].phase = "waiting" /\ calls[g].request = r /\ requests'[r] = Idle
         THEN IF requests[r].phase = "stored" /\ Accepts(requests[r].answer)
              THEN Waits(calls[g], "proxying", None)
              ELSE Answered("402")
         ELSE calls[g]]
    /\ Elsewhere /\ UNCHANGED troubles

\* A time-out or a failed connection: the node goes on.
GiveUp(g) ==
    /\ calls[g].phase \in {"paying", "waiting", "polling", "revealing"}
    /\ Trouble /\ Answer502(g)
    /\ Elsewhere /\ UNCHANGED vars

\* fetchForwardingPayment
Lookup(x) == forwarding[x.payment]

\* waitForIndirectPayment finds the row; without one it asks again until the time-out.
PaymentFound(g) ==
    /\ calls[g].phase = "polling"
    /\ Lookup(calls[g].proof) # "absent"
    /\ IF Lookup(calls[g].proof) = "completed" /\ calls[g].proof.fromOk
       THEN Phase(g, "revealing") ELSE Answer502(g)
    /\ Elsewhere /\ UNCHANGED <<vars, troubles>>

\* callStackflowForwardingReveal: the node takes the right secret, any number of times.
RevealSecret(g) ==
    /\ calls[g].phase = "revealing"
    /\ IF calls[g].proof.secretOk
       THEN revealed' = revealed \cup {calls[g].proof.payment} /\ Phase(g, "proxying")
       ELSE UNCHANGED revealed /\ Answer402(g)
    /\ UNCHANGED <<consumed, forwarding, served, vars, troubles>>

\* proxyToUpstream answered: only now the proof is used.
Proxied(g) ==
    /\ calls[g].phase = "proxying"
    /\ consumed' = consumed \cup {HashOf(g)}
    /\ served' = served \cup {<<calls[g].route, calls[g].proof>>}
    /\ calls' = [calls EXCEPT ![g] = Answered("served")]
    /\ UNCHANGED <<forwarding, revealed, vars, troubles>>

\* The upstream does not answer in time: the proof stays good for another try.
UpstreamFails(g) ==
    /\ calls[g].phase = "proxying"
    /\ Trouble /\ Answer502(g)
    /\ Elsewhere /\ UNCHANGED vars

\* pruneConsumedProofs
Expire(h) ==
    /\ h \in consumed
    /\ consumed' = consumed \ {h}
    /\ UNCHANGED <<calls, forwarding, revealed, served, vars, troubles>>

\* The gateway restarts: its memory and its connections are gone.
GatewayRestart ==
    /\ Trouble
    /\ consumed' = {}
    /\ calls' = [g \in Calls |->
         IF calls[g].phase \in {"idle"} \cup Answers THEN calls[g]
         ELSE Answered("502")]
    /\ UNCHANGED <<forwarding, revealed, served, vars>>

\* The node restarts under the gateway.
NodeRestart ==
    /\ Trouble
    /\ Restart
    /\ calls' = [g \in Calls |->
         IF calls[g].phase = "waiting" THEN Answered("502") ELSE calls[g]]
    /\ Elsewhere

\* A payment is forwarded to the node, or fails on the way.
Forward(p) ==
    /\ forwarding[p] = "absent"
    /\ \E outcome \in {"completed", "failed"} :
          forwarding' = [forwarding EXCEPT ![p] = outcome]
    /\ UNCHANGED <<calls, consumed, revealed, served, vars, troubles>>

\* The node's own events.
NodeAlone ==
    /\ \/ \E o \in Observations : Observe(o)
       \/ \E k \in Slots : Prune(k)
       \/ NewWindow
    /\ UNCHANGED gatewayVars

\* The client has its answer.
Delivered(g) ==
    /\ calls[g].phase \in Answers
    /\ calls' = [calls EXCEPT ![g] = NoCall]
    /\ Elsewhere /\ UNCHANGED <<vars, troubles>>

Handle(g) ==
    \/ NodeReplays(g) \/ NodeRefuses(g) \/ \E r \in Requests : NodeTakes(g, r)
    \/ GiveUp(g) \/ PaymentFound(g) \/ RevealSecret(g) \/ Proxied(g) \/ UpstreamFails(g)

GatewayNext ==
    \/ \E g \in Calls, route \in Routes, x \in Proofs \cup {None} : Arrive(g, route, x)
    \/ \E g \in Calls : Handle(g) \/ Delivered(g)
    \/ \E r \in Requests : NodeWorks(r)
    \/ \E h \in Hashes : Expire(h)
    \/ \E p \in Payments : Forward(p)
    \/ GatewayRestart \/ NodeRestart \/ NodeAlone

GatewaySpec == GatewayInit /\ [][GatewayNext]_allVars

--------------------------------------------------------------------------------
(* Properties *)

Direct(h) == h[2].mode = "direct"

\* A direct proof is paid when the node answered this very request with the proof's state
\* stored, an indirect one when it knows the secret of a payment that arrived.
Paid(h) ==
    IF Direct(h)
    THEN \E a \in released : a.key = h /\ a.answer.status = 200 /\ a.answer.state = h[2].state
    ELSE h[2].payment \in revealed /\ forwarding[h[2].payment] = "completed"

\* Nothing is served unpaid, whatever the gateway forgets and whoever restarts.
ServedWasPaid == \A h \in served : Paid(h)

\* A transfer pays for one route: the same signed state under another route, or with
\* another amount named, is refused, although the gateway forgets and restarts.
OneRoutePerTransfer ==
    \A h, k \in served : Direct(h) /\ Direct(k) /\ h[2].state = k[2].state => h = k

\* "one-time proof consumption per method/path within replay TTL": what is proxied is not
\* paid for by a proof that is marked as used.
ServedOncePerTTL ==
    [][\A g \in Calls :
          calls[g].phase = "proxying" /\ calls'[g].phase = "served" => HashOf(g) \notin consumed]_allVars

================================================================================
