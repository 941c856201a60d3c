------------------------------ MODULE SignedStates ------------------------------
(***************************************************************************)
(* The way of a signed state between the programs: it is signed on the      *)
(* console, the documentation page or by the agent, posted to the node or   *)
(* to the counterparty service, normalised, verified by a read-only call,   *)
(* stored, and in the end sent to the contract, by a person on the console  *)
(* or by the node in a dispute.  The messages are those of SignedMessages.  *)
(*                                                                         *)
(* The fields of a page may hold anything at each click, the signature      *)
(* fields any signature that exists.  A refused request changes nothing and *)
(* is no step.  The node runs with the verifier mode readonly and watches   *)
(* both principals; which of two concurrent requests is signed, and which   *)
(* state a closure calls for, is the matter of CounterpartyService and of   *)
(* StackflowNode.                                                           *)
(***************************************************************************)
EXTENDS SignedMessages, FiniteSets

CONSTANTS
    Forms,              \* what the fields of a page may say
    Preimages,          \* secrets behind the digests
    Contracts,          \* principals that are contracts
    ServiceKey,         \* the service's private key, local or in the KMS
    Configurations,     \* signer mode and STACKFLOW_NODE_COUNTERPARTY_PRINCIPAL
    MaxSigned, MaxCalls \* bounds

Fields == [me : Principals, with : Principals, actor : Principals, my : Nat, their : Nat,
           nonce : Nat, action : Close..Withdrawal, amount : Nat,
           secret : Nat \cup {None}, validAfter : Nat \cup {None}, version : STRING]

ASSUME StatesAssumption ==
    /\ Forms \subseteq Fields
    /\ \A form \in Forms : form.me # form.with
    /\ Preimages \subseteq Nat /\ Contracts \subseteq Principals
    /\ None \notin Principals
    /\ Configurations \subseteq [mode : {"local-key", "kms"}, keyed : BOOLEAN,
                                 principal : Principals \cup {None}]
    \* a contract principal names the service's key as its agent
    /\ \A config \in Configurations :
           config.principal \in Contracts => KeyOf[config.principal] = ServiceKey
    /\ MessageVersion = ContractVersion
    /\ MaxSigned \in Nat /\ MaxCalls \in Nat

VARIABLES
    signed,     \* every signature that was made
    issued,     \* history: what the service and the agent signed
    service,    \* the signer of the service: its configuration, and whom it signs for
    rows,       \* the node's signature states of the pipe, by forPrincipal
    tracked,    \* digests of forwarding payments
    revealed,   \* preimages in revealed_secrets
    calls       \* calls of the contract that were broadcast

vars == <<signed, issued, service, rows, tracked, revealed, calls>>

Init ==
    /\ signed = {} /\ issued = {} /\ tracked = {} /\ revealed = {} /\ calls = {}
    /\ rows = [p \in Principals |-> None]
    /\ service \in [config : Configurations, up : {FALSE}, principal : {None}]

\* The same state as the other side says it.
Mirror(s) == [s EXCEPT !.me = s.with, !.with = s.me, !.my = s.their, !.their = s.my]

-----------------------------------------------------------------------------
(* Start of the service, which the process waits for before it listens. *)

\* The address of the key is compared with a configured principal that is no contract.
AddressMatches(p) == p \in Contracts \/ KeyOf[p] = ServiceKey

\* createCounterpartySigner: without a key, or a key id, the service signs for nobody.
Enabled(config) == config.keyed

SignerPrincipal(config, p) ==
    IF config.principal = None THEN p \notin Contracts /\ KeyOf[p] = ServiceKey
                               ELSE p = config.principal

\* CounterpartyStateSigner's constructor, KmsCounterpartySigner.initialize.
Start(p) ==
    /\ ~service.up
    /\ Enabled(service.config) /\ SignerPrincipal(service.config, p) /\ AddressMatches(p)
    /\ service' = [service EXCEPT !.up = TRUE, !.principal = p]
    /\ UNCHANGED <<signed, issued, rows, tracked, revealed, calls>>

-----------------------------------------------------------------------------
(* Signing. *)

Sign(key, message) ==
    /\ Cardinality(signed) < MaxSigned
    /\ signed' = signed \cup {Signature(key, message)}

ConsoleSign(form) ==
    /\ Sign(KeyOf[form.me], ConsoleMessage(form))
    /\ UNCHANGED <<issued, service, rows, tracked, revealed, calls>>

PageSign(form) ==
    /\ Sign(KeyOf[form.me], PageMessage(form))
    /\ UNCHANGED <<issued, service, rows, tracked, revealed, calls>>

\* acceptIncomingTransfer: the peer's state, of which AgentService tells more.
AgentSign(form) ==
    /\ form.action = Transfer
    /\ Sign(KeyOf[form.me], AgentMessage(form))
    /\ issued' = issued \cup {[by |-> "agent", message |-> AgentMessage(form)]}
    /\ UNCHANGED <<service, rows, tracked, revealed, calls>>

-----------------------------------------------------------------------------
(* Payloads: a state, and the two fields that may hold a secret. *)

\* validAfter ? ... : null makes no condition of a condition at height zero.
DropZero(validAfter) == IF validAfter = 0 THEN None ELSE validAfter

ConsolePayload(form) ==
    [state |-> [form EXCEPT !.validAfter = DropZero(@)], hashedSecret |-> None,
     secret |-> form.secret]

\* The JSON of the page, which holds the digest, and of other clients that follow it.
PagePayload(form) == [state |-> form, hashedSecret |-> form.secret, secret |-> None]

Payloads(form) == {ConsolePayload(form), PagePayload(form)}

Conflict(payload) ==
    /\ payload.hashedSecret # None /\ payload.secret # None
    /\ payload.hashedSecret # payload.secret

-----------------------------------------------------------------------------
(* POST /signature-states *)

NodeSecret(payload) ==
    IF payload.state.action = Transfer /\ payload.hashedSecret # None
    THEN payload.hashedSecret ELSE payload.secret

VerifyOne(s, secret, signature, signer) ==
    IF s.action = Transfer THEN VerifySignature(s, signature, signer, secret)
                           ELSE VerifySignatureRequest(s, signature, signer, secret)

\* Mutant: the other side's signature is not verified.
VerifyMineOnly(s, secret, mine, theirs) == VerifyOne(s, secret, mine, s.me)

VerifySignatureState(s, secret, mine, theirs) ==
    VerifyOne(s, secret, mine, s.me) /\ VerifyOne(s, secret, theirs, s.with)

Newer(s) == rows[s.me] # None => s.nonce > rows[s.me].state.nonce

Upsert(s, secret, mine, theirs) ==
    rows' = IF Newer(s)
            THEN [rows EXCEPT ![s.me] = [state |-> s, secret |-> secret,
                                         mine |-> mine, theirs |-> theirs]]
            ELSE rows

Submit(payload, mine, theirs) ==
    LET s == payload.state IN
    /\ ~Conflict(payload)
    /\ VerifySignatureState(s, NodeSecret(payload), mine, theirs)
    /\ Upsert(s, NodeSecret(payload), mine, theirs)
    /\ UNCHANGED <<signed, issued, service, tracked, revealed, calls>>

-----------------------------------------------------------------------------
(* POST /counterparty/transfer and /counterparty/signature-request *)

\* Requests that are not transfers come with a preimage, if any.
ServiceSecret(payload) ==
    IF payload.hashedSecret # None THEN payload.hashedSecret
    ELSE IF payload.secret # None /\ payload.state.action # Transfer THEN Hash(payload.secret)
    ELSE payload.secret

Allowed(payload) ==
    /\ ~Conflict(payload)
    /\ payload.state.action # Transfer /\ payload.hashedSecret # None => payload.secret # None

\* The newest the service knows: the stored state, or the settled pipe.
KnownNonce(p) == IF rows[p] = None THEN PipeNonce ELSE rows[p].state.nonce

Policy(s) ==
    /\ s.nonce > KnownNonce(s.me)
    /\ rows[s.me] # None => s.my >= rows[s.me].state.my
    /\ s.action = Transfer /\ rows[s.me] # None =>
           /\ s.my > rows[s.me].state.my
           /\ s.my + s.their = rows[s.me].state.my + rows[s.me].state.their

\* verifyCounterpartyWithReadonly
ServiceVerifies(s, secret, theirs) ==
    /\ service.up /\ s.me = service.principal
    /\ VerifyOne(s, secret, theirs, s.with)

\* However the key is held, the signature is one that the contract recovers the key from.
OwnSignature(message) == Signature(ServiceKey, message)

\* The request is verified with what it was normalised to, and the same is signed and stored.
ServiceSign(payload, theirs) ==
    LET secret == ServiceSecret(payload)
        s == payload.state
        message == ServiceMessage([s EXCEPT !.secret = secret])
        mine == OwnSignature(message)
    IN  /\ Allowed(payload) /\ Policy(s)
        /\ ServiceVerifies(s, secret, theirs)
        /\ signed' = signed \cup {mine}
        /\ Cardinality(signed') <= MaxSigned + 1
        /\ issued' = issued \cup {[by |-> "service", message |-> message]}
        /\ Upsert(s, secret, mine, theirs)
        /\ UNCHANGED <<service, tracked, revealed, calls>>

-----------------------------------------------------------------------------
(* Calls of the contract. *)

Calls == {"close-pipe", "deposit", "withdraw", "force-close"}

ActionOf(name) ==
    CASE name = "close-pipe" -> Close [] name = "deposit" -> Deposit [] OTHER -> Withdrawal

Broadcast(call) ==
    /\ calls' = calls \cup {call}
    /\ UNCHANGED <<signed, issued, service, rows, tracked, revealed>>

\* What the console sends is what its fields say: all of it to force-close, and balances,
\* nonce and amount alone to the functions that have an action and an actor of their own.
Sent(name, form) ==
    IF name = "force-close" THEN form
    ELSE [form EXCEPT !.action = ActionOf(name), !.actor = form.me,
                      !.secret = None, !.validAfter = None]

ConsoleCall(name, form, mine, theirs) ==
    /\ mine.key = KeyOf[form.me] /\ theirs.key = KeyOf[form.with]
    /\ Broadcast([name |-> name, state |-> Sent(name, form), secret |-> Sent(name, form).secret,
                  mine |-> mine, theirs |-> theirs])

\* A payment is recorded with the digest that its incoming and outgoing states carry.
Track(b) ==
    /\ tracked' = tracked \cup {Hash(b)}
    /\ UNCHANGED <<signed, issued, service, rows, revealed, calls>>

Reveal(b) ==
    /\ Hash(b) \in tracked
    /\ revealed' = revealed \cup {b}
    /\ UNCHANGED <<signed, issued, service, rows, tracked, calls>>

\* Mutant: the dispute does not wait for the preimage.
AlwaysEligible(row) == TRUE

\* A state with the digest of a payment waits for the preimage.
Eligible(row) ==
    row.state.action = Transfer /\ row.secret \in tracked
        => \E b \in revealed : Hash(b) = row.secret

\* getRevealedSecretByHash(secret) ?? secret
Resolved(row) ==
    IF row.state.action = Transfer /\ \E b \in revealed : Hash(b) = row.secret
    THEN CHOOSE b \in revealed : Hash(b) = row.secret
    ELSE row.secret

Dispute(p) ==
    /\ rows[p] # None /\ Eligible(rows[p])
    /\ Broadcast([name |-> "dispute", state |-> rows[p].state, secret |-> Resolved(rows[p]),
                  mine |-> rows[p].mine, theirs |-> rows[p].theirs])

-----------------------------------------------------------------------------
Step ==
    \/ \E p \in Principals : Start(p) \/ Dispute(p)
    \/ \E form \in Forms : ConsoleSign(form) \/ PageSign(form) \/ AgentSign(form)
    \/ \E form \in Forms, mine, theirs \in signed :
           \/ \E payload \in Payloads(form) : Submit(payload, mine, theirs)
           \/ \E name \in Calls : ConsoleCall(name, form, mine, theirs)
    \/ \E form \in Forms, theirs \in signed :
           \E payload \in Payloads(Mirror(form)) : ServiceSign(payload, theirs)
    \/ \E b \in Preimages : Track(b) \/ Reveal(b)

\* A behaviour ends with its last call.
Next == Cardinality(calls) < MaxCalls /\ Step

Spec == Init /\ [][Next]_vars

-----------------------------------------------------------------------------
(* What the contract says to a call. *)
Stands(call) ==
    IF call.name \in {"force-close", "dispute"}
    THEN Closes(call.state, call.mine, call.theirs, call.secret)
    ELSE Agrees(call.state, ActionOf(call.name), call.mine, call.theirs)

\* A transfer that the node stored can be taken to the contract by whoever knows the
\* preimage: what parseSignatureStateInput or parseCounterpartySignRequest made of the
\* secret, what was verified with it and what was signed and stored agree with what
\* force-close and dispute-closure make of the preimage.
StoredTransfersEnforceable ==
    \A p \in Principals :
        rows[p] # None /\ rows[p].state.action = Transfer =>
            LET row == rows[p] IN
            /\ row.secret = None => Closes(row.state, row.mine, row.theirs, None)
            /\ \A b \in Preimages :
                   Hash(b) = row.secret => Closes(row.state, row.mine, row.theirs, b)

\* The service signs nothing that the other side has not signed: the message of its
\* signature is the message whose signature signState verified.  With a preimage in a
\* request that is not a transfer it is not, so such requests are left out.
ServiceSignsVerified ==
    \A i \in issued :
        i.by = "service" /\ (i.message.action = Transfer \/ i.message.hashed = None) =>
            \E s \in signed : s.message = i.message /\ s.key # ServiceKey

\* Two consoles that show the two sides of one state sign one message, and it is the one
\* the contract verifies when one of them calls it with the fields unchanged; close-pipe,
\* deposit and withdraw verify the caller's own request without conditions.
ConsoleCallsStand ==
    \A call \in calls :
        LET form == call.state IN
        /\ call.name \in Calls /\ form.version = ContractVersion
        /\ call.mine = Signature(KeyOf[form.me], ConsoleMessage(form))
        /\ call.theirs = Signature(KeyOf[form.with], ConsoleMessage(Mirror(form)))
        /\ IF call.name = "force-close" THEN BalanceCheck(form) /\ NonceCheck(form)
           ELSE ValidTransition(form)
        => Stands(call)

\* A dispute of a transfer without a secret, or with the digest of a forwarding payment
\* that is tracked by then, carries what the contract needs to verify the signatures.
DisputesStand ==
    [][\A call \in calls' \ calls :
           call.name = "dispute" /\ call.state.action = Transfer
           /\ (\E p \in Principals : rows[p] # None /\ rows[p].state = call.state
                   /\ rows[p].secret \in tracked \cup {None})
           => Stands(call)]_vars

\* README.md:494: before it stores a state, a transfer here, the node verifies the
\* signatures with the contract's verify-signatures.
StoredPassVerifySignatures ==
    \A p \in Principals :
        rows[p] # None /\ rows[p].state.action = Transfer =>
            LET row == rows[p] IN VerifySignatures(row.state, row.mine, row.theirs, row.secret)

\* aibtc-adapter.js:168: the domain of the agent's signatures matches the verification on
\* chain.
AgentSignsForContract ==
    \A i \in issued : i.by = "agent" => i.message.version = ContractVersion

=============================================================================
