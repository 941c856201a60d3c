----------------------------- MODULE SignedMessages -----------------------------
(***************************************************************************)
(* The message that the two sides of a pipe sign, as each program builds    *)
(* it: the contract, the operator's console (server/ui/main.src.js), the    *)
(* documentation page (docs/app.js), the counterparty service and the       *)
(* agent.  A signature made by one of them is worth something only if all   *)
(* the others build the same message from the same state.                   *)
(*                                                                         *)
(* A 32-byte buffer is a number and its SHA-256 digest the next number, so  *)
(* that a digest, a digest of a digest and the preimage all differ.  The    *)
(* pipe is open and settled and nobody calls the contract meanwhile: what   *)
(* the contract adds to the check of a signature is stated for such a pipe. *)
(***************************************************************************)
EXTENDS Naturals

CONSTANTS
    Principals,     \* the two sides of a pipe
    KeyOf,          \* the key that signs for a principal: its own, or its agent's
    Order,          \* the consensus bytes of a principal, as a number
    PipeTotal,      \* confirmed balances of the pipe, and
    PipeNonce,      \* its nonce
    NameVersion,    \* version at the end of the contract's name, None without one
    MessageVersion, \* STACKFLOW_NODE_STACKFLOW_MESSAGE_VERSION
    None

ASSUME MessageAssumption ==
    /\ Order \in [Principals -> Nat]
    /\ \A p, q \in Principals : Order[p] = Order[q] \/ KeyOf[p] = KeyOf[q] => p = q
    /\ PipeTotal \in Nat /\ PipeNonce \in Nat
    /\ None \notin Nat

Hash(buffer) == buffer + 1

\* The digest of an optional buffer.
HashOf(secret) == IF secret = None THEN None ELSE Hash(secret)

Close == 0
Transfer == 1
Deposit == 2
Withdrawal == 3

\* The version in the domain that the contract hashes into every message.
ContractVersion == "0.6.0"

-----------------------------------------------------------------------------
(* The contract. *)

\* A signature is over everything in it: there is no other way to make one.
Signature(key, message) == [key |-> key, message |-> message]

PipeKey(p, q) == IF Order[p] < Order[q] THEN <<p, q>> ELSE <<q, p>>

MapBalances(p, pair, my, their) ==
    IF p = pair[1] THEN <<my, their>> ELSE <<their, my>>

StructuredData(version, pair, balances, s, hashed, validAfter) ==
    [version |-> version, pair |-> pair, balances |-> balances, nonce |-> s.nonce,
     action |-> s.action, actor |-> s.actor, hashed |-> hashed, validAfter |-> validAfter]

\* The data whose hash the contract compares a signature with; s names the caller's view.
OnChain(s, hashed, validAfter) ==
    LET pair == PipeKey(s.me, s.with)
    IN  StructuredData(ContractVersion, pair, MapBalances(s.me, pair, s.my, s.their),
                       s, hashed, validAfter)

VerifyHash(message, signature, signer) == signature = Signature(KeyOf[signer], message)

BalanceCheck(s) == s.my + s.their = PipeTotal

NonceCheck(s) == s.nonce > PipeNonce

ActionBalanceCheck(s) ==
    LET sum == s.my + s.their
        actors == IF s.actor = s.me THEN s.my ELSE s.their
    IN  CASE s.action = Deposit ->
                s.actor \in {s.me, s.with} /\ actors >= s.amount /\ sum = PipeTotal + s.amount
          [] s.action = Withdrawal ->
                s.actor \in {s.me, s.with} /\ PipeTotal >= s.amount /\ sum + s.amount = PipeTotal
          [] OTHER -> sum = PipeTotal

ValidTransition(s) == NonceCheck(s) /\ ActionBalanceCheck(s)

\* verify-signature takes the digest as it is,
VerifySignature(s, signature, signer, hashed) ==
    /\ BalanceCheck(s) /\ NonceCheck(s)
    /\ VerifyHash(OnChain(s, hashed, s.validAfter), signature, signer)

\* verify-signature-request and verify-signatures hash the secret they are given.
VerifySignatureRequest(s, signature, signer, secret) ==
    /\ ValidTransition(s)
    /\ VerifyHash(OnChain(s, HashOf(secret), s.validAfter), signature, signer)

VerifySignatures(s, mine, theirs, secret) ==
    /\ BalanceCheck(s)
    /\ VerifyHash(OnChain(s, HashOf(secret), s.validAfter), mine, s.me)
    /\ VerifyHash(OnChain(s, HashOf(secret), s.validAfter), theirs, s.with)

\* The signatures of force-close and of the disputes.
Closes(s, mine, theirs, secret) ==
    NonceCheck(s) /\ VerifySignatures(s, mine, theirs, secret)

\* close-pipe, deposit and withdraw: an own action and actor, and no condition.
Agrees(s, action, mine, theirs) ==
    LET t == [s EXCEPT !.action = action, !.actor = s.me]
        message == OnChain(t, None, None)
    IN  /\ ValidTransition(t)
        /\ VerifyHash(message, mine, t.me) /\ VerifyHash(message, theirs, t.with)

-----------------------------------------------------------------------------
(* The programs around it.  A form is what a page's fields say. *)

\* Mutant: the signer comes first.
CanonicalSelfFirst(p, q) == <<p, q>>

\* compareBytes(left, right) <= 0, in the console, the page and the server.
CanonicalPrincipals(p, q) == IF Order[p] <= Order[q] THEN <<p, q>> ELSE <<q, p>>

Balances(s, pair) == IF pair[1] = s.me THEN <<s.my, s.their>> ELSE <<s.their, s.my>>

ProgramMessage(version, s, hashed, validAfter) ==
    LET pair == CanonicalPrincipals(s.me, s.with)
    IN  StructuredData(version, pair, Balances(s, pair), s, hashed, validAfter)

\* The console takes the preimage and hashes it; version and network are fields.
ConsoleMessage(form) ==
    ProgramMessage(form.version, form, HashOf(form.secret), form.validAfter)

\* The page takes the digest.
PageMessage(form) ==
    ProgramMessage(ContractVersion, form, form.secret, form.validAfter)

\* Mutant: the condition is left out.
ServiceUnconditional(request) == ProgramMessage(MessageVersion, request, request.secret, None)

\* The service takes what its request was normalised to.
ServiceMessage(request) ==
    ProgramMessage(MessageVersion, request, request.secret, request.validAfter)

\* The agent derives the version of the domain from the name of the contract.
DomainVersion == IF NameVersion = None THEN "1.0.0" ELSE NameVersion

AgentMessage(state) ==
    ProgramMessage(DomainVersion, state, state.secret, state.validAfter)

=============================================================================
