--------------------------- MODULE SignedStatesProofs ---------------------------
(* Proofs about SignedStates: what the node stores, what the service signs   *)
(* and what is sent to the contract fit together, for every set of forms.    *)
EXTENDS SignedStates, TLAPS

\* A state of two different principals.
State == {s \in Fields : s.me # s.with}

-----------------------------------------------------------------------------
(* Messages. *)

\* The order of the JavaScript programs, with equality, is the contract's, without it.
LEMMA SameKey ==
    ASSUME NEW p \in Principals, NEW q \in Principals, p # q
    PROVE  CanonicalPrincipals(p, q) = PipeKey(p, q)
<1>1. Order[p] \in Nat /\ Order[q] \in Nat /\ Order[p] # Order[q]
    BY MessageAssumption
<1>2. (Order[p] <= Order[q]) <=> (Order[p] < Order[q])
    BY <1>1
<1> QED BY <1>2 DEF CanonicalPrincipals, PipeKey

\* A program that uses the contract's version builds the contract's message.
LEMMA SameMessage ==
    ASSUME NEW s \in State, NEW hashed, NEW validAfter
    PROVE  ProgramMessage(ContractVersion, s, hashed, validAfter) = OnChain(s, hashed, validAfter)
<1>1. s.me \in Principals /\ s.with \in Principals /\ s.me # s.with
    BY DEF State, Fields
<1>2. CanonicalPrincipals(s.me, s.with) = PipeKey(s.me, s.with)
    BY <1>1, SameKey
<1>3. Balances(s, PipeKey(s.me, s.with)) = MapBalances(s.me, PipeKey(s.me, s.with), s.my, s.their)
    BY DEF Balances, MapBalances
<1> QED BY <1>2, <1>3 DEF ProgramMessage, OnChain

\* The sides of a state seen from the other side.
LEMMA MirrorFields ==
    ASSUME NEW s \in State
    PROVE  /\ Mirror(s) \in State
           /\ Mirror(s).me = s.with /\ Mirror(s).with = s.me
           /\ Mirror(s).my = s.their /\ Mirror(s).their = s.my
           /\ Mirror(s).nonce = s.nonce /\ Mirror(s).action = s.action
           /\ Mirror(s).actor = s.actor /\ Mirror(s).secret = s.secret
           /\ Mirror(s).validAfter = s.validAfter /\ Mirror(s).version = s.version
           /\ Mirror(s).amount = s.amount
BY DEF Mirror, State, Fields

\* Both sides build one message.
LEMMA MirrorMessage ==
    ASSUME NEW s \in State, NEW version, NEW hashed, NEW validAfter
    PROVE  ProgramMessage(version, Mirror(s), hashed, validAfter)
               = ProgramMessage(version, s, hashed, validAfter)
<1> DEFINE pair == CanonicalPrincipals(s.me, s.with)
<1>1. s.me \in Principals /\ s.with \in Principals /\ s.me # s.with
    BY DEF State, Fields
<1>2. CanonicalPrincipals(s.with, s.me) = pair
  <2>1. Order[s.me] \in Nat /\ Order[s.with] \in Nat /\ Order[s.me] # Order[s.with]
      BY <1>1, MessageAssumption
  <2>2. (Order[s.with] <= Order[s.me]) <=> ~(Order[s.me] <= Order[s.with])
      BY <2>1
  <2> QED BY <2>2 DEF CanonicalPrincipals
<1>3. pair[1] = s.me \/ pair[1] = s.with
    BY DEF CanonicalPrincipals
<1>4. Balances(Mirror(s), pair) = Balances(s, pair)
  <2> HIDE DEF pair
  <2> QED BY <1>1, <1>3, MirrorFields DEF Balances
<1> HIDE DEF pair
<1>5. CanonicalPrincipals(Mirror(s).me, Mirror(s).with) = pair
    BY <1>2, MirrorFields
<1>6. ProgramMessage(version, Mirror(s), hashed, validAfter)
          = StructuredData(version, pair, Balances(s, pair), Mirror(s), hashed, validAfter)
    BY <1>4, <1>5 DEF ProgramMessage
<1>7. ProgramMessage(version, s, hashed, validAfter)
          = StructuredData(version, pair, Balances(s, pair), s, hashed, validAfter)
    BY DEF ProgramMessage, pair
<1> QED BY <1>6, <1>7, MirrorFields DEF StructuredData

\* What a request carries is a state of two principals.
LEMMA PayloadState ==
    ASSUME NEW form \in Forms, NEW payload \in Payloads(form) \cup Payloads(Mirror(form))
    PROVE  payload.state \in State
<1>1. form \in State
    BY StatesAssumption DEF State
<1>2. ASSUME NEW s \in State, NEW q \in Payloads(s)
      PROVE  q.state \in State
  <2>1. DropZero(s.validAfter) \in Nat \cup {None}
      BY DEF DropZero, State, Fields
  <2>2. [s EXCEPT !.validAfter = DropZero(s.validAfter)] \in State
      BY <2>1 DEF State, Fields
  <2> QED BY <2>2 DEF Payloads, ConsolePayload, PagePayload
<1> QED BY <1>1, <1>2, MirrorFields

-----------------------------------------------------------------------------
(* The inductive invariant. *)

\* Both signatures of a stored transfer are over the contract's message with the stored
\* secret as its digest; every stored state is above the pipe's nonce.
WellSigned(row) ==
    LET message == OnChain(row.state, row.secret, row.state.validAfter) IN
    /\ row.state \in State
    /\ NonceCheck(row.state)
    /\ row.state.action = Transfer =>
           /\ BalanceCheck(row.state)
           /\ row.mine = Signature(KeyOf[row.state.me], message)
           /\ row.theirs = Signature(KeyOf[row.state.with], message)

\* The service signs for a principal that its key is the key of.
ServiceInv ==
    service.up => service.principal \in Principals /\ KeyOf[service.principal] = ServiceKey

RowsInv ==
    /\ rows = [p \in Principals |-> rows[p]]
    /\ \A p \in Principals : rows[p] # None => WellSigned(rows[p]) /\ rows[p].state.me = p

CallsInv ==
    \A call \in calls :
        call.name \in Calls =>
            /\ call.state \in State /\ call.secret = call.state.secret
            /\ call.name # "force-close" =>
                   /\ call.state.action = ActionOf(call.name)
                   /\ call.state.actor = call.state.me
                   /\ call.state.secret = None /\ call.state.validAfter = None

IInv ==
    /\ service.config \in Configurations
    /\ service = [config |-> service.config, up |-> service.up, principal |-> service.principal]
    /\ revealed \subseteq Preimages
    /\ ServiceInv /\ RowsInv /\ CallsInv /\ ServiceSignsVerified

\* A verified signature is over the contract's message, and the state is above the pipe's.
LEMMA Verified ==
    ASSUME NEW s \in State, NEW secret, NEW signature, NEW signer,
           VerifyOne(s, secret, signature, signer)
    PROVE  /\ NonceCheck(s)
           /\ s.action = Transfer =>
                  /\ BalanceCheck(s)
                  /\ signature = Signature(KeyOf[signer], OnChain(s, secret, s.validAfter))
           /\ s.action # Transfer =>
                  signature = Signature(KeyOf[signer], OnChain(s, HashOf(secret), s.validAfter))
BY DEF VerifyOne, VerifySignature, VerifySignatureRequest, ValidTransition, VerifyHash

\* The message of the service is the contract's.
LEMMA ServiceBuildsContractMessage ==
    ASSUME NEW s \in State, NEW secret
    PROVE  ServiceMessage([s EXCEPT !.secret = secret]) = OnChain(s, secret, s.validAfter)
<1> DEFINE r == [s EXCEPT !.secret = secret]
<1>1. /\ r.me = s.me /\ r.with = s.with /\ r.my = s.my /\ r.their = s.their
      /\ r.nonce = s.nonce /\ r.action = s.action /\ r.actor = s.actor
      /\ r.validAfter = s.validAfter /\ r.secret = secret
    BY DEF State, Fields
<1> HIDE DEF r
<1>2. ServiceMessage(r) = ProgramMessage(ContractVersion, r, secret, s.validAfter)
    BY <1>1, StatesAssumption DEF ServiceMessage
<1>3. ProgramMessage(ContractVersion, r, secret, s.validAfter)
          = ProgramMessage(ContractVersion, s, secret, s.validAfter)
    BY <1>1 DEF ProgramMessage, StructuredData, Balances
<1>4. ServiceMessage(r) = OnChain(s, secret, s.validAfter)
    BY <1>2, <1>3, SameMessage
<1> QED BY <1>4 DEF r

\* Storing a well-signed row, or keeping the one there is.
LEMMA UpsertKeepsRows ==
    ASSUME RowsInv, NEW s \in State, NEW secret, NEW mine, NEW theirs,
           Upsert(s, secret, mine, theirs),
           WellSigned([state |-> s, secret |-> secret, mine |-> mine, theirs |-> theirs])
    PROVE  RowsInv'
<1> DEFINE row == [state |-> s, secret |-> secret, mine |-> mine, theirs |-> theirs]
<1>1. CASE rows' = rows
    BY <1>1 DEF RowsInv, WellSigned, NonceCheck, BalanceCheck, OnChain
<1>2. CASE rows' = [rows EXCEPT ![s.me] = row]
  <2> HIDE DEF row
  <2>1. \A p \in Principals : rows'[p] = IF p = s.me THEN row ELSE rows[p]
      BY <1>2 DEF RowsInv
  <2>2. rows' = [p \in Principals |-> rows'[p]]
      BY <1>2 DEF RowsInv
  <2>3. ASSUME NEW p \in Principals, rows'[p] # None
        PROVE  WellSigned(rows'[p]) /\ rows'[p].state.me = p
    <3>1. WellSigned(row) /\ row.state.me = s.me
        BY DEF row
    <3> QED BY <2>1, <2>3, <3>1 DEF RowsInv
  <2> QED BY <2>2, <2>3 DEF RowsInv
<1> QED BY <1>1, <1>2 DEF Upsert

-----------------------------------------------------------------------------
(* The operations. *)

\* POST /signature-states stores what both signatures are over.
LEMMA SubmitKeepsIInv ==
    ASSUME IInv, NEW form \in Forms, NEW payload \in Payloads(form),
           NEW mine \in signed, NEW theirs \in signed, Submit(payload, mine, theirs)
    PROVE  IInv'
<1> DEFINE s == payload.state
           secret == NodeSecret(payload)
<1>1. s \in State
    BY PayloadState
<1>2. VerifyOne(s, secret, mine, s.me) /\ VerifyOne(s, secret, theirs, s.with)
    BY DEF Submit, VerifySignatureState
<1>3. Upsert(s, secret, mine, theirs)
    BY DEF Submit
<1> HIDE DEF s, secret
<1>4. WellSigned([state |-> s, secret |-> secret, mine |-> mine, theirs |-> theirs])
    BY <1>1, <1>2, Verified DEF WellSigned
<1>5. RowsInv'
    BY <1>1, <1>3, <1>4, UpsertKeepsRows DEF IInv
<1>6. UNCHANGED <<signed, issued, service, revealed, calls>>
    BY DEF Submit
<1> QED BY <1>5, <1>6 DEF IInv, ServiceInv, CallsInv, ServiceSignsVerified

\* The service stores and signs what it verified.
LEMMA ServiceSignKeepsIInv ==
    ASSUME IInv, NEW form \in Forms, NEW payload \in Payloads(Mirror(form)),
           NEW theirs \in signed, ServiceSign(payload, theirs)
    PROVE  IInv'
<1> DEFINE s == payload.state
           secret == ServiceSecret(payload)
           message == ServiceMessage([s EXCEPT !.secret = secret])
           mine == OwnSignature(message)
<1>1. s \in State
    BY PayloadState
<1>2. /\ service.up /\ s.me = service.principal
      /\ VerifyOne(s, secret, theirs, s.with)
    BY DEF ServiceSign, ServiceVerifies
<1>3. Upsert(s, secret, mine, theirs)
    BY DEF ServiceSign
<1>4. /\ signed' = signed \cup {mine}
      /\ issued' = issued \cup {[by |-> "service", message |-> message]}
      /\ UNCHANGED <<service, revealed, calls>>
    BY DEF ServiceSign
<1>5. message = OnChain(s, secret, s.validAfter)
    BY <1>1, ServiceBuildsContractMessage
<1>6. mine = Signature(KeyOf[s.me], message)
    BY <1>2 DEF IInv, ServiceInv, OwnSignature
<1> HIDE DEF s, secret, message, mine
<1>7. /\ NonceCheck(s)
      /\ s.action = Transfer =>
             BalanceCheck(s) /\ theirs = Signature(KeyOf[s.with], message)
      /\ s.action # Transfer =>
             theirs = Signature(KeyOf[s.with], OnChain(s, HashOf(secret), s.validAfter))
    BY <1>1, <1>2, <1>5, Verified
<1>8. RowsInv'
  <2>1. WellSigned([state |-> s, secret |-> secret, mine |-> mine, theirs |-> theirs])
      BY <1>1, <1>5, <1>6, <1>7 DEF WellSigned
  <2> QED BY <1>1, <1>3, <2>1, UpsertKeepsRows DEF IInv
<1>9. ServiceSignsVerified'
  <2>1. message.action = s.action /\ message.hashed = secret
      BY <1>5 DEF OnChain, StructuredData
  <2>2. ASSUME message.action = Transfer \/ message.hashed = None
        PROVE  theirs = Signature(KeyOf[s.with], message)
    <3>1. CASE s.action = Transfer
        BY <1>7, <3>1
    <3>2. CASE s.action # Transfer
      <4>1. HashOf(secret) = secret
          BY <2>1, <2>2, <3>2 DEF HashOf
      <4> QED BY <1>5, <1>7, <3>2, <4>1
    <3> QED BY <3>1, <3>2
  <2>3. KeyOf[s.with] # ServiceKey
    <3>1. s.me \in Principals /\ s.with \in Principals /\ s.me # s.with
        BY <1>1 DEF State, Fields
    <3> QED BY <1>2, <3>1, MessageAssumption DEF IInv, ServiceInv
  <2>4. ASSUME message.action = Transfer \/ message.hashed = None
        PROVE  theirs.message = message /\ theirs.key # ServiceKey
      BY <2>2, <2>3, <2>4 DEF Signature
  <2>5. ASSUME NEW i \in issued', i.by = "service",
               i.message.action = Transfer \/ i.message.hashed = None
        PROVE  \E t \in signed' : t.message = i.message /\ t.key # ServiceKey
    <3>1. CASE i \in issued
        BY <1>4, <2>5, <3>1 DEF IInv, ServiceSignsVerified
    <3>2. CASE i = [by |-> "service", message |-> message]
      <4>1. i.message = message
          BY <3>2
      <4> QED BY <1>4, <2>4, <2>5, <4>1
    <3> QED BY <1>4, <3>1, <3>2
  <2> QED BY <2>5 DEF ServiceSignsVerified
<1> QED BY <1>4, <1>8, <1>9 DEF IInv, ServiceInv, CallsInv

\* A call of the console is recorded with the fields it sends.
LEMMA ConsoleCallKeepsIInv ==
    ASSUME IInv, NEW form \in Forms, NEW name \in Calls,
           NEW mine \in signed, NEW theirs \in signed, ConsoleCall(name, form, mine, theirs)
    PROVE  IInv'
<1> DEFINE sent == Sent(name, form)
<1>1. form \in State
    BY StatesAssumption DEF State
<1>2. ActionOf(name) \in Close..Withdrawal
    BY DEF ActionOf, Close, Deposit, Withdrawal
<1>3. sent \in State
    BY <1>1, <1>2 DEF Sent, State, Fields
<1>31. name # "force-close" =>
           /\ sent.action = ActionOf(name) /\ sent.actor = sent.me
           /\ sent.secret = None /\ sent.validAfter = None
    BY <1>1 DEF Sent, State, Fields
<1>4. /\ calls' = calls \cup {[name |-> name, state |-> sent, secret |-> sent.secret,
                               mine |-> mine, theirs |-> theirs]}
      /\ UNCHANGED <<signed, issued, service, rows, revealed>>
    BY DEF ConsoleCall, Broadcast
<1> HIDE DEF sent
<1>5. CallsInv'
    BY <1>3, <1>31, <1>4 DEF IInv, CallsInv
<1> QED BY <1>4, <1>5 DEF IInv, ServiceInv, RowsInv, WellSigned, ServiceSignsVerified

\* The other steps: start, signatures of people, payments, disputes.
LEMMA OthersKeepIInv ==
    ASSUME IInv,
           \/ \E p \in Principals : Start(p) \/ Dispute(p)
           \/ \E form \in Forms : ConsoleSign(form) \/ PageSign(form) \/ AgentSign(form)
           \/ \E b \in Preimages : Track(b) \/ Reveal(b)
    PROVE  IInv'
<1>1. ASSUME NEW p \in Principals, Start(p)
      PROVE  IInv'
  <2>1. service' = [config |-> service.config, up |-> TRUE, principal |-> p]
      BY <1>1 DEF Start, IInv
  <2>2. KeyOf[p] = ServiceKey
    <3>1. CASE service.config.principal = None
        BY <1>1, <3>1 DEF Start, SignerPrincipal
    <3>2. CASE service.config.principal # None
        BY <1>1, <3>2, StatesAssumption DEF Start, AddressMatches, SignerPrincipal, IInv
    <3> QED BY <3>1, <3>2
  <2>3. UNCHANGED <<signed, issued, rows, revealed, calls>>
      BY <1>1 DEF Start
  <2> QED BY <2>1, <2>2, <2>3 DEF IInv, ServiceInv, RowsInv, CallsInv, ServiceSignsVerified
<1>2. ASSUME NEW p \in Principals, Dispute(p)
      PROVE  IInv'
  <2>1. UNCHANGED <<signed, issued, service, rows, revealed>>
      BY <1>2 DEF Dispute, Broadcast
  <2>2. \A call \in calls' : call \in calls \/ call.name = "dispute"
      BY <1>2 DEF Dispute, Broadcast
  <2>3. CallsInv'
      BY <2>2 DEF IInv, CallsInv, Calls
  <2> QED BY <2>1, <2>3 DEF IInv, ServiceInv, RowsInv, WellSigned, ServiceSignsVerified
<1>3. ASSUME NEW form \in Forms, ConsoleSign(form) \/ PageSign(form) \/ AgentSign(form)
      PROVE  IInv'
  <2>1. signed \subseteq signed' /\ UNCHANGED <<service, rows, revealed, calls>>
      BY <1>3 DEF ConsoleSign, PageSign, AgentSign, Sign
  <2>2. \A i \in issued' : i \in issued \/ i.by # "service"
      BY <1>3 DEF ConsoleSign, PageSign, AgentSign
  <2>3. ServiceSignsVerified'
      BY <2>1, <2>2 DEF IInv, ServiceSignsVerified
  <2> QED BY <2>1, <2>3 DEF IInv, ServiceInv, RowsInv, WellSigned, CallsInv
<1>4. ASSUME NEW b \in Preimages, Track(b) \/ Reveal(b)
      PROVE  IInv'
  <2>1. UNCHANGED <<signed, issued, service, rows, calls>> /\ revealed' \subseteq Preimages
      BY <1>4 DEF Track, Reveal, IInv
  <2> QED BY <2>1 DEF IInv, ServiceInv, RowsInv, WellSigned, CallsInv, ServiceSignsVerified
<1> QED BY <1>1, <1>2, <1>3, <1>4

\* The invariant holds of the program.
THEOREM SignedStatesInvariance == Spec => []IInv
<1>1. Init => IInv
    BY DEF Init, IInv, ServiceInv, RowsInv, CallsInv, ServiceSignsVerified
<1>2. IInv /\ [Next]_vars => IInv'
  <2> SUFFICES ASSUME IInv, [Next]_vars
               PROVE  IInv'
      OBVIOUS
  <2>1. CASE UNCHANGED vars
      BY <2>1 DEF vars, IInv, ServiceInv, RowsInv, WellSigned, CallsInv, ServiceSignsVerified
  <2>2. CASE Step
      BY <2>2, SubmitKeepsIInv, ServiceSignKeepsIInv, ConsoleCallKeepsIInv, OthersKeepIInv
         DEF Step
  <2> QED BY <2>1, <2>2 DEF Next
<1> QED BY <1>1, <1>2, PTL DEF Spec

-----------------------------------------------------------------------------
(* The theorems. *)

\* With a preimage of its digest, a well-signed transfer passes the contract.
LEMMA WellSignedCloses ==
    ASSUME NEW row, WellSigned(row), row.state.action = Transfer,
           NEW secret, HashOf(secret) = row.secret
    PROVE  Closes(row.state, row.mine, row.theirs, secret)
BY DEF WellSigned, Closes, VerifySignatures, VerifyHash

\* A preimage, as an optional buffer, has its digest.
LEMMA Digest == HashOf(None) = None /\ \A b \in Preimages : HashOf(b) = Hash(b)
BY StatesAssumption, MessageAssumption DEF HashOf

\* Every transfer in the node's table can be taken to the contract.
THEOREM TransfersEnforceable == Spec => []StoredTransfersEnforceable
<1>1. IInv => StoredTransfersEnforceable
  <2> SUFFICES ASSUME IInv, NEW p \in Principals,
                      rows[p] # None, rows[p].state.action = Transfer
               PROVE  /\ rows[p].secret = None =>
                             Closes(rows[p].state, rows[p].mine, rows[p].theirs, None)
                      /\ \A b \in Preimages : Hash(b) = rows[p].secret =>
                             Closes(rows[p].state, rows[p].mine, rows[p].theirs, b)
      BY DEF StoredTransfersEnforceable
  <2>1. WellSigned(rows[p])
      BY DEF IInv, RowsInv
  <2>2. ASSUME rows[p].secret = None
        PROVE  Closes(rows[p].state, rows[p].mine, rows[p].theirs, None)
      BY <2>1, <2>2, Digest, WellSignedCloses
  <2>3. ASSUME NEW b \in Preimages, Hash(b) = rows[p].secret
        PROVE  Closes(rows[p].state, rows[p].mine, rows[p].theirs, b)
    <3>1. HashOf(b) = rows[p].secret
        BY <2>3, Digest
    <3> QED BY <2>1, <3>1, WellSignedCloses
  <2> QED BY <2>2, <2>3
<1> QED BY <1>1, SignedStatesInvariance, PTL

\* A dispute of a transfer whose digest is tracked, or which has none, is accepted: it is
\* the row of the closure's principal, and it is held back until the preimage is revealed.
THEOREM DisputesAccepted == Spec => DisputesStand
<1> DEFINE Disputed(call) ==
               call.name = "dispute" /\ call.state.action = Transfer
               /\ (\E p \in Principals : rows[p] # None /\ rows[p].state = call.state
                       /\ rows[p].secret \in tracked \cup {None})
<1>1. ASSUME IInv, NEW q \in Principals, Dispute(q), NEW p \in Principals,
             rows[p] # None, rows[p].state = rows[q].state,
             rows[p].state.action = Transfer, rows[p].secret \in tracked \cup {None}
      PROVE  Closes(rows[q].state, rows[q].mine, rows[q].theirs, Resolved(rows[q]))
  <2>1. rows[q] # None /\ Eligible(rows[q])
      BY <1>1 DEF Dispute
  <2>2. p = q /\ WellSigned(rows[q])
      BY <1>1, <2>1 DEF IInv, RowsInv
  <2>3. HashOf(Resolved(rows[q])) = rows[q].secret
    <3>1. CASE \E b \in revealed : Hash(b) = rows[q].secret
      <4>1. Resolved(rows[q]) \in revealed /\ Hash(Resolved(rows[q])) = rows[q].secret
          BY <1>1, <3>1 DEF Resolved
      <4> QED BY <1>1, <4>1, Digest DEF IInv
    <3>2. CASE ~\E b \in revealed : Hash(b) = rows[q].secret
      <4>1. rows[q].secret = None
          BY <1>1, <2>1, <2>2, <3>2 DEF Eligible
      <4>2. Resolved(rows[q]) = rows[q].secret
          BY <3>2 DEF Resolved
      <4> QED BY <4>1, <4>2, Digest
    <3> QED BY <3>1, <3>2
  <2> QED BY <1>1, <2>2, <2>3, WellSignedCloses
<1>2. ASSUME IInv, [Next]_vars, NEW call \in calls' \ calls, Disputed(call)
      PROVE  Stands(call)
  <2>1. PICK q \in Principals : Dispute(q)
    <3>1. Step
        BY <1>2 DEF Next, vars
    <3>2. ASSUME NEW form \in Forms, NEW mine \in signed, NEW theirs \in signed,
                 NEW name \in Calls, ConsoleCall(name, form, mine, theirs)
          PROVE  FALSE
        BY <1>2, <3>2 DEF ConsoleCall, Broadcast, Calls
    <3> QED BY <1>2, <3>1, <3>2 DEF Step, Start, ConsoleSign, PageSign, AgentSign, Submit,
                                    ServiceSign, Track, Reveal
  <2>2. call = [name |-> "dispute", state |-> rows[q].state, secret |-> Resolved(rows[q]),
                mine |-> rows[q].mine, theirs |-> rows[q].theirs]
      BY <1>2, <2>1 DEF Dispute, Broadcast
  <2>3. Closes(rows[q].state, rows[q].mine, rows[q].theirs, Resolved(rows[q]))
      BY <1>1, <1>2, <2>1, <2>2
  <2> QED BY <2>2, <2>3 DEF Stands
<1>3. IInv /\ [Next]_vars => [\A call \in calls' \ calls : Disputed(call) => Stands(call)]_vars
    BY <1>2
<1> QED BY <1>3, SignedStatesInvariance, PTL DEF Spec, DisputesStand

\* The service is never the first to sign a state.
THEOREM ServiceSignsSecond == Spec => []ServiceSignsVerified
<1>1. IInv => ServiceSignsVerified
    BY DEF IInv
<1> QED BY <1>1, SignedStatesInvariance, PTL

\* Two consoles with the same state on them produce what the contract accepts.
THEOREM ConsolesAgreeWithContract == Spec => []ConsoleCallsStand
<1>1. ASSUME NEW s \in State, s.version = ContractVersion
      PROVE  /\ ConsoleMessage(s) = OnChain(s, HashOf(s.secret), s.validAfter)
             /\ ConsoleMessage(Mirror(s)) = ConsoleMessage(s)
  <2>1. ConsoleMessage(s) = ProgramMessage(ContractVersion, s, HashOf(s.secret), s.validAfter)
      BY <1>1 DEF ConsoleMessage
  <2>2. ConsoleMessage(Mirror(s))
            = ProgramMessage(ContractVersion, Mirror(s), HashOf(s.secret), s.validAfter)
      BY <1>1, MirrorFields DEF ConsoleMessage
  <2> QED BY <2>1, <2>2, SameMessage, MirrorMessage
<1>2. IInv => ConsoleCallsStand
  <2> SUFFICES ASSUME IInv, NEW call \in calls, call.name \in Calls,
                      call.state.version = ContractVersion,
                      call.mine = Signature(KeyOf[call.state.me], ConsoleMessage(call.state)),
                      call.theirs = Signature(KeyOf[call.state.with],
                                              ConsoleMessage(Mirror(call.state))),
                      IF call.name = "force-close"
                      THEN BalanceCheck(call.state) /\ NonceCheck(call.state)
                      ELSE ValidTransition(call.state)
               PROVE  Stands(call)
      BY DEF ConsoleCallsStand
  <2>1. call.state \in State /\ call.secret = call.state.secret
      BY DEF IInv, CallsInv
  <2>2. /\ call.mine = Signature(KeyOf[call.state.me],
                          OnChain(call.state, HashOf(call.secret), call.state.validAfter))
        /\ call.theirs = Signature(KeyOf[call.state.with],
                          OnChain(call.state, HashOf(call.secret), call.state.validAfter))
      BY <1>1, <2>1
  <2>3. CASE call.name = "force-close"
      BY <2>2, <2>3 DEF Stands, Closes, VerifySignatures, VerifyHash
  <2>4. CASE call.name # "force-close"
    <3> DEFINE s == call.state
               t == [s EXCEPT !.action = ActionOf(call.name), !.actor = s.me]
    <3>1. /\ s.action = ActionOf(call.name) /\ s.actor = s.me
          /\ s.secret = None /\ s.validAfter = None
        BY <2>4 DEF IInv, CallsInv
    <3>2. /\ t.me = s.me /\ t.with = s.with /\ t.my = s.my /\ t.their = s.their
          /\ t.nonce = s.nonce /\ t.action = s.action /\ t.actor = s.actor
          /\ t.amount = s.amount
        BY <2>1, <3>1 DEF State, Fields
    <3>3. ValidTransition(s) /\ HashOf(call.secret) = None
        BY <2>1, <2>4, <3>1 DEF HashOf
    <3>4. Stands(call) <=> Agrees(s, ActionOf(call.name), call.mine, call.theirs)
        BY <2>4 DEF Stands, Calls
    <3>5. Agrees(s, ActionOf(call.name), call.mine, call.theirs) <=>
              /\ ValidTransition(t)
              /\ VerifyHash(OnChain(t, None, None), call.mine, t.me)
              /\ VerifyHash(OnChain(t, None, None), call.theirs, t.with)
        BY DEF Agrees
    <3>6. call.mine = Signature(KeyOf[s.me], OnChain(s, None, None))
          /\ call.theirs = Signature(KeyOf[s.with], OnChain(s, None, None))
        BY <2>2, <3>1, <3>3
    <3> HIDE DEF s, t
    <3>7. OnChain(t, None, None) = OnChain(s, None, None)
        BY <3>2 DEF OnChain, StructuredData
    <3>8. ValidTransition(t)
        BY <3>2, <3>3 DEF ValidTransition, NonceCheck, ActionBalanceCheck
    <3> QED BY <3>2, <3>4, <3>5, <3>6, <3>7, <3>8 DEF VerifyHash
  <2> QED BY <2>3, <2>4
<1> QED BY <1>2, SignedStatesInvariance, PTL

=============================================================================
