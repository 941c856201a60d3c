---------------------------- MODULE ForwardingProofs ----------------------------
(***************************************************************************)
(* Proofs about Forwarding: for any number of payments and concurrent      *)
(* calls, and with crashes anywhere, secrets that were passed on stay      *)
(* known, and the node signs after the next hop.                           *)
(***************************************************************************)
EXTENDS Forwarding, TLAPS

--------------------------------------------------------------------------------
(* The inductive invariant *)

Call == [id : Payments, row : Row, told : BOOLEAN]
Transfer == [phase : {"asking", "answered", "signing"}, request : Requests]

\* A row that is scheduled is pending with its secret.
Proper(row) ==
    /\ row \in Row
    /\ row.scheduled => row.revealed /\ row.propagation = "pending"

\* A secret in the row is in revealed_secrets.
Known(row, known) == row.revealed => row.hash \in known

RowsOK ==
    /\ payments \in [Payments -> Row \cup {None}]
    /\ \A p \in Present(payments) : Proper(payments[p]) /\ Known(payments[p], secrets)
    /\ \A p, q \in OfPipe(payments) : p = q
    /\ secrets \subseteq Hashes
    /\ stored \in Requests \cup {None}

TransfersOK ==
    /\ transfers \in [Transfers -> Transfer \cup {Idle}]
    /\ \A t \in Transfers : transfers[t].phase \in {"answered", "signing"}
                                => transfers[t].request \in hopSigned
    /\ released \subseteq hopSigned

CallsOK ==
    /\ propagations \in [Callers -> Call \cup {None}]
    /\ \A c \in Callers : propagations[c] # None =>
          /\ propagations[c] \in Call
          /\ Proper(propagations[c].row)
          /\ propagations[c].row.revealed
          /\ Known(propagations[c].row, secrets)
    /\ due # None => /\ due \subseteq Call
                     /\ \A d \in due : Proper(d.row) /\ Known(d.row, secrets)
    /\ confirmed \cup told \subseteq secrets

IInv == RowsOK /\ TransfersOK /\ CallsOK

--------------------------------------------------------------------------------
(* The tables *)

\* Rows that are in a table after its pruning were there before.
LEMMA Pruned ==
    ASSUME NEW rows, NEW id \in Payments, NEW left,
           \/ left = KeepLatest(rows, id)
           \/ left \in DropOrphans(rows, id)
    PROVE  /\ left = [p \in Payments |-> left[p]]
           /\ \A p \in Payments : left[p] # None => left[p] = rows[p]
  BY DEF KeepLatest, DropOrphans

\* At most one row of the pipe is left.
LEMMA OneOfPipe ==
    ASSUME NEW id \in Payments, NEW row, RowsOK,
           payments' = KeepLatest([payments EXCEPT ![id] = row], id)
    PROVE  \A p, q \in OfPipe(payments') : p = q
  <1> DEFINE rows == [payments EXCEPT ![id] = row]
             best == {p \in OfPipe(rows) :
                         \A q \in OfPipe(rows) : rows[q].nonce <= rows[p].nonce}
             kept == IF id \in best THEN {id} ELSE best
  <1>1. \A p \in Payments : payments'[p] = IF p \in OfPipe(rows) \ kept THEN None ELSE rows[p]
    BY DEF KeepLatest
  <1>2. OfPipe(payments') \subseteq kept
    BY <1>1 DEF OfPipe, Present
  <1>3. \A p \in OfPipe(rows) : p # id => p \in OfPipe(payments)
    BY DEF OfPipe, Present, RowsOK
  <1>4. ASSUME NEW p \in kept, NEW q \in kept
        PROVE  p = q
    <2>1. CASE id \in best
      BY <2>1
    <2>2. CASE id \notin best
      <3>1. p \in OfPipe(payments) /\ q \in OfPipe(payments)
        BY <2>2, <1>3
      <3>2. QED
        BY <3>1 DEF RowsOK
    <2>3. QED
      BY <2>1, <2>2
  <1>5. QED
    BY <1>2, <1>4

\* A row whose secret is known after the write leaves the tables in order.
LEMMA RowsAfter ==
    ASSUME RowsOK, NEW id \in Payments, NEW row, Proper(row), row.revealed => row.hash \in secrets',
           \/ payments' = KeepLatest([payments EXCEPT ![id] = row], id)
           \/ row.nonce = None /\ payments' \in DropOrphans([payments EXCEPT ![id] = row], id),
           secrets \subseteq secrets', secrets' \subseteq Hashes,
           stored' \in Requests \cup {None}
    PROVE  RowsOK'
  <1> DEFINE rows == [payments EXCEPT ![id] = row]
  <1>1. /\ payments' = [p \in Payments |-> payments'[p]]
        /\ \A p \in Payments : payments'[p] # None => payments'[p] = rows[p]
    <2>1. payments' = KeepLatest(rows, id) \/ payments' \in DropOrphans(rows, id)
      OBVIOUS
    <2> HIDE DEF rows
    <2>2. QED
      BY <2>1, Pruned
  <1>2. rows \in [Payments -> Row \cup {None}]
    BY DEF RowsOK, Proper
  <1>3. payments' \in [Payments -> Row \cup {None}]
    <2>1. \A p \in Payments : payments'[p] \in Row \cup {None}
      BY <1>1, <1>2
    <2>2. QED
      BY <1>1, <2>1
  <1>4. ASSUME NEW p \in Present(payments')
        PROVE  Proper(payments'[p]) /\ Known(payments'[p], secrets')
    <2>1. p \in Payments /\ payments'[p] = rows[p] /\ rows[p] # None
      BY <1>1 DEF Present
    <2>2. CASE p = id
      <3>1. payments'[p] = row
        BY <2>1, <2>2 DEF RowsOK
      <3>2. QED
        BY <3>1 DEF Known
    <2>3. CASE p # id
      <3>1. payments'[p] = payments[p] /\ p \in Present(payments)
        BY <2>1, <2>3 DEF RowsOK, Present
      <3>2. Proper(payments[p]) /\ Known(payments[p], secrets)
        BY <3>1 DEF RowsOK
      <3>3. QED
        BY <3>1, <3>2 DEF Known
    <2>4. QED
      BY <2>2, <2>3
  <1>5. \A p, q \in OfPipe(payments') : p = q
    <2>1. CASE payments' = KeepLatest(rows, id)
      BY <2>1, OneOfPipe
    <2>2. CASE row.nonce = None /\ payments' \in DropOrphans(rows, id)
      <3>1. OfPipe(payments') \subseteq OfPipe(payments)
        BY <1>1, <2>2 DEF OfPipe, Present, RowsOK
      <3>2. QED
        BY <3>1 DEF RowsOK
    <2>3. QED
      BY <2>1, <2>2
  <1>6. /\ \A p \in Present(payments') : Proper(payments'[p]) /\ Known(payments'[p], secrets')
        /\ \A p, q \in OfPipe(payments') : p = q
    BY <1>4, <1>5
  <1>7. QED
    BY <1>3, <1>6 DEF RowsOK, Present, OfPipe

\* setForwardingPayment of a proper row.
LEMMA SaveRow ==
    ASSUME RowsOK, NEW id \in Payments, NEW row, Proper(row), Save(id, row)
    PROVE  /\ RowsOK'
           /\ secrets \subseteq secrets'
           /\ row.revealed => row.hash \in secrets'
  <1>1. /\ secrets' = SecretsWith(row)
        /\ stored' = stored
        /\ \/ payments' = KeepLatest([payments EXCEPT ![id] = row], id)
           \/ row.nonce = None /\ payments' \in DropOrphans([payments EXCEPT ![id] = row], id)
    BY DEF Save
  <1>2. /\ secrets \subseteq secrets'
        /\ secrets' \subseteq Hashes
        /\ row.revealed => row.hash \in secrets'
    BY <1>1 DEF SecretsWith, RowsOK, Proper, Row
  <1>3. RowsOK'
    BY <1>1, <1>2, RowsAfter DEF RowsOK
  <1>4. QED
    BY <1>2, <1>3

\* Secrets are only added, so calls and snapshots keep theirs.
LEMMA CallsStay ==
    ASSUME CallsOK, secrets \subseteq secrets',
           UNCHANGED <<propagations, due>>,
           confirmed' \cup told' \subseteq secrets'
    PROVE  CallsOK'
  BY DEF CallsOK, Known

--------------------------------------------------------------------------------
(* Transfers *)

\* A transfer moves on; what it was asked to sign stays.
LEMMA TransferMoves ==
    ASSUME TransfersOK, NEW t \in Transfers, NEW call \in Transfer \cup {Idle},
           transfers' = [transfers EXCEPT ![t] = call],
           hopSigned \subseteq hopSigned',
           call.phase \in {"answered", "signing"} => call.request \in hopSigned',
           released' \subseteq hopSigned'
    PROVE  TransfersOK'
  BY DEF TransfersOK

\* What is known of a transfer in progress.
LEMMA TransferFacts ==
    ASSUME TransfersOK, NEW t \in Transfers,
           transfers[t].phase \in {"asking", "answered", "signing"}
    PROVE  /\ transfers[t] \in Transfer
           /\ transfers[t].request \in Requests
           /\ transfers[t].request.id \in Payments
           /\ \A phase \in {"answered", "signing"} :
                 /\ [transfers[t] EXCEPT !.phase = phase] \in Transfer
                 /\ [transfers[t] EXCEPT !.phase = phase].phase = phase
                 /\ [transfers[t] EXCEPT !.phase = phase].request = transfers[t].request
  <1>1. transfers[t] \in Transfer
    BY DEF TransfersOK, Transfer, Idle
  <1>2. QED
    BY <1>1, RequestAssumption DEF Transfer

\* The rows that transfers write are proper and hold no secret yet.
LEMMA NewRows ==
    ASSUME NEW r \in Requests
    PROVE  /\ Proper(FailedRow(r)) /\ Proper(CompletedRow(r))
           /\ ~FailedRow(r).revealed /\ ~CompletedRow(r).revealed
  BY RequestAssumption DEF Proper, FailedRow, CompletedRow, Row

\* Each step of a transfer keeps the invariant.
LEMMA TransferStep ==
    ASSUME IInv, NEW t \in Transfers, ServeTransfer(t)
    PROVE  IInv'
  <1> USE DEF IInv
  <1>1. ASSUME NEW r \in Requests, StartTransfer(t, r)
        PROVE  IInv'
    <2> DEFINE call == [phase |-> "asking", request |-> r]
    <2>1. call \in Transfer /\ call.phase = "asking"
      BY DEF Transfer
    <2>2. TransfersOK'
      BY <1>1, <2>1, TransferMoves DEF StartTransfer, world, TransfersOK
    <2>3. RowsOK'
      BY <1>1 DEF StartTransfer, tables, RowsOK, Present, OfPipe, Known
    <2>4. CallsOK'
      BY <1>1, CallsStay DEF StartTransfer, tables, world, CallsOK
    <2>5. QED
      BY <2>2, <2>3, <2>4
  <1>2. CASE HopSigns(t)
    <2>1. TransfersOK'
      <3> DEFINE call == [transfers[t] EXCEPT !.phase = "answered"]
      <3>1. /\ call \in Transfer /\ call.phase = "answered" /\ call.request = transfers[t].request
            /\ transfers' = [transfers EXCEPT ![t] = call]
            /\ hopSigned' = hopSigned \cup {transfers[t].request}
            /\ released' = released
        BY <1>2, TransferFacts DEF HopSigns, MoveTo, TransfersOK
      <3> HIDE DEF call
      <3>2. released' \subseteq hopSigned'
        BY <3>1 DEF TransfersOK
      <3>3. QED
        BY <3>1, <3>2, TransferMoves
    <2>2. RowsOK'
      BY <1>2 DEF HopSigns, tables, RowsOK, Present, OfPipe, Known
    <2>3. CallsOK'
      BY <1>2, CallsStay DEF HopSigns, tables, CallsOK
    <2>4. QED
      BY <2>1, <2>2, <2>3
  <1>3. CASE FailTransfer(t)
    <2> DEFINE r == transfers[t].request
    <2>1. r \in Requests /\ r.id \in Payments
      BY <1>3, TransferFacts DEF FailTransfer
    <2>2. RowsOK' /\ secrets \subseteq secrets'
      BY <1>3, <2>1, NewRows, SaveRow DEF FailTransfer
    <2>3. TransfersOK'
      BY <1>3, TransferMoves DEF FailTransfer, End, world, TransfersOK, Idle
    <2>4. CallsOK'
      BY <1>3, <2>2, CallsStay DEF FailTransfer, world, CallsOK
    <2>5. QED
      BY <2>2, <2>3, <2>4
  <1>4. CASE BeginSigning(t) \/ FailSigning(t)
    <2>1. TransfersOK'
      BY <1>4, TransferFacts, TransferMoves
         DEF BeginSigning, FailSigning, MoveTo, End, world, TransfersOK, Idle
    <2>2. RowsOK'
      BY <1>4 DEF BeginSigning, FailSigning, tables, RowsOK, Present, OfPipe, Known
    <2>3. CallsOK'
      BY <1>4, CallsStay DEF BeginSigning, FailSigning, tables, world, CallsOK
    <2>4. QED
      BY <2>1, <2>2, <2>3
  <1>5. CASE CompleteTransfer(t)
    <2> DEFINE r == transfers[t].request
    <2>1. r \in Requests /\ r.id \in Payments /\ r \in hopSigned
      BY <1>5, TransferFacts DEF CompleteTransfer, TransfersOK
    <2>2. RowsOK'
      <3>1. /\ payments' = KeepLatest([payments EXCEPT ![r.id] = CompletedRow(r)], r.id)
            /\ secrets' = secrets
            /\ stored' \in Requests \cup {None}
        BY <1>5, <2>1 DEF CompleteTransfer, RowsOK
      <3>2. QED
        BY <2>1, <3>1, NewRows, RowsAfter DEF RowsOK
    <2>3. TransfersOK'
      BY <1>5, <2>1, TransferMoves DEF CompleteTransfer, End, TransfersOK, Idle
    <2>4. CallsOK'
      BY <1>5, CallsStay DEF CompleteTransfer, CallsOK
    <2>5. QED
      BY <2>2, <2>3, <2>4
  <1>6. QED
    BY <1>1, <1>2, <1>3, <1>4, <1>5 DEF ServeTransfer

--------------------------------------------------------------------------------
(* Reveals and the retry pass *)

\* A call keeps the row it read, with its secret.
LEMMA CallStarts ==
    ASSUME CallsOK, NEW c \in Callers, NEW call \in Call,
           Proper(call.row), call.row.revealed, call.row.hash \in secrets',
           propagations' = [propagations EXCEPT ![c] = call],
           secrets \subseteq secrets', due' = due,
           confirmed' \cup told' \subseteq secrets'
    PROVE  CallsOK'
  BY DEF CallsOK, Known

\* A call that ends is gone.
LEMMA CallEnds ==
    ASSUME CallsOK, NEW c \in Callers,
           propagations' = [propagations EXCEPT ![c] = None],
           secrets \subseteq secrets', due' = due,
           confirmed' \cup told' \subseteq secrets'
    PROVE  CallsOK'
  BY DEF CallsOK, Known

\* Setting the secret of a row, or settling it, leaves a proper row.
LEMMA RevealedRow ==
    ASSUME NEW old, Proper(old)
    PROVE  LET row == [old EXCEPT !.revealed = TRUE]
               settled == [row EXCEPT !.propagation = "not-applicable", !.scheduled = FALSE]
           IN /\ Proper(row) /\ row.revealed /\ row.hash = old.hash
              /\ Proper(settled) /\ settled.revealed /\ settled.hash = old.hash
  BY DEF Proper, Row

\* The outcome of an attempt is a proper row with its secret.
LEMMA OutcomeRow ==
    ASSUME NEW row, Proper(row), row.revealed, NEW success \in BOOLEAN
    PROVE  /\ Proper(Outcome(row, success))
           /\ Outcome(row, success).revealed
           /\ Outcome(row, success).hash = row.hash
  <1>1. Attempt(row) \in 0..MaxAttempts
    BY RequestAssumption DEF Attempt, Proper, Row
  <1>2. QED
    BY <1>1 DEF Outcome, Proper, Row

\* A reveal keeps the invariant.
LEMMA RevealStep ==
    ASSUME IInv, NEW c \in Reveals, NEW p \in Payments, Reveal(c, p)
    PROVE  IInv'
  <1> USE DEF IInv
  <1> DEFINE row == [payments[p] EXCEPT !.revealed = TRUE]
             settled == [row EXCEPT !.propagation = "not-applicable", !.scheduled = FALSE]
             call == [id |-> p, row |-> row, told |-> FALSE]
  <1>1. Proper(payments[p])
    BY DEF Reveal, RowsOK, Present
  <1>2. /\ Proper(row) /\ row.revealed
        /\ Proper(settled) /\ settled.revealed /\ settled.hash = row.hash
    BY <1>1, RevealedRow DEF Proper
  <1>3. /\ UNCHANGED <<transfers, due, hopSigned, released, told, restarts>>
        /\ \/ /\ Save(p, row)
              /\ propagations' = [propagations EXCEPT ![c] = call]
              /\ confirmed' = confirmed
           \/ /\ Save(p, row) \/ Save(p, settled)
              /\ confirmed' = confirmed \cup {row.hash}
              /\ propagations' = propagations
    BY DEF Reveal
  <1> HIDE DEF row, settled
  <1>4. TransfersOK'
    BY <1>3 DEF TransfersOK
  <1>5. RowsOK' /\ secrets \subseteq secrets' /\ row.hash \in secrets'
    BY <1>2, <1>3, SaveRow
  <1>6. CallsOK'
    <2>1. call \in Call /\ call.row = row
      BY <1>2 DEF Call, Proper
    <2>2. confirmed' \cup told' \subseteq secrets'
      BY <1>3, <1>5 DEF CallsOK
    <2>3. c \in Callers
      BY DEF Callers
    <2> HIDE DEF call
    <2>4. CASE propagations' = [propagations EXCEPT ![c] = call]
      BY <1>2, <1>3, <1>5, <2>1, <2>2, <2>3, <2>4, CallStarts
    <2>5. CASE propagations' = propagations
      BY <1>3, <1>5, <2>2, <2>5, CallsStay
    <2>6. QED
      BY <1>3, <2>4, <2>5
  <1>7. QED
    BY <1>4, <1>5, <1>6

\* The previous hop learns only secrets that the node has stored.
LEMMA AcceptStep ==
    ASSUME IInv, NEW c \in Callers, UpstreamAccepts(c)
    PROVE  IInv'
  <1> USE DEF IInv
  <1>1. TransfersOK'
    BY DEF UpstreamAccepts, TransfersOK
  <1>2. RowsOK'
    BY DEF UpstreamAccepts, tables, RowsOK, Present, OfPipe, Known
  <1>3. CallsOK'
    <2> DEFINE call == [propagations[c] EXCEPT !.told = TRUE]
    <2>1. /\ propagations[c] \in Call /\ Proper(propagations[c].row)
          /\ propagations[c].row.revealed /\ propagations[c].row.hash \in secrets
      BY DEF UpstreamAccepts, CallsOK, Known
    <2>2. call \in Call /\ call.row = propagations[c].row
      BY <2>1 DEF Call
    <2>3. /\ propagations' = [propagations EXCEPT ![c] = call]
          /\ due' = due /\ secrets' = secrets
          /\ confirmed' \cup told' \subseteq secrets'
      BY <2>1 DEF UpstreamAccepts, tables, CallsOK
    <2> HIDE DEF call
    <2>4. QED
      BY <2>1, <2>2, <2>3, CallStarts
  <1>4. QED
    BY <1>1, <1>2, <1>3

\* The outcome of an attempt is written over the row as it was read; the secret is in it.
LEMMA EndStep ==
    ASSUME IInv, NEW c \in Callers, EndCall(c)
    PROVE  IInv'
  <1> USE DEF IInv
  <1> DEFINE call == propagations[c]
  <1>1. PICK success \in BOOLEAN : Propagated(c, success)
    BY DEF EndCall
  <1>2. /\ call.id \in Payments /\ Proper(call.row) /\ call.row.revealed
        /\ call.row.hash \in secrets
    BY <1>1 DEF Propagated, CallsOK, Call, Known
  <1>3. RowsOK' /\ secrets \subseteq secrets'
    BY <1>1, <1>2, OutcomeRow, SaveRow DEF Propagated
  <1>4. TransfersOK'
    BY <1>1 DEF Propagated, TransfersOK
  <1>5. CallsOK'
    <2>1. confirmed' \cup told' \subseteq secrets'
      BY <1>1, <1>2, <1>3 DEF Propagated, CallsOK
    <2>2. QED
      BY <1>1, <1>3, <2>1, CallEnds DEF Propagated
  <1>6. QED
    BY <1>3, <1>4, <1>5

\* The retry pass keeps the invariant.
LEMMA PassStep ==
    ASSUME IInv, StartPass \/ RetryNext \/ EndPass
    PROVE  IInv'
  <1> USE DEF IInv
  <1>1. TransfersOK'
    BY DEF StartPass, RetryNext, EndPass, world, TransfersOK
  <1>2. CASE StartPass
    <2>1. RowsOK'
      BY <1>2 DEF StartPass, tables, RowsOK, Present, OfPipe, Known
    <2>2. \A p \in Present(payments) :
             LET d == [id |-> p, row |-> payments[p], told |-> FALSE]
             IN d \in Call /\ Proper(d.row) /\ Known(d.row, secrets)
      BY DEF RowsOK, Present, Call, Proper
    <2>3. due' \subseteq Call /\ \A d \in due' : Proper(d.row) /\ Known(d.row, secrets')
      BY <1>2, <2>2 DEF StartPass, tables
    <2>4. CallsOK'
      BY <1>2, <2>3 DEF StartPass, tables, world, CallsOK
    <2>5. QED
      BY <1>1, <2>1, <2>4
  <1>3. CASE EndPass
    <2>1. RowsOK'
      BY <1>3 DEF EndPass, tables, RowsOK, Present, OfPipe, Known
    <2>2. CallsOK'
      BY <1>3 DEF EndPass, tables, world, CallsOK
    <2>3. QED
      BY <1>1, <2>1, <2>2
  <1>4. CASE RetryNext
    <2>1. PICK d \in due :
             /\ due' = due \ {d}
             /\ IF d.row.revealed
                THEN propagations' = [propagations EXCEPT ![Retry] = d] /\ UNCHANGED tables
                ELSE /\ Save(d.id, [d.row EXCEPT !.propagation = "failed", !.scheduled = FALSE,
                                                 !.attempts = Attempt(d.row)])
                     /\ UNCHANGED propagations
      BY <1>4 DEF RetryNext
    <2>2. /\ due # None /\ due' \subseteq due
          /\ d \in Call /\ Proper(d.row) /\ Known(d.row, secrets)
          /\ UNCHANGED <<told, confirmed>>
      BY <1>4, <2>1 DEF RetryNext, world, CallsOK
    <2>3. CASE d.row.revealed
      <3>1. RowsOK'
        BY <2>1, <2>3 DEF tables, RowsOK, Present, OfPipe, Known
      <3>2. CallsOK'
        BY <2>1, <2>2, <2>3 DEF tables, CallsOK, Known, Callers
      <3>3. QED
        BY <1>1, <3>1, <3>2
    <2>4. CASE ~d.row.revealed
      <3> DEFINE row == [d.row EXCEPT !.propagation = "failed", !.scheduled = FALSE,
                                      !.attempts = Attempt(d.row)]
      <3>1. Attempt(d.row) \in 0..MaxAttempts
        BY <2>2, RequestAssumption DEF Attempt, Proper, Row
      <3>2. Proper(row)
        BY <2>2, <3>1 DEF Proper, Row
      <3>3. Save(d.id, row) /\ propagations' = propagations /\ d.id \in Payments
        BY <2>1, <2>2, <2>4 DEF Call
      <3> HIDE DEF row
      <3>4. RowsOK' /\ secrets \subseteq secrets'
        BY <3>2, <3>3, SaveRow
      <3>5. CallsOK'
        BY <2>1, <2>2, <3>3, <3>4 DEF CallsOK, Known
      <3>6. QED
        BY <1>1, <3>4, <3>5
    <2>5. QED
      BY <2>3, <2>4
  <1>5. QED
    BY <1>2, <1>3, <1>4

\* A restart forgets the calls and nothing of the tables.
LEMMA RestartStep ==
    ASSUME IInv, Restart
    PROVE  IInv'
  <1> USE DEF IInv
  <1>1. TransfersOK'
    BY DEF Restart, TransfersOK, Idle
  <1>2. RowsOK'
    BY DEF Restart, tables, RowsOK, Present, OfPipe, Known
  <1>3. CallsOK'
    BY DEF Restart, tables, CallsOK
  <1>4. QED
    BY <1>1, <1>2, <1>3

--------------------------------------------------------------------------------
(* Theorems *)

\* The invariant is inductive: no step of any caller, of the retry pass or of a crash
\* leaves a secret outside of revealed_secrets or a signature before the next hop's.
THEOREM Invariance == Spec => []IInv
  <1>1. Init => IInv
    BY DEF Init, IInv, RowsOK, TransfersOK, CallsOK, Present, OfPipe, Idle
  <1>2. IInv /\ [Next]_vars => IInv'
    <2> SUFFICES ASSUME IInv, [Next]_vars PROVE IInv'
      OBVIOUS
    <2>1. CASE Next
      BY <2>1, TransferStep, RevealStep, AcceptStep, EndStep, PassStep, RestartStep DEF Next
    <2>2. CASE UNCHANGED vars
      BY <2>2 DEF vars, tables, world, IInv, RowsOK, TransfersOK, CallsOK, Present, OfPipe, Known
    <2>3. QED
      BY <2>1, <2>2
  <1>3. QED
    BY <1>1, <1>2, PTL DEF Spec

\* The tables and calls keep their types, one row names the pipe, and only a pending row
\* with its secret is scheduled for a retry.
THEOREM TypeCorrect == Spec => []TypeOK
  <1>1. IInv => TypeOK
    BY DEF IInv, RowsOK, TransfersOK, CallsOK, TypeOK, Proper, Transfer
  <1>2. QED
    BY <1>1, Invariance, PTL

\* A secret that was confirmed to the caller of /forwarding/reveal, or passed to the
\* previous hop, is in revealed_secrets for good, through pruning, races and crashes.
THEOREM SecretsStayKnown == Spec => []SecretsResolve
  <1>1. IInv => SecretsResolve
    BY DEF IInv, CallsOK, SecretsResolve
  <1>2. QED
    BY <1>1, Invariance, PTL

\* Our signature of an incoming payment is only given out for a request that the next
\* hop has signed.
THEOREM NextHopFirst == Spec => []SignedAfterNextHop
  <1>1. IInv => SignedAfterNextHop
    BY DEF IInv, TransfersOK, SignedAfterNextHop
  <1>2. QED
    BY <1>1, Invariance, PTL

================================================================================
