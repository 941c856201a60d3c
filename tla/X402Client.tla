------------------------------- MODULE X402Client -------------------------------
(***************************************************************************)
(* The client of the x402 gateway, packages/x402-client/src: the retry loop *)
(* of X402Client.request, the sqlite store of SqliteX402StateStore that     *)
(* several callers, also of several processes, share, and                   *)
(* StackflowNodePipeStateSource, which copies the node's view of the pipe   *)
(* into that store.                                                         *)
(*                                                                         *)
(* How a proof is made is left to the application.  The README shows two    *)
(* ways, and a provider here takes either: a fixed proof (Quick Start), or  *)
(* the next nonce, read and written under the lock of the pipe (Pipe Lock   *)
(* Example), as if for the key that the synchronisation writes.  Balances   *)
(* and signatures are left out, and all requests ask for one path.          *)
(*                                                                         *)
(* The gateway answers at will; it knows a nonce once it answered 2xx.      *)
(***************************************************************************)
EXTENDS Integers

CONSTANTS
    Callers,                \* requests in progress at the same time
    ProactivePayment,       \* proactivePayment
    MaxPaymentAttempts,     \* maxPaymentAttempts
    Null,
    OtherNonce,             \* nonce of the pair's pipe of another token
    MaxSyncs, MaxCrashes    \* bounds

ASSUME ClientAssumption ==
    /\ ProactivePayment \in BOOLEAN
    /\ MaxPaymentAttempts \in Nat \ {0}
    /\ Null \notin Nat /\ Null \notin [token : Callers, expired : BOOLEAN]
    /\ OtherNonce \in Nat /\ MaxSyncs \in Nat /\ MaxCrashes \in Nat

VARIABLES
    row,        \* the nonce in pipe_states (0 without a row)
    lock,       \* the row of pipe_locks: its token, and whether its time has passed
    consumed,   \* consumed_proofs that have not expired
    requests,   \* the loop of each caller
    fetched,    \* the pipe that GET /pipes was found to show, on its way into the store
    nodeNonce,  \* the highest nonce the node accepted
    built,      \* history: nonces that were written to the row, and under which lease
    epoch,      \* history: writes to the row from outside a valid lease
    syncs, crashes

vars == <<row, lock, consumed, requests, fetched, nodeNonce, built, epoch, syncs, crashes>>

\* What makes a proof different from another one on the same path.
FixedProof == 1

Phases == {"start", "proving", "inside", "building", "leaving", "proved", "sent", "done", "failed"}

\* A pipe of the pair as the node lists it; its key in the store names the token.
Pipe == [token : {"ours", "other"}, nonce : Nat]

\* Payment attempts are counted up to one more than allowed.
Counted(n) == IF n > MaxPaymentAttempts THEN MaxPaymentAttempts + 1 ELSE n

Init ==
    /\ row = 0 /\ nodeNonce = 0
    /\ lock = Null
    /\ consumed = {}
    /\ requests = [c \in Callers |-> [phase |-> "start", challenged |-> FALSE, lapsed |-> FALSE,
                                      attempts |-> 0, paid |-> 0, nonce |-> Null]]
    /\ fetched = Null
    /\ built = {} /\ epoch = 0
    /\ syncs = 0 /\ crashes = 0

--------------------------------------------------------------------------------

In(c, phase) == requests[c].phase = phase
Goto(c, phase) == requests' = [requests EXCEPT ![c].phase = phase]
Apart == UNCHANGED <<fetched, syncs, crashes>>

\* shouldAttachProof
ShouldAttachProof(c) ==
    \/ requests[c].challenged
    \/ ProactivePayment /\ requests[c].attempts < MaxPaymentAttempts

\* The top of the loop: ask the provider, or send without a payment.
Begin(c) ==
    /\ In(c, "start")
    /\ requests' = [requests EXCEPT
         ![c].phase = IF ShouldAttachProof(c) THEN "proving" ELSE "sent",
         ![c].nonce = Null, ![c].lapsed = FALSE]
    /\ Apart /\ UNCHANGED <<row, lock, consumed, nodeNonce, built, epoch>>

ProvideFixed(c) ==
    /\ In(c, "proving")
    /\ requests' = [requests EXCEPT ![c].phase = "proved", ![c].nonce = FixedProof]
    /\ Apart /\ UNCHANGED <<row, lock, consumed, nodeNonce, built, epoch>>

\* Mutant: the lease of another holder is taken before its time.
FreeAlways == TRUE

\* INSERT ... ON CONFLICT DO UPDATE ... WHERE expires_at_ms <= now
Free == lock # Null => lock.expired

\* acquirePipeLock finds the lock free,
AcquirePipeLock(c) ==
    /\ In(c, "proving")
    /\ Free
    /\ lock' = [token |-> c, expired |-> FALSE]
    /\ Goto(c, "inside")
    /\ Apart /\ UNCHANGED <<row, consumed, nodeNonce, built, epoch>>

\* or polls until its time is up and throws.
LockTimeout(c) ==
    /\ In(c, "proving")
    /\ ~Free
    /\ Goto(c, "failed")
    /\ Apart /\ UNCHANGED <<row, lock, consumed, nodeNonce, built, epoch>>

\* getPipeState
GetPipeState(c) ==
    /\ In(c, "inside")
    /\ requests' = [requests EXCEPT ![c].phase = "building", ![c].nonce = row + 1]
    /\ Apart /\ UNCHANGED <<row, lock, consumed, nodeNonce, built, epoch>>

\* setPipeState replaces the row whatever it holds.
SetPipeState(c) ==
    /\ In(c, "building")
    /\ row' = requests[c].nonce
    /\ IF requests[c].lapsed
       THEN epoch' = epoch + 1 /\ UNCHANGED built
       ELSE /\ built' = built \cup {[by |-> c, nonce |-> requests[c].nonce, epoch |-> epoch]}
            /\ UNCHANGED epoch
    /\ Goto(c, "leaving")
    /\ Apart /\ UNCHANGED <<lock, consumed, nodeNonce>>

\* Mutant: the row is deleted whoever holds it.
Unlocked(c) == Null

\* DELETE ... WHERE lock_token = ?
Released(c) == IF lock # Null /\ lock.token = c THEN Null ELSE lock

\* releasePipeLock
ReleasePipeLock(c) ==
    /\ In(c, "leaving")
    /\ lock' = Released(c)
    /\ Goto(c, "proved")
    /\ Apart /\ UNCHANGED <<row, consumed, nodeNonce, built, epoch>>

\* The provider answered: the attempt counts, and a proof used before is not sent.
SubmitProof(c) ==
    LET used == requests[c].nonce \in consumed
    IN /\ In(c, "proved")
       /\ requests' = [requests EXCEPT
            ![c].attempts = Counted(requests[c].attempts + 1),
            ![c].paid = IF used THEN requests[c].paid ELSE requests[c].paid + 1,
            ![c].phase = IF used THEN "start" ELSE "sent"]
       /\ Apart /\ UNCHANGED <<row, lock, consumed, nodeNonce, built, epoch>>

\* 2xx: the proof is marked as used.
Succeed(c) ==
    /\ In(c, "sent")
    /\ Goto(c, "done")
    /\ IF requests[c].nonce = Null
       THEN UNCHANGED <<consumed, nodeNonce>>
       ELSE /\ consumed' = consumed \cup {requests[c].nonce}
            /\ nodeNonce' = IF requests[c].nonce > nodeNonce THEN requests[c].nonce ELSE nodeNonce
    /\ Apart /\ UNCHANGED <<row, lock, built, epoch>>

\* Any other answer but a challenge goes to the caller.
OtherAnswer(c) ==
    /\ In(c, "sent")
    /\ Goto(c, "done")
    /\ Apart /\ UNCHANGED <<row, lock, consumed, nodeNonce, built, epoch>>

OutOfAttempts(c) == requests[c].attempts >= MaxPaymentAttempts

\* 402 with a challenge: once more, unless the attempts are used up.
Challenged(c) ==
    /\ In(c, "sent")
    /\ requests' = [requests EXCEPT
         ![c].challenged = TRUE,
         ![c].phase = IF OutOfAttempts(c) THEN "done" ELSE "start"]
    /\ Apart /\ UNCHANGED <<row, lock, consumed, nodeNonce, built, epoch>>

\* A caller dies with its process and leaves its lock behind.
Crash(c) ==
    /\ ~In(c, "done") /\ ~In(c, "failed")
    /\ crashes < MaxCrashes /\ crashes' = crashes + 1
    /\ Goto(c, "failed")
    /\ UNCHANGED <<row, lock, consumed, fetched, nodeNonce, built, epoch, syncs>>

\* lockTtlMs passes.
LeaseEnds ==
    /\ lock # Null /\ ~lock.expired
    /\ lock' = [lock EXCEPT !.expired = TRUE]
    /\ requests' = [requests EXCEPT ![lock.token].lapsed = TRUE]
    /\ Apart /\ UNCHANGED <<row, consumed, nodeNonce, built, epoch>>

\* purgeExpired drops a lock whose time has passed.
Purge ==
    /\ lock # Null /\ lock.expired
    /\ lock' = Null
    /\ Apart /\ UNCHANGED <<row, consumed, requests, nodeNonce, built, epoch>>

\* Mutant: the expiry of a used proof is not looked at.
ForgetNever(nonce) == FALSE

\* localReplayTtlMs passes.
Forget(nonce) ==
    /\ nonce \in consumed
    /\ consumed' = consumed \ {nonce}
    /\ Apart /\ UNCHANGED <<row, lock, requests, nodeNonce, built, epoch>>

NodePipes == {[token |-> "ours", nonce |-> nodeNonce], [token |-> "other", nonce |-> OtherNonce]}

\* selectBestPipeFromNode: the highest nonce, whatever the token; updatedAt breaks ties.
Best(pipes) == {p \in pipes : \A q \in pipes : q.nonce <= p.nonce}

\* syncPipeState: the answer of the node,
GetPipeStatus ==
    /\ fetched = Null
    /\ syncs < MaxSyncs /\ syncs' = syncs + 1
    /\ fetched' \in Best(NodePipes)
    /\ UNCHANGED <<row, lock, consumed, requests, nodeNonce, built, epoch, crashes>>

\* and later its copy into the store, outside any lock.
StoreStatus ==
    /\ fetched # Null
    /\ fetched' = Null
    /\ IF fetched.token = "ours"
       THEN row' = fetched.nonce /\ epoch' = epoch + 1
       ELSE UNCHANGED <<row, epoch>>
    /\ UNCHANGED <<lock, consumed, requests, nodeNonce, built, syncs, crashes>>

Advance(c) ==
    \/ Begin(c) \/ ProvideFixed(c) \/ AcquirePipeLock(c) \/ LockTimeout(c)
    \/ GetPipeState(c) \/ SetPipeState(c) \/ ReleasePipeLock(c) \/ SubmitProof(c)
    \/ Succeed(c) \/ OtherAnswer(c) \/ Challenged(c)

Next ==
    \/ \E c \in Callers : Advance(c) \/ Crash(c)
    \/ LeaseEnds \/ Purge
    \/ \E nonce \in consumed : Forget(nonce)
    \/ GetPipeStatus \/ StoreStatus

\* Callers go on, and clocks too.
Fairness ==
    /\ \A c \in Callers : WF_vars(Advance(c))
    /\ WF_vars(\E nonce \in consumed : Forget(nonce))

Spec == Init /\ [][Next]_vars
FairSpec == Spec /\ Fairness

--------------------------------------------------------------------------------
(* Properties *)

\* Whoever is between acquirePipeLock and releasePipeLock holds the lock until its time
\* has passed: nobody takes or releases it meanwhile, not even a caller whose own lease
\* ended while it was inside.
HolderKeepsLock ==
    \A c \in Callers :
        requests[c].phase \in {"inside", "building", "leaving"} /\ ~requests[c].lapsed
            => lock = [token |-> c, expired |-> FALSE]

\* "Use per-pipe lock to avoid nonce races across concurrent requests": two callers take
\* the same nonce only if the row was written from outside a lease in between, by the
\* synchronisation or by a caller whose lease had ended.
NoncesTakenOnce ==
    \A a, b \in built : a.nonce = b.nonce /\ a.epoch = b.epoch => a = b

\* "maxPaymentAttempts": a request asks its provider for at most that many proofs.
AttemptsBounded == \A c \in Callers : requests[c].attempts <= MaxPaymentAttempts

\* Every request ends: neither a dead holder of the lock nor a provider that repeats a
\* used proof keeps it going for ever.
RequestsEnd == \A c \in Callers : <>(requests[c].phase \in {"done", "failed"})

================================================================================
