------------------------------ MODULE PipeEscrow ------------------------------
(***************************************************************************)
(* What the Stackflow contract promises of a pipe, without signatures,     *)
(* balances, confirmations or message formats: an escrow between two       *)
(* owners.  Tokens enter from an owner and leave only to the owners, whole *)
(* when the pipe is settled; settlement takes a newer agreement or, after  *)
(* notice, the passing of the waiting period; nothing but a settlement     *)
(* follows a notice.                                                       *)
(***************************************************************************)
EXTENDS Integers

CONSTANTS Pipes,           \* records with the owners principal1 and principal2
          Principals, InitialWallet,
          WaitingPeriod,
          Never,           \* deadline of a pipe without notice
          MaxVersion, LastTime

VARIABLES wallet, locked, version, deadline, time

escrowVars == <<wallet, locked, version, deadline, time>>

Owners(k) == {k.principal1, k.principal2}
Versions == 0..MaxVersion

Init ==
    /\ wallet = InitialWallet
    /\ locked = [k \in Pipes |-> 0]
    /\ version = [k \in Pipes |-> 0]
    /\ deadline = [k \in Pipes |-> Never]
    /\ time = 0

\* Pipe k now holds l tokens, has agreed on version v and may be settled at d.
Set(k, l, v, d) ==
    /\ locked' = [locked EXCEPT ![k] = l]
    /\ version' = [version EXCEPT ![k] = v]
    /\ deadline' = [deadline EXCEPT ![k] = d]
    /\ UNCHANGED time

\* An owner adds tokens.
Lock(k, p, n, v) ==
    /\ deadline[k] = Never
    /\ p \in Owners(k)
    /\ 0 < n /\ n <= wallet[p]
    /\ v >= version[k]
    /\ wallet' = [wallet EXCEPT ![p] = @ - n]
    /\ Set(k, locked[k] + n, v, Never)

\* An owner takes tokens out, by a newer agreement.
Unlock(k, p, n, v) ==
    /\ deadline[k] = Never
    /\ p \in Owners(k)
    /\ 0 < n /\ n <= locked[k]
    /\ v > version[k]
    /\ wallet' = [wallet EXCEPT ![p] = @ + n]
    /\ Set(k, locked[k] - n, v, Never)

\* An owner gives notice.
GiveNotice(k, v) ==
    /\ deadline[k] = Never
    /\ v >= version[k]
    /\ Set(k, locked[k], v, time + WaitingPeriod)
    /\ UNCHANGED wallet

\* The owners get everything, n to the first and the rest to the second.
Settle(k, n, v) ==
    /\ \/ v > version[k]
       \/ v = version[k] /\ deadline[k] # Never /\ time >= deadline[k]
    /\ wallet' = [wallet EXCEPT ![k.principal1] = @ + n,
                                ![k.principal2] = @ + (locked[k] - n)]
    /\ Set(k, 0, v, Never)

Tick ==
    /\ time < LastTime
    /\ time' = time + 1
    /\ UNCHANGED <<wallet, locked, version, deadline>>

Next ==
    \/ Tick
    \/ \E k \in Pipes, v \in Versions :
          \/ \E p \in Owners(k) :
                \/ \E n \in 0..wallet[p] : Lock(k, p, n, v)
                \/ \E n \in 0..locked[k] : Unlock(k, p, n, v)
          \/ GiveNotice(k, v)
          \/ \E n \in 0..locked[k] : Settle(k, n, v)

Spec == Init /\ [][Next]_escrowVars

================================================================================
