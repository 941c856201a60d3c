-------------------------- MODULE MCStackflowContract --------------------------
(* Instances of StackflowContract for TLC: keys and wallets of each run. *)
EXTENDS StackflowContract

CONSTANTS alice, bob, sbtc

Key(t, a, b) == [token |-> t, principal1 |-> a, principal2 |-> b]

\* One pipe.
OnePipe == {Key(STX, alice, bob)}
PairWallet == [p \in {alice, bob} |-> IF p = alice THEN 2 ELSE 1]

PairValidAfters == {NoHeight, 2}

================================================================================
