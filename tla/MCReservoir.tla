------------------------------ MODULE MCReservoir ------------------------------
(* Instances of Reservoir for TLC: one borrower, who brings a token. *)
EXTENDS Reservoir

CONSTANTS alice

Tap == [token |-> STX, principal1 |-> alice, principal2 |-> RESERVOIR]
OneTap == {Tap}

PoolWallet == [p \in {alice, RESERVOIR, OPERATOR} |->
                  IF p = OPERATOR THEN 2 ELSE IF p = alice THEN 1 ELSE 0]

NoHeights == {NoHeight}

================================================================================
