----------------------------- MODULE MCBrowserDemo -----------------------------
(* Instances of BrowserDemo for TLC. *)
EXTENDS BrowserDemo

CONSTANTS alice, bob

\* The payer is the second principal of the pipe.
Channel == [token |-> STX, principal1 |-> alice, principal2 |-> bob]
Channels == {Channel}

\* The payer can open the pipe again after a life that cost it something.
PayerWallet == [p \in {alice, bob} |-> IF p = Payer THEN 10 ELSE 0]

NoHeights == {NoHeight}

================================================================================
