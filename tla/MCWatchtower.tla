----------------------------- MODULE MCWatchtower ------------------------------
(* Instances of Watchtower for TLC. *)
EXTENDS Watchtower, TLC

CONSTANTS alice, bob, h1

Channel == [token |-> STX, principal1 |-> alice, principal2 |-> bob]
Channels == {Channel}

\* Only the peer brings tokens.
PeerWallet == [p \in {alice, bob} |-> IF p = alice THEN 2 ELSE 0]

State(nonce, my, their, hash, beneficialOnly) ==
    [key |-> Channel, for |-> bob, nonce |-> nonce, my |-> my, their |-> their,
     hash |-> hash, validAfter |-> NoHeight, beneficialOnly |-> beneficialOnly]

\* A payment to Us of a pipe of 2 tokens, then a forwarded payment back or a state that
\* is only to be used when it pays Us more, and from a later block on.
Payments == {State(1, 2, 0, None, FALSE), State(2, 1, 1, h1, FALSE),
             [State(2, 2, 0, None, TRUE) EXCEPT !.validAfter = 2]}

ValidHeights == {NoHeight, 2}

\* Calls of /new_block are alike.
IngestSymmetry == Permutations(Ingests)

================================================================================
