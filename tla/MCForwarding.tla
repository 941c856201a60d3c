------------------------------ MODULE MCForwarding ------------------------------
(* Instances of Forwarding for TLC. *)
EXTENDS Forwarding

CONSTANTS p1, p2, h1, h2

Request(id, hash, nonce, upstream) ==
    [id |-> id, hash |-> hash, nonce |-> nonce, upstream |-> upstream]

\* A payment with a previous hop and a later one that started here.
TwoPayments == {Request(p1, h1, 1, TRUE), Request(p2, h2, 2, FALSE)}

\* Two payments for the same nonce.
Rivals == {Request(p1, h1, 1, TRUE), Request(p2, h2, 1, TRUE)}

================================================================================
