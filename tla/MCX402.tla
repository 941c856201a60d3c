--------------------------------- MODULE MCX402 ---------------------------------
(* Instances of X402Gateway for TLC. *)
EXTENDS X402Gateway, TLC

CONSTANTS get, post, pay

State(nonce, my, their) == [nonce |-> nonce, my |-> my, their |-> their, action |-> "transfer"]
Funded == [nonce |-> 0, my |-> 1, their |-> 3]
TransferStates == {State(1, 2, 2), State(2, 3, 1)}
FundingOnly == {Funded}

TransferProofs == {[mode |-> "direct", state |-> s, amount |-> 1] : s \in TransferStates}
SecretProof == [mode |-> "indirect", payment |-> pay, secretOk |-> TRUE, fromOk |-> TRUE]

\* One transfer and a forwarded payment.
OneOfEach == {[mode |-> "direct", state |-> State(1, 2, 2), amount |-> 1], SecretProof}

Symmetric == Permutations(Calls) \cup Permutations(Requests) \cup Permutations(Routes)
HashKeys == Routes \X Proofs
================================================================================
