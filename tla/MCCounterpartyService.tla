------------------------- MODULE MCCounterpartyService -------------------------
(* Instances of CounterpartyService for TLC. *)
EXTENDS CounterpartyService

State(nonce, my, their, action) ==
    [nonce |-> nonce, my |-> my, their |-> their, action |-> action]

\* The pipe as funded, and after a withdrawal of the peer with nonce 2.
Funded == [nonce |-> 0, my |-> 1, their |-> 3]
Withdrawn == [nonce |-> 2, my |-> 1, their |-> 2]

\* Two transfers that race for a nonce, a third with the next one that pays less
\* than the second, and a withdrawal.
RaceStates == {State(1, 2, 2, "transfer"), State(1, 3, 1, "transfer"),
               State(2, 2, 2, "transfer"), State(2, 1, 2, "withdraw"),
               State(3, 2, 1, "transfer")}
RaceObservations == {Funded, Withdrawn}

\* Nothing happens on the chain after the funding.
FundingOnly == {Funded}

================================================================================
