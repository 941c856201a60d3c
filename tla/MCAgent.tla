-------------------------------- MODULE MCAgent --------------------------------
(* Instances of AgentWatcher for TLC. *)
EXTENDS AgentWatcher

CONSTANT p1

Transfer(p, nonce, my, their) ==
    [pipe |-> p, nonce |-> nonce, my |-> my, their |-> their, actor |-> "peer",
     beneficialOnly |-> FALSE]

Funded == [nonce |-> 0, my |-> 1, their |-> 2]

\* The peer pays one.
PeerPayments == {Transfer(p1, 1, 2, 1)}

\* Two transfers for the same nonce, the second paying less.
RivalPayments == {Transfer(p1, 1, 3, 0), Transfer(p1, 1, 2, 1)}

================================================================================
